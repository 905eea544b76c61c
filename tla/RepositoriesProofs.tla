-------------------------- MODULE RepositoriesProofs --------------------------
(***************************************************************************)
(* Proofs about repositories, on both sides of the call that syncs them.   *)
(*                                                                         *)
(* The locks of a mirror, for any number of calls, pushes and              *)
(* cancellations: LockInv is inductive, and OneWriter follows from it; so  *)
(* is AnswerInv, what a call knows of the mirror, and AnswersHold from it. *)
(*                                                                         *)
(* An undisturbed sync leaves exactly the files of its commit: SyncInv is  *)
(* inductive for any repository, any commits and any number of syncs, jobs *)
(* and resolutions.  From LockedInv it follows that rows in use survive,   *)
(* from PinInv that a run is pinned to what was shown.                     *)
(***************************************************************************)
EXTENDS GitMirror, RepositorySync, TLAPS

----------------------------------------------------------------------------
(* GitMirror.                                                              *)

(* What appending and taking the first do to a queue. *)
LEMMA AppendFacts ==
  ASSUME NEW S, NEW q \in Seq(S), NEW e \in S
  PROVE  /\ Append(q, e) \in Seq(S) /\ Len(q) \in Nat
         /\ Len(Append(q, e)) = Len(q) + 1
         /\ \A i \in 1 .. Len(q) : Append(q, e)[i] = q[i]
         /\ Append(q, e)[Len(q) + 1] = e
  OBVIOUS

LEMMA TailFacts ==
  ASSUME NEW S, NEW q \in Seq(S), q # <<>>
  PROVE  /\ Head(q) = q[1] /\ 1 \in 1 .. Len(q) /\ Head(q) \in S
         /\ Tail(q) \in Seq(S) /\ Len(q) \in Nat
         /\ Len(Tail(q)) = Len(q) - 1
         /\ \A i \in 1 .. Len(Tail(q)) : i + 1 \in 1 .. Len(q) /\ Tail(q)[i] = q[i + 1]
  OBVIOUS

(* What the steps do to the lock is one of five things. *)
LockTypes ==
  /\ pc \in [Call -> Thread \cup Reading \cup {"free", "wait", "over"}]
  /\ orphan \in [Call -> BOOLEAN]
  /\ lockOf \in [Call -> Call \cup {Nil}]
  /\ holder \in [Call -> Call \cup {Nil}]
  /\ waiters \in [Call -> Seq(Call)]

LEMMA LockTypesOK == MirrorTypeOK => LockTypes
  BY DEF MirrorTypeOK, LockTypes

(* A step inside the lock, or of an orphan on its way out. *)
LEMMA MoveInside ==
  ASSUME GitMirrorAssumption, LockTypes, LockInv, NEW c \in Call, NEW x, Move(c, x),
         UNCHANGED <<orphan, lockOf, holder, waiters>>,
         \/ /\ pc[c] \in Inside /\ Holds(c) /\ x \in Inside \ {"wait"}
            /\ orphan[c] => x \in Thread
         \/ pc[c] \in Inside \ {"wait"} /\ orphan[c] /\ x \in Thread \cup {"over"}
  PROVE  LockInv'
<1>1. \A d \in Call : pc'[d] = IF d = c THEN x ELSE pc[d]
  BY DEF Move, LockTypes
<1>2. ~(\E l \in Call : \E i \in 1 .. Len(waiters[l]) : waiters[l][i] = c)
  BY DEF LockInv, Holds, GitMirrorAssumption, Inside, LockTypes, Thread
<1>3. \A l \in Call : holder[l] # Nil => holder[l] \in Call
  BY DEF LockTypes
<1>4. \A l \in Call : \A i \in 1 .. Len(waiters[l]) : waiters[l][i] \in Call
  BY DEF LockTypes
<1>5. ASSUME NEW l \in Call, holder'[l] # Nil
      PROVE  lockOf'[holder'[l]] = l /\ ~orphan'[holder'[l]] /\ pc'[holder'[l]] \in Inside
  BY <1>1, <1>3, <1>5 DEF LockInv, Inside, Thread
<1>6. ASSUME NEW l \in Call, NEW i \in 1 .. Len(waiters'[l])
      PROVE  /\ pc'[waiters'[l][i]] = "wait" /\ lockOf'[waiters'[l][i]] = l
             /\ holder'[l] \notin {Nil, waiters'[l][i]}
             /\ \A j \in 1 .. Len(waiters'[l]) : waiters'[l][i] = waiters'[l][j] => i = j
  BY <1>1, <1>2, <1>4 DEF LockInv
<1>7. ASSUME NEW d \in Call
      PROVE  /\ pc'[d] \in Inside => lockOf'[d] # Nil
             /\ pc'[d] = "wait" => holder'[lockOf'[d]] = d \/ Waits(d, lockOf[d])'
             /\ pc'[d] \in Inside \ {"wait"} /\ ~orphan'[d] => holder'[lockOf'[d]] = d
             /\ orphan'[d] => pc'[d] \in Thread \cup {"over"}
  BY <1>1 DEF LockInv, Inside, Thread, Waits, Holds
<1> QED
  BY <1>5, <1>6, <1>7 DEF LockInv

(* A step of a call that is not inside, to where it is not inside. *)
LEMMA MoveOutside ==
  ASSUME GitMirrorAssumption, LockTypes, LockInv, NEW c \in Call, NEW x, Move(c, x),
         UNCHANGED <<orphan, lockOf, holder, waiters>>,
         pc[c] \notin Inside, x \notin Inside, orphan[c] => x = "over"
  PROVE  LockInv'
<1>1. \A d \in Call : pc'[d] = IF d = c THEN x ELSE pc[d]
  BY DEF Move, LockTypes
<1>4. \A l \in Call : \A i \in 1 .. Len(waiters[l]) : waiters[l][i] \in Call
  BY DEF LockTypes
<1>5. ASSUME NEW l \in Call, holder'[l] # Nil
      PROVE  lockOf'[holder'[l]] = l /\ ~orphan'[holder'[l]] /\ pc'[holder'[l]] \in Inside
  <2>1. holder[l] \in Call /\ lockOf[holder[l]] = l /\ ~orphan[holder[l]]
        /\ pc[holder[l]] \in Inside
    BY <1>5 DEF LockInv, LockTypes
  <2> QED
    BY <1>1, <2>1
<1>6. ASSUME NEW l \in Call, NEW i \in 1 .. Len(waiters'[l])
      PROVE  /\ pc'[waiters'[l][i]] = "wait" /\ lockOf'[waiters'[l][i]] = l
             /\ holder'[l] \notin {Nil, waiters'[l][i]}
             /\ \A j \in 1 .. Len(waiters'[l]) : waiters'[l][i] = waiters'[l][j] => i = j
  BY <1>1, <1>4 DEF LockInv, Inside
<1>7. ASSUME NEW d \in Call
      PROVE  /\ pc'[d] \in Inside => lockOf'[d] # Nil
             /\ pc'[d] = "wait" => holder'[lockOf'[d]] = d \/ Waits(d, lockOf[d])'
             /\ pc'[d] \in Inside \ {"wait"} /\ ~orphan'[d] => holder'[lockOf'[d]] = d
             /\ orphan'[d] => pc'[d] \in Thread \cup {"over"}
  BY <1>1 DEF LockInv, Inside, Waits
<1> QED
  BY <1>5, <1>6, <1>7 DEF LockInv

LEMMA ArriveInv ==
  ASSUME GitMirrorAssumption, LockTypes, LockInv, registered \in Call \cup {Nil},
         NEW c \in Call, Arrive(c), UNCHANGED orphan, pc[c] \notin Inside, pc[c] # "over"
  PROVE  LockInv'
<1> DEFINE l == LockFor(c)
<1>0. l \in Call
  BY DEF LockFor
<1>1. /\ \A d \in Call : pc'[d] = IF d = c THEN "wait" ELSE pc[d]
      /\ \A d \in Call : lockOf'[d] = IF d = c THEN l ELSE lockOf[d]
  BY DEF Arrive, Move, LockTypes
<1>2. ~orphan[c]
  BY DEF LockInv, Inside
<1>3. /\ ~(\E m \in Call : \E i \in 1 .. Len(waiters[m]) : waiters[m][i] = c)
      /\ \A m \in Call : holder[m] # c
  BY DEF LockInv, Inside, GitMirrorAssumption
<1>4. \A m \in Call : \A i \in 1 .. Len(waiters[m]) : waiters[m][i] \in Call
  BY DEF LockTypes
<1>5. CASE holder[l] = Nil
  <2>1. /\ UNCHANGED waiters
        /\ \A m \in Call : holder'[m] = IF m = l THEN c ELSE holder[m]
    BY <1>5 DEF Arrive, LockTypes
  <2>2. waiters[l] = <<>>
    BY <1>5, <1>0 DEF LockInv, LockTypes
  <2>3. ASSUME NEW m \in Call, holder'[m] # Nil
        PROVE  lockOf'[holder'[m]] = m /\ ~orphan'[holder'[m]] /\ pc'[holder'[m]] \in Inside
    BY <1>1, <1>2, <1>3, <2>1, <2>3 DEF LockInv, LockTypes, Inside
  <2>4. ASSUME NEW m \in Call, NEW i \in 1 .. Len(waiters'[m])
        PROVE  /\ pc'[waiters'[m][i]] = "wait" /\ lockOf'[waiters'[m][i]] = m
               /\ holder'[m] \notin {Nil, waiters'[m][i]}
               /\ \A j \in 1 .. Len(waiters'[m]) : waiters'[m][i] = waiters'[m][j] => i = j
    BY <1>1, <1>3, <1>4, <2>1, <2>2 DEF LockInv
  <2>5. ASSUME NEW d \in Call
        PROVE  /\ pc'[d] \in Inside => lockOf'[d] # Nil
               /\ pc'[d] = "wait" => holder'[lockOf'[d]] = d \/ Waits(d, lockOf[d])'
               /\ pc'[d] \in Inside \ {"wait"} /\ ~orphan'[d] => holder'[lockOf'[d]] = d
               /\ orphan'[d] => pc'[d] \in Thread \cup {"over"}
    <3>1. CASE d = c
      BY <1>0, <1>1, <1>2, <2>1, <3>1 DEF Inside, GitMirrorAssumption
    <3>2. CASE d # c
      <4>1. pc[d] \in Inside => lockOf[d] \in Call
        BY DEF LockInv, LockTypes
      <4>2. lockOf[d] \in Call => (Waits(d, lockOf[d])' <=> Waits(d, lockOf[d]))
        BY <1>1, <2>1, <3>2 DEF Waits
      <4>3. lockOf[d] \in Call /\ holder[lockOf[d]] = d => lockOf[d] # l
        BY <1>5 DEF GitMirrorAssumption
      <4> QED
        BY <1>1, <2>1, <3>2, <4>1, <4>2, <4>3 DEF LockInv, Inside
    <3> QED
      BY <3>1, <3>2
  <2> QED
    BY <2>3, <2>4, <2>5 DEF LockInv
<1>6. CASE holder[l] # Nil
  <2>1. /\ UNCHANGED holder
        /\ \A m \in Call : waiters'[m] = IF m = l THEN Append(waiters[l], c) ELSE waiters[m]
    BY <1>0, <1>6 DEF Arrive, LockTypes
  <2>2. /\ waiters[l] \in Seq(Call)
        /\ Len(waiters'[l]) = Len(waiters[l]) + 1
        /\ \A i \in 1 .. Len(waiters[l]) : waiters'[l][i] = waiters[l][i]
        /\ waiters'[l][Len(waiters[l]) + 1] = c
        /\ Len(waiters[l]) \in Nat
    <3>1. waiters[l] \in Seq(Call) /\ waiters'[l] = Append(waiters[l], c)
      BY <1>0, <2>1 DEF LockTypes
    <3> QED
      BY <3>1, AppendFacts
  <2>3. ASSUME NEW m \in Call, holder'[m] # Nil
        PROVE  lockOf'[holder'[m]] = m /\ ~orphan'[holder'[m]] /\ pc'[holder'[m]] \in Inside
    BY <1>1, <1>2, <1>3, <2>1, <2>3 DEF LockInv, LockTypes, Inside
  <2>4. ASSUME NEW m \in Call, NEW i \in 1 .. Len(waiters'[m])
        PROVE  /\ pc'[waiters'[m][i]] = "wait" /\ lockOf'[waiters'[m][i]] = m
               /\ holder'[m] \notin {Nil, waiters'[m][i]}
               /\ \A j \in 1 .. Len(waiters'[m]) : waiters'[m][i] = waiters'[m][j] => i = j
    <3>1. CASE m # l
      BY <1>1, <1>3, <1>4, <2>1, <3>1 DEF LockInv
    <3>2. CASE m = l
      <4>1. ASSUME NEW j \in 1 .. Len(waiters'[l])
            PROVE  \/ j \in 1 .. Len(waiters[l]) /\ waiters'[l][j] = waiters[l][j]
                   \/ j = Len(waiters[l]) + 1 /\ waiters'[l][j] = c
        BY <2>2
      <4>2. CASE i \in 1 .. Len(waiters[l])
        <5>1. waiters'[m][i] = waiters[l][i] /\ waiters[l][i] # c /\ waiters[l][i] \in Call
          BY <1>0, <1>3, <1>4, <2>2, <3>2, <4>2
        <5>2. /\ pc[waiters[l][i]] = "wait" /\ lockOf[waiters[l][i]] = l
              /\ holder[l] \notin {Nil, waiters[l][i]}
              /\ \A j \in 1 .. Len(waiters[l]) : waiters[l][i] = waiters[l][j] => i = j
          BY <1>0, <4>2 DEF LockInv
        <5>3. /\ pc'[waiters'[m][i]] = "wait" /\ lockOf'[waiters'[m][i]] = m
              /\ holder'[m] \notin {Nil, waiters'[m][i]}
          BY <1>1, <2>1, <3>2, <5>1, <5>2
        <5>4. \A j \in 1 .. Len(waiters'[m]) : waiters'[m][i] = waiters'[m][j] => i = j
          BY <3>2, <4>1, <5>1, <5>2
        <5> QED
          BY <5>3, <5>4
      <4>3. CASE i = Len(waiters[l]) + 1
        BY <1>0, <1>1, <1>3, <1>6, <2>1, <2>2, <3>2, <4>1, <4>3
      <4> QED
        BY <3>2, <4>1, <4>2, <4>3
    <3> QED
      BY <3>1, <3>2
  <2>5. ASSUME NEW d \in Call
        PROVE  /\ pc'[d] \in Inside => lockOf'[d] # Nil
               /\ pc'[d] = "wait" => holder'[lockOf'[d]] = d \/ Waits(d, lockOf[d])'
               /\ pc'[d] \in Inside \ {"wait"} /\ ~orphan'[d] => holder'[lockOf'[d]] = d
               /\ orphan'[d] => pc'[d] \in Thread \cup {"over"}
    <3>1. CASE d = c
      <4>1. Waits(c, lockOf[c])'
        BY <1>0, <1>1, <2>2 DEF Waits
      <4> QED
        BY <1>0, <1>1, <1>2, <3>1, <4>1 DEF GitMirrorAssumption, Inside
    <3>2. CASE d # c
      <4>1. ASSUME lockOf[d] \in Call, Waits(d, lockOf[d]) PROVE Waits(d, lockOf[d])'
        BY <1>1, <2>1, <2>2, <3>2, <4>1 DEF Waits
      <4> QED
        BY <1>1, <2>1, <3>2, <4>1 DEF LockInv, LockTypes, Inside
    <3> QED
      BY <3>1, <3>2
  <2> QED
    BY <2>3, <2>4, <2>5 DEF LockInv
<1> QED
  BY <1>5, <1>6

(* The holder gives its lock back; it has left, or goes on as an orphan. *)
LEMMA LeaveInv ==
  ASSUME GitMirrorAssumption, LockTypes, LockInv, NEW c \in Call,
         pc[c] \in Inside, Holds(c), ~orphan[c], ReleaseLock(lockOf[c]), UNCHANGED lockOf,
         \/ /\ \E x : x \notin Inside /\ Move(c, x)
            /\ UNCHANGED orphan
         \/ /\ pc[c] \in Thread /\ UNCHANGED pc
            /\ orphan' = [orphan EXCEPT ![c] = TRUE]
  PROVE  LockInv'
<1> DEFINE l == lockOf[c]
           next == Head(waiters[l])
<1>0. l \in Call /\ holder[l] = c
  BY DEF Holds, LockTypes
<1>1. /\ \A d \in Call \ {c} : pc'[d] = pc[d] /\ orphan'[d] = orphan[d]
      /\ (pc'[c] \notin Inside /\ ~orphan'[c]) \/ (pc'[c] \in Thread /\ orphan'[c])
  <2>1. CASE UNCHANGED orphan /\ \E x : x \notin Inside /\ Move(c, x)
    BY <2>1 DEF Move, LockTypes
  <2>2. CASE pc[c] \in Thread /\ UNCHANGED pc /\ orphan' = [orphan EXCEPT ![c] = TRUE]
    BY <2>2 DEF LockTypes
  <2> QED
    BY <2>1, <2>2
<1>2. /\ waiters[l] \in Seq(Call) /\ Len(waiters[l]) \in Nat
      /\ ~(\E m \in Call : \E i \in 1 .. Len(waiters[m]) : waiters[m][i] = c)
      /\ \A m \in Call : holder[m] = c => m = l
  <2>1. waiters[l] \in Seq(Call) /\ Len(waiters[l]) \in Nat
    BY <1>0 DEF LockTypes
  <2>2. ASSUME NEW m \in Call, NEW i \in 1 .. Len(waiters[m]), waiters[m][i] = c
        PROVE  FALSE
    <3>1. /\ \A n \in 1 .. Len(waiters[m]) : lockOf[waiters[m][n]] = m
          /\ \A n \in 1 .. Len(waiters[m]) : holder[m] # waiters[m][n]
      BY DEF LockInv
    <3> QED
      BY <1>0, <2>2, <3>1
  <2>3. \A m \in Call : holder[m] = c => m = l
    BY DEF LockInv, GitMirrorAssumption
  <2> QED
    BY <2>1, <2>2, <2>3
<1>3. \A m \in Call : \A i \in 1 .. Len(waiters[m]) : waiters[m][i] \in Call
  BY DEF LockTypes
<1>4. CASE waiters[l] = <<>>
  <2>1. /\ UNCHANGED waiters
        /\ \A m \in Call : holder'[m] = IF m = l THEN Nil ELSE holder[m]
    BY <1>0, <1>4 DEF ReleaseLock, LockTypes
  <2>3. ASSUME NEW m \in Call, holder'[m] # Nil
        PROVE  lockOf'[holder'[m]] = m /\ ~orphan'[holder'[m]] /\ pc'[holder'[m]] \in Inside
    BY <1>1, <1>2, <2>1, <2>3 DEF LockInv, LockTypes
  <2>4. ASSUME NEW m \in Call, NEW i \in 1 .. Len(waiters'[m])
        PROVE  /\ pc'[waiters'[m][i]] = "wait" /\ lockOf'[waiters'[m][i]] = m
               /\ holder'[m] \notin {Nil, waiters'[m][i]}
               /\ \A j \in 1 .. Len(waiters'[m]) : waiters'[m][i] = waiters'[m][j] => i = j
    BY <1>1, <1>2, <1>3, <1>4, <2>1 DEF LockInv
  <2>5. ASSUME NEW d \in Call
        PROVE  /\ pc'[d] \in Inside => lockOf'[d] # Nil
               /\ pc'[d] = "wait" => holder'[lockOf'[d]] = d \/ Waits(d, lockOf[d])'
               /\ pc'[d] \in Inside \ {"wait"} /\ ~orphan'[d] => holder'[lockOf'[d]] = d
               /\ orphan'[d] => pc'[d] \in Thread \cup {"over"}
    <3>1. CASE d = c
      BY <1>0, <1>1, <3>1 DEF Inside, Thread, GitMirrorAssumption
    <3>2. CASE d # c
      <4>1. pc[d] \in Inside => lockOf[d] \in Call
        BY DEF LockInv, LockTypes
      <4>2. lockOf[d] \in Call => (Waits(d, lockOf[d])' <=> Waits(d, lockOf[d]))
        BY <2>1 DEF Waits
      <4>3. lockOf[d] \in Call /\ holder[lockOf[d]] = d => lockOf[d] # l
        BY <1>0, <3>2
      <4> QED
        BY <1>1, <2>1, <3>2, <4>1, <4>2, <4>3 DEF LockInv, Inside
    <3> QED
      BY <3>1, <3>2
  <2> QED
    BY <2>3, <2>4, <2>5 DEF LockInv
<1>5. CASE waiters[l] # <<>>
  <2>1. /\ \A m \in Call : holder'[m] = IF m = l THEN next ELSE holder[m]
        /\ \A m \in Call : waiters'[m] = IF m = l THEN Tail(waiters[l]) ELSE waiters[m]
    BY <1>0, <1>5 DEF ReleaseLock, LockTypes
  <2>2. /\ next = waiters[l][1] /\ 1 \in 1 .. Len(waiters[l]) /\ next \in Call
        /\ Len(waiters'[l]) = Len(waiters[l]) - 1
        /\ \A i \in 1 .. Len(waiters'[l]) : /\ i + 1 \in 1 .. Len(waiters[l])
                                            /\ waiters'[l][i] = waiters[l][i + 1]
    <3>1. waiters[l] \in Seq(Call) /\ waiters'[l] = Tail(waiters[l])
      BY <1>0, <1>2, <2>1
    <3> QED
      BY <1>5, <3>1, TailFacts
  <2>a. /\ pc[next] = "wait" /\ lockOf[next] = l /\ next # c /\ ~orphan[next]
    <3>1. pc[next] = "wait" /\ lockOf[next] = l /\ next # c
      BY <1>0, <1>2, <2>2 DEF LockInv
    <3>2. orphan[next] => pc[next] \in Thread \cup {"over"}
      BY <2>2 DEF LockInv
    <3> QED
      BY <3>1, <3>2 DEF Thread
  <2>3. ASSUME NEW m \in Call, holder'[m] # Nil
        PROVE  lockOf'[holder'[m]] = m /\ ~orphan'[holder'[m]] /\ pc'[holder'[m]] \in Inside
    <3>1. CASE m = l
      BY <1>1, <2>1, <2>2, <2>a, <3>1 DEF Inside
    <3>2. CASE m # l
      BY <1>1, <1>2, <2>1, <2>3, <3>2 DEF LockInv, LockTypes
    <3> QED
      BY <3>1, <3>2
  <2>4. ASSUME NEW m \in Call, NEW i \in 1 .. Len(waiters'[m])
        PROVE  /\ pc'[waiters'[m][i]] = "wait" /\ lockOf'[waiters'[m][i]] = m
               /\ holder'[m] \notin {Nil, waiters'[m][i]}
               /\ \A j \in 1 .. Len(waiters'[m]) : waiters'[m][i] = waiters'[m][j] => i = j
    <3>1. CASE m # l
      BY <1>1, <1>2, <1>3, <2>1, <3>1 DEF LockInv
    <3>2. CASE m = l
      <4>1. /\ pc[waiters[l][i + 1]] = "wait" /\ lockOf[waiters[l][i + 1]] = l
            /\ waiters[l][i + 1] \in Call \ {c}
            /\ \A j \in 1 .. Len(waiters[l]) :
                 waiters[l][i + 1] = waiters[l][j] => i + 1 = j
        BY <1>0, <1>2, <1>3, <2>2, <3>2 DEF LockInv
      <4>2. next # waiters[l][i + 1]
        BY <2>2, <3>2, <4>1
      <4> QED
        <5>1. /\ waiters'[m][i] = waiters[l][i + 1] /\ holder'[m] = next
              /\ pc'[waiters[l][i + 1]] = "wait" /\ lockOf'[waiters[l][i + 1]] = l
          BY <1>1, <2>1, <2>2, <3>2, <4>1
        <5>2. next # Nil
          BY <2>2 DEF GitMirrorAssumption
        <5>3. ASSUME NEW j \in 1 .. Len(waiters'[m]), waiters'[m][i] = waiters'[m][j]
              PROVE  i = j
          <6>1. waiters[l][j + 1] = waiters[l][i + 1] /\ j + 1 \in 1 .. Len(waiters[l])
            BY <2>2, <3>2, <5>1, <5>3
          <6> QED
            BY <4>1, <6>1
        <5> QED
          BY <3>2, <4>2, <5>1, <5>2, <5>3
    <3> QED
      BY <3>1, <3>2
  <2>5. ASSUME NEW d \in Call
        PROVE  /\ pc'[d] \in Inside => lockOf'[d] # Nil
               /\ pc'[d] = "wait" => holder'[lockOf'[d]] = d \/ Waits(d, lockOf[d])'
               /\ pc'[d] \in Inside \ {"wait"} /\ ~orphan'[d] => holder'[lockOf'[d]] = d
               /\ orphan'[d] => pc'[d] \in Thread \cup {"over"}
    <3>1. CASE d = c
      BY <1>0, <1>1, <3>1 DEF Inside, Thread, GitMirrorAssumption
    <3>2. CASE d # c
      <4>1. ASSUME lockOf[d] \in Call, Waits(d, lockOf[d])
            PROVE  holder'[lockOf[d]] = d \/ Waits(d, lockOf[d])'
        <5>1. PICK i \in 1 .. Len(waiters[lockOf[d]]) : waiters[lockOf[d]][i] = d
          BY <4>1 DEF Waits
        <5>2. CASE lockOf[d] # l
          BY <2>1, <4>1, <5>1, <5>2 DEF Waits
        <5>3. CASE lockOf[d] = l /\ i = 1
          BY <2>1, <2>2, <4>1, <5>1, <5>3
        <5>4. CASE lockOf[d] = l /\ i # 1
          <6>1. i - 1 \in 1 .. Len(waiters'[l]) /\ waiters'[l][i - 1] = d
            <7>1. i \in 1 .. Len(waiters[l]) /\ waiters[l][i] = d /\ Len(waiters[l]) \in Nat
              BY <1>2, <5>1, <5>4
            <7>2. i - 1 \in 1 .. Len(waiters'[l])
              BY <2>2, <5>4, <7>1
            <7>3. waiters'[l][i - 1] = waiters[l][(i - 1) + 1] /\ (i - 1) + 1 = i
              BY <2>2, <7>1, <7>2
            <7> QED
              BY <7>1, <7>2, <7>3
          <6> QED
            BY <4>1, <5>4, <6>1 DEF Waits
        <5> QED
          BY <5>2, <5>3, <5>4
      <4>2. pc[d] = "wait" => lockOf[d] \in Call
        BY DEF LockInv, LockTypes, Inside
      <4>3. holder[lockOf[d]] = d /\ lockOf[d] \in Call => lockOf[d] # l
        BY <1>0, <3>2
      <4> QED
        BY <1>1, <2>1, <3>2, <4>1, <4>2, <4>3 DEF LockInv, LockTypes, Inside
    <3> QED
      BY <3>1, <3>2
  <2> QED
    BY <2>3, <2>4, <2>5 DEF LockInv
<1> QED
  BY <1>4, <1>5

(* Leaving a queue keeps the others, in their order. *)
LEMMA WithoutFacts ==
  ASSUME NEW q \in Seq(Call), NEW c \in Call
  PROVE  /\ Without(q, c) \in Seq(Call)
         /\ \A i \in 1 .. Len(Without(q, c)) : \E k \in 1 .. Len(q) : Without(q, c)[i] = q[k]
         /\ \A k \in 1 .. Len(q) :
              q[k] # c => \E i \in 1 .. Len(Without(q, c)) : Without(q, c)[i] = q[k]
         /\ (\A i, j \in 1 .. Len(q) : q[i] = q[j] => i = j) =>
              /\ \A i, j \in 1 .. Len(Without(q, c)) :
                   Without(q, c)[i] = Without(q, c)[j] => i = j
              /\ \A i \in 1 .. Len(Without(q, c)) : Without(q, c)[i] # c
<1>1. CASE ~\E k \in 1 .. Len(q) : q[k] = c
  BY <1>1 DEF Without
<1>2. CASE \E k \in 1 .. Len(q) : q[k] = c
  <2> DEFINE k == CHOOSE k \in 1 .. Len(q) : q[k] = c
             w == [j \in 1 .. Len(q) - 1 |-> q[IF j < k THEN j ELSE j + 1]]
  <2>1. k \in 1 .. Len(q) /\ q[k] = c /\ Len(q) \in Nat
    BY <1>2
  <2>2. Without(q, c) = w
    BY <1>2 DEF Without
  <2> HIDE DEF k
  <2>3. /\ w \in Seq(Call) /\ Len(w) = Len(q) - 1
        /\ \A j \in 1 .. Len(w) : /\ (IF j < k THEN j ELSE j + 1) \in 1 .. Len(q)
                                 /\ w[j] = q[IF j < k THEN j ELSE j + 1]
    <3>1. \A j \in 1 .. Len(q) - 1 : /\ (IF j < k THEN j ELSE j + 1) \in 1 .. Len(q)
                                     /\ q[IF j < k THEN j ELSE j + 1] \in Call
      BY <2>1
    <3>2. Len(q) - 1 \in Nat
      BY <2>1
    <3> QED
      BY <3>1, <3>2
  <2> HIDE DEF w
  <2>4. ASSUME NEW m \in 1 .. Len(q), q[m] # c
        PROVE  \E i \in 1 .. Len(w) : w[i] = q[m]
    <3>1. CASE m < k
      BY <2>1, <2>3, <3>1
    <3>2. CASE m > k
      <4>1. m - 1 \in 1 .. Len(w) /\ ~(m - 1 < k) /\ (m - 1) + 1 = m
        BY <2>1, <2>3, <3>2
      <4> QED
        BY <2>3, <4>1
    <3> QED
      BY <2>1, <2>4, <3>1, <3>2
  <2>5. ASSUME \A i, j \in 1 .. Len(q) : q[i] = q[j] => i = j
        PROVE  /\ \A i, j \in 1 .. Len(w) : w[i] = w[j] => i = j
               /\ \A i \in 1 .. Len(w) : w[i] # c
    <3>1. ASSUME NEW i \in 1 .. Len(w) PROVE w[i] # c
      BY <2>1, <2>3, <2>5
    <3>2. ASSUME NEW i \in 1 .. Len(w), NEW j \in 1 .. Len(w), w[i] = w[j]
          PROVE  i = j
      <4>1. (IF i < k THEN i ELSE i + 1) = (IF j < k THEN j ELSE j + 1)
        BY <2>3, <2>5, <3>2
      <4> QED
        BY <2>1, <2>3, <4>1
    <3> QED
      BY <3>1, <3>2
  <2> QED
    BY <2>2, <2>3, <2>4, <2>5
<1> QED
  BY <1>1, <1>2

(* A waiter, or a call that is not inside, is cancelled. *)
LEMMA AbandonInv ==
  ASSUME GitMirrorAssumption, LockTypes, LockInv, NEW c \in Call, Move(c, "over"),
         UNCHANGED <<orphan, lockOf, holder>>,
         waiters' = [l \in Call |-> Without(waiters[l], c)],
         pc[c] \notin Inside \ {"wait"}, pc[c] = "wait" => ~Holds(c), ~orphan[c]
  PROVE  LockInv'
<1>1. \A d \in Call : pc'[d] = IF d = c THEN "over" ELSE pc[d]
  BY DEF Move, LockTypes
<1>2. \A l \in Call : holder[l] # c
  BY DEF LockInv, Holds, GitMirrorAssumption, Inside
<1>3. \A l \in Call : waiters[l] \in Seq(Call) /\ waiters'[l] = Without(waiters[l], c)
  BY DEF LockTypes
<1>4. ASSUME NEW l \in Call, holder'[l] # Nil
      PROVE  lockOf'[holder'[l]] = l /\ ~orphan'[holder'[l]] /\ pc'[holder'[l]] \in Inside
  <2>1. holder[l] \in Call \ {c}
    BY <1>2, <1>4 DEF LockTypes
  <2> QED
    BY <1>1, <1>4, <2>1 DEF LockInv
<1>5. ASSUME NEW l \in Call, NEW i \in 1 .. Len(waiters'[l])
      PROVE  /\ pc'[waiters'[l][i]] = "wait" /\ lockOf'[waiters'[l][i]] = l
             /\ holder'[l] \notin {Nil, waiters'[l][i]}
             /\ \A j \in 1 .. Len(waiters'[l]) : waiters'[l][i] = waiters'[l][j] => i = j
  <2>1. \A m, n \in 1 .. Len(waiters[l]) : waiters[l][m] = waiters[l][n] => m = n
    BY DEF LockInv
  <2>2. /\ \E k \in 1 .. Len(waiters[l]) : waiters'[l][i] = waiters[l][k]
        /\ waiters'[l][i] # c
        /\ \A j \in 1 .. Len(waiters'[l]) : waiters'[l][i] = waiters'[l][j] => i = j
    <3>1. waiters[l] \in Seq(Call) /\ i \in 1 .. Len(Without(waiters[l], c))
      BY <1>3
    <3>2. waiters'[l] = Without(waiters[l], c)
      BY <1>3
    <3>3. /\ \E k \in 1 .. Len(waiters[l]) : Without(waiters[l], c)[i] = waiters[l][k]
          /\ Without(waiters[l], c)[i] # c
      BY <2>1, <3>1, WithoutFacts
    <3>4. \A j \in 1 .. Len(Without(waiters[l], c)) :
            Without(waiters[l], c)[i] = Without(waiters[l], c)[j] => i = j
      BY <2>1, <3>1, WithoutFacts
    <3> QED
      BY <3>2, <3>3, <3>4
  <2>3. waiters'[l][i] \in Call
    BY <1>3, <2>2
  <2> QED
    BY <1>1, <2>2, <2>3 DEF LockInv
<1>6. ASSUME NEW d \in Call
      PROVE  /\ pc'[d] \in Inside => lockOf'[d] # Nil
             /\ pc'[d] = "wait" => holder'[lockOf'[d]] = d \/ Waits(d, lockOf[d])'
             /\ pc'[d] \in Inside \ {"wait"} /\ ~orphan'[d] => holder'[lockOf'[d]] = d
             /\ orphan'[d] => pc'[d] \in Thread \cup {"over"}
  <2>1. CASE d = c
    BY <1>1, <2>1 DEF Inside, Thread
  <2>2. CASE d # c
    <3>1. pc[d] \in Inside => lockOf[d] \in Call
      BY DEF LockInv, LockTypes
    <3>2. ASSUME lockOf[d] \in Call, Waits(d, lockOf[d]) PROVE Waits(d, lockOf[d])'
      <4>1. PICK k \in 1 .. Len(waiters[lockOf[d]]) : waiters[lockOf[d]][k] = d
        BY <3>2 DEF Waits
      <4>2. \E i \in 1 .. Len(waiters'[lockOf[d]]) : waiters'[lockOf[d]][i] = d
        <5>1. waiters[lockOf[d]] \in Seq(Call)
          BY <1>3, <3>2
        <5>2. \E i \in 1 .. Len(Without(waiters[lockOf[d]], c)) :
                Without(waiters[lockOf[d]], c)[i] = waiters[lockOf[d]][k]
          BY <2>2, <4>1, <5>1, WithoutFacts
        <5> QED
          BY <1>3, <3>2, <4>1, <5>2
      <4> QED
        BY <3>2, <4>2 DEF Waits
    <3> QED
      BY <1>1, <2>2, <3>1, <3>2 DEF LockInv, Inside
  <2> QED
    BY <2>1, <2>2
<1> QED
  BY <1>4, <1>5, <1>6 DEF LockInv

----------------------------------------------------------------------------
(* Types. *)

LEMMA ReleaseTypes ==
  ASSUME LockTypes, NEW c \in Call, lockOf[c] # Nil, ReleaseLock(lockOf[c])
  PROVE  holder' \in [Call -> Call \cup {Nil}] /\ waiters' \in [Call -> Seq(Call)]
<1>1. lockOf[c] \in Call /\ waiters[lockOf[c]] \in Seq(Call)
  BY DEF LockTypes
<1>2. CASE waiters[lockOf[c]] = <<>>
  BY <1>1, <1>2 DEF ReleaseLock, LockTypes
<1>3. CASE waiters[lockOf[c]] # <<>>
  <2>1. Head(waiters[lockOf[c]]) \in Call /\ Tail(waiters[lockOf[c]]) \in Seq(Call)
    BY <1>1, <1>3, TailFacts
  <2> QED
    BY <1>3, <2>1 DEF ReleaseLock, LockTypes
<1> QED
  BY <1>2, <1>3

LEMMA ArriveTypes ==
  ASSUME LockTypes, registered \in Call \cup {Nil}, NEW c \in Call, Arrive(c)
  PROVE  /\ holder' \in [Call -> Call \cup {Nil}] /\ waiters' \in [Call -> Seq(Call)]
         /\ registered' \in Call \cup {Nil} /\ lockOf' \in [Call -> Call \cup {Nil}]
         /\ pc' = [pc EXCEPT ![c] = "wait"]
<1> DEFINE l == LockFor(c)
<1>1. l \in Call
  BY DEF LockFor
<1>2. waiters[l] \in Seq(Call) /\ Append(waiters[l], c) \in Seq(Call)
  BY <1>1, AppendFacts DEF LockTypes
<1> HIDE DEF l
<1>3. /\ registered' = l /\ lockOf' = [lockOf EXCEPT ![c] = l]
      /\ pc' = [pc EXCEPT ![c] = "wait"]
  BY DEF Arrive, Move, l
<1>4. CASE holder[l] = Nil
  <2>1. holder' = [holder EXCEPT ![l] = c] /\ UNCHANGED waiters
    BY <1>4 DEF Arrive, l
  <2> QED
    BY <1>1, <1>3, <2>1 DEF LockTypes
<1>5. CASE holder[l] # Nil
  <2>1. waiters' = [waiters EXCEPT ![l] = Append(@, c)] /\ UNCHANGED holder
    BY <1>5 DEF Arrive, l
  <2> QED
    BY <1>1, <1>2, <1>3, <2>1 DEF LockTypes
<1> QED
  BY <1>4, <1>5

(* What a thread does when it ends. *)
LEMMA DoneTypes ==
  ASSUME MirrorTypeOK, LockInv, NEW c \in Call, pc[c] \in Thread,
         NEW a \in {"ok", "error"}, Done(c, a)
  PROVE  /\ pc' \in [Call -> Thread \cup Reading \cup {"free", "wait", "over"}]
         /\ answer' \in [Call -> {Nil, "ok", "error"}]
         /\ registered' \in Call \cup {Nil} /\ lockOf' \in [Call -> Call \cup {Nil}]
         /\ holder' \in [Call -> Call \cup {Nil}] /\ waiters' \in [Call -> Seq(Call)]
<1>1. CASE orphan[c]
  BY <1>1 DEF Done, Move, MirrorTypeOK, lockVars
<1>2. CASE ~orphan[c]
  <2>1. holder' \in [Call -> Call \cup {Nil}] /\ waiters' \in [Call -> Seq(Call)]
    BY <1>2, ReleaseTypes, LockTypesOK DEF Done, LockInv, Inside
  <2>2. /\ registered' \in Call \cup {Nil} /\ UNCHANGED lockOf
        /\ \E x \in Reading \cup {"over"} : pc' = [pc EXCEPT ![c] = x]
        /\ \E b \in {Nil, "ok", "error"} : answer' = [answer EXCEPT ![c] = b]
    <3>1. UNCHANGED answer => answer' = [answer EXCEPT ![c] = answer[c]]
      BY DEF MirrorTypeOK
    <3> QED
      BY <1>2, <3>1 DEF Done, Move, Reply, Reading, MirrorTypeOK
  <2> QED
    BY <2>1, <2>2 DEF MirrorTypeOK
<1> QED
  BY <1>1, <1>2

\* The assumptions of a lemma about one step.
Stepping == MirrorTypeOK /\ LockInv /\ overlapped' \in BOOLEAN

LEMMA StartTypes ==
  ASSUME GitMirrorAssumption, Stepping, NEW c \in Call, StartCall(c)
  PROVE  MirrorTypeOK'
<1> USE DEF Stepping
<1>1. CASE StartSync(c)
  <2>1. CASE Move(c, "over") /\ Reply(c, "error") /\ UNCHANGED lockVars
    BY <1>1, <2>1 DEF StartSync, Start, Move, Reply, MirrorTypeOK, remoteVars, lockVars
  <2>2. CASE Arrive(c) /\ UNCHANGED answer
    BY <1>1, <2>2, ArriveTypes, LockTypesOK DEF StartSync, Start, MirrorTypeOK, remoteVars
  <2> QED
    BY <1>1, <2>1, <2>2 DEF StartSync
<1>2. CASE StartDelete(c)
  BY <1>2, ArriveTypes, LockTypesOK DEF StartDelete, Start, MirrorTypeOK, remoteVars
<1>3. ASSUME NEW k \in 0 .. head, StartEnsure(c, k) PROVE MirrorTypeOK'
  <2>1. k \in Revision
    BY DEF MirrorTypeOK, Revision, GitMirrorAssumption
  <2> QED
    BY <1>3, <2>1 DEF StartEnsure, Start, Move, MirrorTypeOK, remoteVars, lockVars, Reading
<1> QED
  BY <1>1, <1>2, <1>3 DEF StartCall

LEMMA ReadTypes ==
  ASSUME GitMirrorAssumption, Stepping, NEW c \in Call,
         Enter(c) \/ Check(c) \/ Recheck(c) \/ Verify(c) \/ Export(c) \/ Parse(c)
  PROVE  MirrorTypeOK'
<1> USE DEF Stepping, remoteVars, callVars, lockVars
<1>1. CASE Enter(c)
  BY <1>1 DEF Enter, Move, MirrorTypeOK, Thread, Reading
<1>2. CASE Check(c)
  <2>1. CASE Arrive(c)
    BY <1>2, <2>1, ArriveTypes, LockTypesOK DEF Check, MirrorTypeOK
  <2>2. CASE Move(c, "export") /\ UNCHANGED lockVars
    BY <1>2, <2>2 DEF Check, Move, MirrorTypeOK, Reading
  <2> QED
    BY <1>2, <2>1, <2>2 DEF Check
<1>3. CASE Recheck(c)
  <2>1. \E x \in {"export", "init"} : pc' = [pc EXCEPT ![c] = x]
    BY <1>3 DEF Recheck, Move
  <2>2. holder' \in [Call -> Call \cup {Nil}] /\ waiters' \in [Call -> Seq(Call)]
    <3>1. CASE ReleaseLock(lockOf[c])
      BY <1>3, <3>1, ReleaseTypes, LockTypesOK DEF Recheck, LockInv, Inside
    <3>2. CASE UNCHANGED <<holder, waiters>>
      BY <3>2 DEF MirrorTypeOK
    <3> QED
      BY <1>3, <3>1, <3>2 DEF Recheck
  <2> QED
    BY <1>3, <2>1, <2>2 DEF Recheck, MirrorTypeOK, Thread, Reading
<1>4. CASE Verify(c)
  BY <1>4 DEF Verify, Move, Reply, MirrorTypeOK, Has, Reading
<1>5. CASE Export(c)
  BY <1>5 DEF Export, Move, Reply, MirrorTypeOK, Reading
<1>6. CASE Parse(c)
  <2>1. CASE mirror # <<>> /\ mirror[1].ref # Nil
    <3>1. mirror[1].ref \in Revision
      BY <2>1 DEF MirrorTypeOK, Mirror
    <3> QED
      BY <1>6, <2>1, <3>1 DEF Parse, Move, MirrorTypeOK, Reading
  <2>2. CASE ~(mirror # <<>> /\ mirror[1].ref # Nil)
    BY <1>6, <2>2 DEF Parse, Move, Reply, MirrorTypeOK, Reading
  <2> QED
    BY <2>1, <2>2
<1> QED
  BY <1>1, <1>2, <1>3, <1>4, <1>5, <1>6

LEMMA RemoveTypes ==
  ASSUME NEW c \in Call, RemoveMirror(c)
  PROVE  mirror' \in {<<>>} \cup {<<m>> : m \in Mirror}
<1>1. Broken \in Mirror
  BY DEF Broken, Mirror, Revision
<1> QED
  BY <1>1 DEF RemoveMirror

LEMMA WriteTypes ==
  ASSUME GitMirrorAssumption, Stepping, NEW c \in Call,
         \/ InitMirror(c) \/ Negotiate(c) \/ Update(c) \/ Failed(c) \/ Clean(c)
         \/ Size(c) \/ RmTree(c)
  PROVE  MirrorTypeOK'
<1> USE DEF Stepping, remoteVars, lockVars
<1>1. CASE InitMirror(c)
  <2>1. Fresh \in Mirror
    BY DEF Fresh, Mirror, Revision
  <2>2. mirror' \in {<<>>} \cup {<<m>> : m \in Mirror}
    BY <1>1, <2>1 DEF InitMirror, MirrorTypeOK
  <2>3. CASE Done(c, "error")
    BY <1>1, <2>2, <2>3, DoneTypes DEF InitMirror, MirrorTypeOK, Thread
  <2>4. CASE Move(c, "negotiate") /\ UNCHANGED <<answer, lockVars>>
    BY <1>1, <2>2, <2>4 DEF InitMirror, Move, MirrorTypeOK, Thread
  <2> QED
    BY <1>1, <2>3, <2>4 DEF InitMirror
<1>2. CASE Negotiate(c)
  <2>1. CASE Move(c, "failed") /\ UNCHANGED got
    BY <1>2, <2>1 DEF Negotiate, Move, MirrorTypeOK, Thread
  <2>2. CASE /\ mirror # <<>>
             /\ got' = [got EXCEPT ![c] = [to |-> head, has |-> reach,
                                          from |-> mirror[1].ref]]
             /\ Move(c, "update")
    <3>1. [to |-> head, has |-> reach, from |-> mirror[1].ref]
            \in [to : Revision, has : SUBSET Revision, from : Revision \cup {Nil}]
      BY <2>2 DEF MirrorTypeOK, Mirror
    <3> QED
      BY <1>2, <2>2, <3>1 DEF Negotiate, Move, MirrorTypeOK, Thread
  <2> QED
    BY <1>2, <2>1, <2>2 DEF Negotiate
<1>3. CASE Update(c)
  <2>1. CASE Move(c, "failed") /\ UNCHANGED <<mirror, answer, lockVars, intact>>
    BY <1>3, <2>1 DEF Update, Move, MirrorTypeOK, Thread
  <2>2. CASE ~(Move(c, "failed") /\ UNCHANGED <<mirror, answer, lockVars, intact>>)
    <3>1. mirror' \in {<<>>} \cup {<<m>> : m \in Mirror}
      <4>1. /\ mirror' = <<[ref |-> got[c].to, objs |-> mirror[1].objs \cup got[c].has,
                            sane |-> TRUE]>>
            /\ mirror # <<>>
        BY <1>3, <2>2 DEF Update
      <4>2. /\ got[c].to \in Revision /\ got[c].has \in SUBSET Revision
            /\ mirror[1].objs \in SUBSET Revision
        BY <4>1 DEF MirrorTypeOK, Mirror
      <4>3. [ref |-> got[c].to, objs |-> mirror[1].objs \cup got[c].has, sane |-> TRUE]
              \in Mirror
        BY <4>2 DEF Mirror
      <4> QED
        BY <4>1, <4>3
    <3>2. UNCHANGED intact
      BY <1>3, <2>2 DEF Update
    <3>3. CASE Move(c, "size") /\ UNCHANGED <<answer, lockVars>>
      BY <1>3, <3>1, <3>2, <3>3 DEF Update, Move, MirrorTypeOK, Thread
    <3>4. CASE Done(c, "ok")
      BY <1>3, <3>1, <3>2, <3>4, DoneTypes DEF Update, MirrorTypeOK, Thread
    <3> QED
      BY <1>3, <2>2, <3>3, <3>4 DEF Update
  <2> QED
    BY <2>1, <2>2
<1>4. CASE Failed(c)
  <2>1. CASE Move(c, "clean") /\ UNCHANGED <<answer, lockVars>>
    BY <1>4, <2>1 DEF Failed, Move, MirrorTypeOK, Thread
  <2>2. CASE Done(c, "error")
    BY <1>4, <2>2, DoneTypes DEF Failed, MirrorTypeOK, Thread
  <2> QED
    BY <1>4, <2>1, <2>2 DEF Failed, Raised
<1>5. CASE Clean(c)
  BY <1>5, DoneTypes, RemoveTypes DEF Clean, MirrorTypeOK, Thread
<1>6. CASE Size(c)
  <2>1. CASE UNCHANGED mirror
    BY <1>6, <2>1, DoneTypes DEF Size, MirrorTypeOK, Thread
  <2>2. CASE RemoveMirror(c)
    BY <1>6, <2>2, DoneTypes, RemoveTypes DEF Size, MirrorTypeOK, Thread
  <2> QED
    BY <1>6, <2>1, <2>2 DEF Size
<1>7. CASE RmTree(c)
  BY <1>7, DoneTypes, RemoveTypes DEF RmTree, MirrorTypeOK, Thread
<1> QED
  BY <1>1, <1>2, <1>3, <1>4, <1>5, <1>6, <1>7

LEMMA OtherTypes ==
  ASSUME GitMirrorAssumption, Stepping,
         (\E c \in Call : Cancel(c)) \/ (\E keep \in BOOLEAN : Push(keep))
  PROVE  MirrorTypeOK'
<1> USE DEF Stepping, remoteVars, callVars, lockVars
<1>1. ASSUME NEW c \in Call, Cancel(c) PROVE MirrorTypeOK'
  <2>1. holder' \in [Call -> Call \cup {Nil}] /\ waiters' \in [Call -> Seq(Call)]
    <3>1. CASE pc[c] \in Thread \cup {"recheck"} \/ (pc[c] = "wait" /\ Holds(c))
      BY <1>1, <3>1, ReleaseTypes, LockTypesOK DEF Cancel, LockInv, Inside
    <3>2. CASE /\ waiters' = [l \in Call |-> Without(waiters[l], c)]
               /\ UNCHANGED holder
      BY <3>2, WithoutFacts DEF MirrorTypeOK
    <3> QED
      BY <1>1, <3>1, <3>2 DEF Cancel
  <2>2. /\ pc' \in [Call -> Thread \cup Reading \cup {"free", "wait", "over"}]
        /\ orphan' \in [Call -> BOOLEAN]
    BY <1>1 DEF Cancel, Move, MirrorTypeOK
  <2> QED
    BY <1>1, <2>1, <2>2 DEF Cancel, MirrorTypeOK
<1>2. ASSUME NEW keep \in BOOLEAN, Push(keep) PROVE MirrorTypeOK'
  <2>1. head' \in Revision /\ reach' \subseteq Revision
    <3>1. /\ MaxPushes \in Nat
          /\ head \in 0 .. MaxPushes /\ reach \subseteq 0 .. MaxPushes
      BY DEF GitMirrorAssumption, MirrorTypeOK, Revision
    <3>2. /\ head < MaxPushes /\ head' = head + 1
          /\ reach' = IF keep THEN reach \cup {head'} ELSE {head'}
      BY <1>2 DEF Push
    <3>3. head' \in 0 .. MaxPushes
      BY <3>1, <3>2
    <3> QED
      BY <3>1, <3>2, <3>3 DEF Revision
  <2>2. seen' \in [Call -> SUBSET Revision]
    BY <1>2, <2>1 DEF Push, MirrorTypeOK
  <2> QED
    BY <1>2, <2>1, <2>2 DEF Push, MirrorTypeOK
<1> QED
  BY <1>1, <1>2

----------------------------------------------------------------------------
(* LockInv.                                                                *)

LEMMA DoneInv ==
  ASSUME GitMirrorAssumption, MirrorTypeOK, LockInv, NEW c \in Call, pc[c] \in Thread,
         NEW a, Done(c, a), UNCHANGED orphan
  PROVE  LockInv'
<1>1. CASE orphan[c]
  BY <1>1, MoveInside, LockTypesOK DEF Done, Inside, Thread, lockVars
<1>2. CASE ~orphan[c]
  <2>1. pc[c] \in Inside /\ Holds(c)
    BY <1>2 DEF LockInv, Inside, Holds, Thread
  <2>2. \E x : x \notin Inside /\ Move(c, x)
    BY <1>2 DEF Done, Inside, Thread
  <2>3. ReleaseLock(lockOf[c]) /\ UNCHANGED lockOf
    BY <1>2 DEF Done
  <2> QED
    BY <1>2, <2>1, <2>2, <2>3, LeaveInv, LockTypesOK
<1> QED
  BY <1>1, <1>2

\* A thread goes on to another of its steps.
LEMMA ThreadMoveInv ==
  ASSUME GitMirrorAssumption, MirrorTypeOK, LockInv, NEW c \in Call, pc[c] \in Thread,
         NEW x \in Thread, Move(c, x), UNCHANGED <<orphan, lockOf, holder, waiters>>
  PROVE  LockInv'
<1>1. pc[c] \in Inside \ {"wait"} /\ x \in Inside \ {"wait"} /\ pc[c] \in Inside
  BY DEF Inside, Thread
<1>2. orphan[c] \/ Holds(c)
  BY <1>1 DEF LockInv, Holds
<1> QED
  BY <1>1, <1>2, MoveInside, LockTypesOK

LEMMA StartLock ==
  ASSUME GitMirrorAssumption, Stepping, NEW c \in Call, StartCall(c)
  PROVE  LockInv'
<1> USE LockTypesOK DEF Stepping
<1>1. /\ pc[c] = "free" /\ pc[c] \notin Inside /\ pc[c] # "over" /\ ~orphan[c]
      /\ UNCHANGED orphan /\ registered \in Call \cup {Nil}
  BY DEF StartCall, StartSync, StartEnsure, StartDelete, Start, Inside, Thread, LockInv,
         MirrorTypeOK
<1>2. CASE Arrive(c)
  BY <1>1, <1>2, ArriveInv
<1>3. CASE (\E x : x \notin Inside /\ Move(c, x)) /\ UNCHANGED lockVars
  BY <1>1, <1>3, MoveOutside DEF lockVars
<1> QED
  <2>1. "over" \notin Inside /\ "check" \notin Inside
    BY DEF Inside, Thread
  <2> QED
    BY <1>2, <1>3, <2>1 DEF StartCall, StartSync, StartEnsure, StartDelete

LEMMA ReadLock ==
  ASSUME GitMirrorAssumption, Stepping, NEW c \in Call,
         Enter(c) \/ Check(c) \/ Recheck(c) \/ Verify(c) \/ Export(c) \/ Parse(c)
  PROVE  LockInv'
<1> USE LockTypesOK DEF Stepping, lockVars, callVars
<1>0. /\ {"over", "check", "verify", "export", "parse", "discover"} \cap Inside = {}
      /\ {"init", "recheck", "rmtree"} \subseteq Inside \ {"wait"}
  BY DEF Inside, Thread
<1>1. CASE Enter(c)
  <2>1. /\ pc[c] \in Inside /\ Holds(c) /\ UNCHANGED <<orphan, lockOf, holder, waiters>>
        /\ ~orphan[c]
    BY <1>1 DEF Enter, Inside, LockInv, Thread
  <2>2. \E x \in {"init", "recheck", "rmtree"} : Move(c, x)
    BY <1>1 DEF Enter, MirrorTypeOK
  <2> QED
    BY <1>0, <2>1, <2>2, MoveInside
<1>2. CASE Check(c)
  <2>1. /\ pc[c] = "check" /\ pc[c] \notin Inside /\ pc[c] # "over" /\ UNCHANGED orphan
        /\ ~orphan[c] /\ registered \in Call \cup {Nil}
    BY <1>0, <1>2 DEF Check, LockInv, Thread, MirrorTypeOK
  <2>2. CASE Arrive(c)
    BY <2>1, <2>2, ArriveInv
  <2>3. CASE Move(c, "export") /\ UNCHANGED lockVars
    BY <1>0, <2>1, <2>3, MoveOutside
  <2> QED
    BY <1>2, <2>2, <2>3 DEF Check
<1>3. CASE Recheck(c)
  <2>1. /\ pc[c] \in Inside /\ Holds(c) /\ ~orphan[c] /\ UNCHANGED <<orphan, lockOf>>
    BY <1>3 DEF Recheck, LockInv, Inside, Thread, Holds
  <2>2. CASE Move(c, "export") /\ ReleaseLock(lockOf[c])
    BY <1>0, <2>1, <2>2, LeaveInv
  <2>3. CASE Move(c, "init") /\ UNCHANGED <<holder, waiters>>
    BY <1>0, <2>1, <2>3, MoveInside
  <2> QED
    BY <1>3, <2>2, <2>3 DEF Recheck
<1>4. CASE Verify(c) \/ Export(c) \/ Parse(c)
  <2>1. /\ pc[c] \in {"verify", "export", "parse", "discover"}
        /\ UNCHANGED <<orphan, lockOf, holder, waiters>>
    BY <1>4 DEF Verify, Export, Parse
  <2>2. \E x \in {"over", "export", "discover"} : Move(c, x)
    BY <1>4 DEF Verify, Export, Parse
  <2>3. ~orphan[c]
    BY <2>1 DEF LockInv, Thread
  <2> QED
    BY <1>0, <2>1, <2>2, <2>3, MoveOutside
<1> QED
  BY <1>1, <1>2, <1>3, <1>4

LEMMA WriteLock ==
  ASSUME GitMirrorAssumption, Stepping, NEW c \in Call,
         \/ InitMirror(c) \/ Negotiate(c) \/ Update(c) \/ Failed(c) \/ Clean(c)
         \/ Size(c) \/ RmTree(c)
  PROVE  LockInv'
<1> USE DEF Stepping, lockVars
<1>1. pc[c] \in Thread /\ UNCHANGED orphan
  BY DEF InitMirror, Negotiate, Update, Failed, Clean, Size, RmTree, Thread
<1>2. CASE \E a : Done(c, a)
  BY <1>1, <1>2, DoneInv
<1>3. CASE (\E x \in Thread : Move(c, x)) /\ UNCHANGED lockVars
  BY <1>1, <1>3, ThreadMoveInv
<1> QED
  <2>1. {"negotiate", "failed", "update", "size", "clean"} \subseteq Thread
    BY DEF Thread
  <2> QED
    BY <1>2, <1>3, <2>1
       DEF InitMirror, Negotiate, Update, Failed, Clean, Size, RmTree

LEMMA CancelLock ==
  ASSUME GitMirrorAssumption, Stepping, NEW c \in Call, Cancel(c)
  PROVE  LockInv'
<1> USE LockTypesOK DEF Stepping
<1>0. "over" \notin Inside /\ ~orphan[c] /\ UNCHANGED lockOf
  BY DEF Cancel, Inside, Thread
<1>1. CASE pc[c] \in Thread \cup {"recheck"} \/ (pc[c] = "wait" /\ Holds(c))
  <2>1. pc[c] \in Inside /\ Holds(c) /\ ReleaseLock(lockOf[c])
    BY <1>0, <1>1 DEF Cancel, LockInv, Inside, Holds, Thread
  <2>2. CASE pc[c] \in Thread
    BY <1>0, <2>1, <2>2, LeaveInv DEF Cancel
  <2>3. CASE pc[c] \notin Thread
    BY <1>0, <2>1, <2>3, LeaveInv DEF Cancel
  <2> QED
    BY <2>2, <2>3
<1>2. CASE ~(pc[c] \in Thread \cup {"recheck"} \/ (pc[c] = "wait" /\ Holds(c)))
  BY <1>0, <1>2, AbandonInv DEF Cancel, Inside
<1> QED
  BY <1>1, <1>2

----------------------------------------------------------------------------
(* One lock as long as nothing was deleted.                                *)

KindInv == \A c \in Call :
  /\ answer[c] # Nil => pc[c] = "over"
  /\ pc[c] = "rmtree" => kind[c] = "delete"
  /\ pc[c] \in ({"check", "recheck"} \cup Thread) \ {"rmtree"} => kind[c] # "delete"

Deleted == \E x \in Call : kind[x] = "delete" /\ answer[x] = "ok"

OneLock == Deleted \/ \A c \in Call : lockOf[c] \in {Nil, registered}

Registry == KindInv /\ OneLock

(* A call that has not answered moves, and neither answers nor asks for a lock. *)
LEMMA MoveRegistry ==
  ASSUME MirrorTypeOK, Registry, NEW c \in Call, NEW x, Move(c, x), answer[c] = Nil,
         UNCHANGED <<kind, answer, registered, lockOf>>,
         x = "rmtree" => kind[c] = "delete",
         x \in ({"check", "recheck"} \cup Thread) \ {"rmtree"} => kind[c] # "delete"
  PROVE  Registry'
<1>1. \A d \in Call : pc'[d] = IF d = c THEN x ELSE pc[d]
  BY DEF Move, MirrorTypeOK
<1>2. KindInv'
  BY <1>1 DEF Registry, KindInv
<1> QED
  BY <1>2 DEF Registry, OneLock, Deleted

(* It answers and is over. *)
LEMMA ReplyRegistry ==
  ASSUME GitMirrorAssumption, MirrorTypeOK, Registry, NEW c \in Call, Move(c, "over"),
         answer[c] = Nil, NEW a, Reply(c, a), UNCHANGED <<kind, lockOf>>,
         UNCHANGED registered \/ (kind[c] = "delete" /\ a = "ok")
  PROVE  Registry'
<1>1. /\ \A d \in Call : pc'[d] = IF d = c THEN "over" ELSE pc[d]
      /\ \A d \in Call : answer'[d] = IF d = c THEN a ELSE answer[d]
  BY DEF Move, Reply, MirrorTypeOK
<1>2. KindInv'
  BY <1>1 DEF Registry, KindInv, Thread
<1>3. Deleted => Deleted'
  BY <1>1 DEF Deleted, GitMirrorAssumption
<1>4. kind[c] = "delete" /\ a = "ok" => Deleted'
  BY <1>1 DEF Deleted
<1> QED
  BY <1>2, <1>3, <1>4 DEF Registry, OneLock

LEMMA ArriveRegistry ==
  ASSUME GitMirrorAssumption, MirrorTypeOK, Registry, NEW c \in Call, Arrive(c),
         answer[c] = Nil,
         UNCHANGED answer, \A d \in Call \ {c} : kind'[d] = kind[d]
  PROVE  Registry'
<1>1. \A d \in Call : pc'[d] = IF d = c THEN "wait" ELSE pc[d]
  BY DEF Arrive, Move, MirrorTypeOK
<1>2. KindInv'
  BY <1>1 DEF Registry, KindInv, Thread
<1>3. Deleted => Deleted'
  <2>1. ASSUME NEW x \in Call, kind[x] = "delete", answer[x] = "ok" PROVE Deleted'
    <3>1. CASE x = c
      BY <2>1, <3>1 DEF GitMirrorAssumption
    <3>2. CASE x # c
      BY <2>1, <3>2 DEF Deleted
    <3> QED
      BY <3>1, <3>2
  <2> QED
    BY <2>1 DEF Deleted
<1>4. (\A d \in Call : lockOf[d] \in {Nil, registered}) =>
         \A d \in Call : lockOf'[d] \in {Nil, registered'}
  BY DEF Arrive, LockFor, MirrorTypeOK
<1> QED
  BY <1>2, <1>3, <1>4 DEF Registry, OneLock

LEMMA DoneRegistry ==
  ASSUME GitMirrorAssumption, MirrorTypeOK, Registry, NEW c \in Call, pc[c] \in Thread,
         NEW a, Done(c, a), UNCHANGED kind, kind[c] = "delete" => a = "ok"
  PROVE  Registry'
<1>1. answer[c] = Nil
  BY DEF Registry, KindInv, Thread
<1>2. CASE orphan[c]
  BY <1>1, <1>2, MoveRegistry DEF Done, lockVars, Thread
<1>3. CASE ~orphan[c] /\ a = "ok" /\ kind[c] # "delete"
  <2>1. \E x \in {"parse", "verify"} : Move(c, x)
    BY <1>3 DEF Done
  <2> QED
    BY <1>1, <1>3, <2>1, MoveRegistry DEF Done, Thread
<1>4. CASE ~orphan[c] /\ ~(a = "ok" /\ kind[c] # "delete")
  BY <1>1, <1>4, ReplyRegistry DEF Done
<1> QED
  BY <1>2, <1>3, <1>4

LEMMA RegistryStep ==
  ASSUME GitMirrorAssumption, MirrorTypeOK, Registry, NEW c \in Call,
         StartCall(c) \/ Step(c) \/ Cancel(c)
  PROVE  Registry'
<1> USE DEF callVars, lockVars
<1>0. \/ pc[c] \in {"over"}
      \/ answer[c] = Nil
  BY DEF Registry, KindInv
<1>1. CASE StartCall(c)
  <2>1. pc[c] = "free" /\ answer[c] = Nil
    BY <1>0, <1>1 DEF StartCall, StartSync, StartEnsure, StartDelete, Start
  <2>2. \A d \in Call \ {c} : kind'[d] = kind[d]
    BY <1>1 DEF StartCall, StartSync, StartEnsure, StartDelete, Start, MirrorTypeOK
  <2>3. CASE Arrive(c) /\ UNCHANGED answer
    BY <2>1, <2>2, <2>3, ArriveRegistry
  <2>4. CASE \E k \in 0 .. head : StartEnsure(c, k)
    <3>1. /\ kind' = [kind EXCEPT ![c] = "ensure"] /\ Move(c, "check")
          /\ UNCHANGED <<answer, registered, lockOf>>
      BY <2>4 DEF StartEnsure, Start
    <3>2. KindInv'
      <4>1. /\ \A d \in Call : kind'[d] = IF d = c THEN "ensure" ELSE kind[d]
            /\ \A d \in Call : pc'[d] = IF d = c THEN "check" ELSE pc[d]
        BY <3>1 DEF Move, MirrorTypeOK
      <4> QED
        BY <2>1, <3>1, <4>1 DEF Registry, KindInv, Thread
    <3>3. Deleted => Deleted'
      BY <2>1, <3>1 DEF Deleted, MirrorTypeOK, GitMirrorAssumption
    <3> QED
      BY <3>1, <3>2, <3>3 DEF Registry, OneLock
  <2>5. CASE Start(c, "sync") /\ Move(c, "over") /\ Reply(c, "error") /\ UNCHANGED lockVars
    <3>1. /\ \A d \in Call : kind'[d] = IF d = c THEN "sync" ELSE kind[d]
          /\ \A d \in Call : pc'[d] = IF d = c THEN "over" ELSE pc[d]
          /\ \A d \in Call : answer'[d] = IF d = c THEN "error" ELSE answer[d]
      BY <2>5 DEF Start, Move, Reply, MirrorTypeOK
    <3>2. KindInv'
      BY <3>1 DEF Registry, KindInv, Thread
    <3>3. Deleted => Deleted'
      <4>1. ASSUME NEW x \in Call, kind[x] = "delete", answer[x] = "ok"
            PROVE  x # c
        BY <2>1, <4>1 DEF GitMirrorAssumption
      <4> QED
        BY <3>1, <4>1 DEF Deleted
    <3> QED
      BY <2>5, <3>2, <3>3 DEF Registry, OneLock
  <2> QED
    BY <1>1, <2>3, <2>4, <2>5 DEF StartCall, StartSync, StartDelete
<1>2. CASE Enter(c) \/ Check(c) \/ Recheck(c) \/ Verify(c) \/ Export(c) \/ Parse(c)
  <2>1. answer[c] = Nil /\ UNCHANGED kind
    BY <1>0, <1>2 DEF Enter, Check, Recheck, Verify, Export, Parse
  <2>2. CASE Enter(c)
    <3>1. /\ kind[c] = "delete" => Move(c, "rmtree")
          /\ kind[c] # "delete" => Move(c, "init") \/ Move(c, "recheck")
      BY <2>2 DEF Enter, MirrorTypeOK
    <3>2. UNCHANGED <<registered, lockOf, answer>>
      BY <2>2 DEF Enter
    <3> QED
      BY <2>1, <3>1, <3>2, MoveRegistry DEF Thread
  <2>3. CASE Check(c)
    <3>1. CASE Arrive(c)
      BY <2>1, <2>3, <3>1, ArriveRegistry DEF Check
    <3>2. CASE Move(c, "export") /\ UNCHANGED lockVars
      BY <2>1, <2>3, <3>2, MoveRegistry DEF Check, Thread
    <3> QED
      BY <2>3, <3>1, <3>2 DEF Check
  <2>4. CASE Recheck(c)
    <3>1. kind[c] # "delete" /\ UNCHANGED <<answer, registered, lockOf>>
      BY <2>4 DEF Recheck, Registry, KindInv
    <3>2. \E x \in {"export", "init"} : Move(c, x)
      BY <2>4 DEF Recheck
    <3> QED
      BY <2>1, <3>1, <3>2, MoveRegistry
  <2>5. CASE Verify(c) \/ Export(c) \/ Parse(c)
    <3>1. UNCHANGED <<registered, lockOf>>
      BY <2>5 DEF Verify, Export, Parse
    <3>2. \/ \E x \in {"export", "discover"} : Move(c, x) /\ UNCHANGED answer
          \/ \E a : Move(c, "over") /\ Reply(c, a)
      BY <2>5 DEF Verify, Export, Parse
    <3> QED
      BY <2>1, <3>1, <3>2, MoveRegistry, ReplyRegistry DEF Thread
  <2> QED
    BY <1>2, <2>2, <2>3, <2>4, <2>5
<1>3. CASE \/ InitMirror(c) \/ Negotiate(c) \/ Update(c) \/ Failed(c) \/ Clean(c)
           \/ Size(c) \/ RmTree(c)
  <2>1. pc[c] \in Thread /\ answer[c] = Nil /\ UNCHANGED kind
    BY <1>0, <1>3 DEF InitMirror, Negotiate, Update, Failed, Clean, Size, RmTree, Thread
  <2>2. CASE RmTree(c)
    BY <2>1, <2>2, DoneRegistry DEF RmTree
  <2>3. CASE ~RmTree(c)
    <3>1. kind[c] # "delete"
      BY <1>3, <2>1, <2>3
         DEF InitMirror, Negotiate, Update, Failed, Clean, Size, Registry, KindInv, Thread
    <3>2. CASE \E a : Done(c, a)
      BY <2>1, <3>1, <3>2, DoneRegistry
    <3>3. CASE /\ \E x \in {"negotiate", "failed", "update", "size", "clean"} : Move(c, x)
               /\ UNCHANGED <<answer, lockVars>>
      BY <2>1, <3>1, <3>3, MoveRegistry DEF Thread
    <3> QED
      BY <1>3, <2>3, <3>2, <3>3 DEF InitMirror, Negotiate, Update, Failed, Clean, Size
  <2> QED
    BY <2>2, <2>3
<1>4. CASE Cancel(c)
  <2>1. pc[c] # "over" /\ answer[c] = Nil /\ UNCHANGED <<kind, answer, registered, lockOf>>
    BY <1>0, <1>4 DEF Cancel
  <2>2. CASE UNCHANGED pc
    BY <2>1, <2>2 DEF Registry, KindInv, OneLock, Deleted
  <2>3. CASE Move(c, "over")
    BY <2>1, <2>3, MoveRegistry DEF Thread
  <2> QED
    BY <1>4, <2>2, <2>3 DEF Cancel
<1> QED
  BY <1>1, <1>2, <1>3, <1>4 DEF Step

----------------------------------------------------------------------------
(* The theorems.                                                           *)

GuardedInv == MirrorTypeOK /\ LockInv /\ Registry

LEMMA GuardedStart ==
  ASSUME GitMirrorAssumption, MirrorInit
  PROVE  GuardedInv
<1>1. MirrorTypeOK
  <2>1. MaxPushes \in Nat
    BY DEF GitMirrorAssumption
  <2>2. 0 \in Revision /\ {0} \subseteq Revision
    BY <2>1 DEF Revision
  <2>3. /\ pc \in [Call -> Thread \cup Reading \cup {"free", "wait", "over"}]
        /\ waiters \in [Call -> Seq(Call)] /\ cancels \in Nat
    BY DEF MirrorInit
  <2>4. /\ got \in [Call -> [to : Revision, has : SUBSET Revision,
                             from : Revision \cup {Nil}]]
        /\ want \in [Call -> Revision] /\ seen \in [Call -> SUBSET Revision]
    BY <2>2 DEF MirrorInit
  <2> QED
    BY <2>2, <2>3, <2>4 DEF MirrorInit, MirrorTypeOK
<1>2. LockInv
  BY DEF MirrorInit, LockInv, Inside, Thread
<1>3. Registry
  BY DEF MirrorInit, Registry, KindInv, OneLock, Thread
<1> QED
  BY <1>1, <1>2, <1>3 DEF GuardedInv

LEMMA GuardedStep ==
  ASSUME GitMirrorAssumption, GuardedInv, [MirrorNext]_mirrorVars
  PROVE  GuardedInv'
<1> USE DEF GuardedInv
<1>1. CASE UNCHANGED mirrorVars
  <2>1. MirrorTypeOK'
    BY <1>1 DEF mirrorVars, remoteVars, callVars, lockVars, MirrorTypeOK
  <2>2. LockInv'
    BY <1>1 DEF mirrorVars, remoteVars, callVars, lockVars, LockInv, Waits
  <2>3. Registry'
    BY <1>1 DEF mirrorVars, remoteVars, callVars, lockVars, Registry, KindInv, OneLock, Deleted
  <2> QED
    BY <2>1, <2>2, <2>3
<1>2. CASE MirrorNext
  <2>1. Stepping
    <3>1. overlapped' \in BOOLEAN
      BY <1>2 DEF MirrorNext, MirrorTypeOK
    <3> QED
      BY <3>1 DEF Stepping
  <2>2. ASSUME NEW c \in Call, StartCall(c) \/ Step(c) \/ Cancel(c)
        PROVE  GuardedInv'
    <3>1. Registry'
      BY <2>2, RegistryStep
    <3>2. CASE StartCall(c)
      BY <2>1, <3>1, <3>2, StartTypes, StartLock
    <3>3. CASE Step(c)
      BY <2>1, <3>1, <3>3, ReadTypes, WriteTypes, ReadLock, WriteLock DEF Step
    <3>4. CASE Cancel(c)
      BY <2>1, <3>1, <3>4, OtherTypes, CancelLock
    <3> QED
      BY <2>2, <3>2, <3>3, <3>4
  <2>3. ASSUME NEW keep \in BOOLEAN, Push(keep)
        PROVE  GuardedInv'
    <3>1. MirrorTypeOK'
      BY <2>1, <2>3, OtherTypes
    <3>2. LockInv'
      BY <2>3 DEF Push, callVars, lockVars, LockInv, Waits
    <3>3. Registry'
      BY <2>3 DEF Push, callVars, lockVars, Registry, KindInv, OneLock, Deleted
    <3> QED
      BY <3>1, <3>2, <3>3
  <2> QED
    BY <1>2, <2>2, <2>3 DEF MirrorNext
<1> QED
  BY <1>1, <1>2

LEMMA GuardedAlways == ASSUME GitMirrorAssumption PROVE MirrorSpec => []GuardedInv
<1>1. MirrorInit => GuardedInv
  BY GuardedStart
<1>2. GuardedInv /\ [MirrorNext]_mirrorVars => GuardedInv'
  BY GuardedStep
<1> QED
  BY <1>1, <1>2, PTL DEF MirrorSpec

(* The types of the mirror, and its locks (mirror.py:54, :281, :295): no call that is *)
(* gone keeps one or is handed one, and whoever waits is in its queue exactly once,   *)
(* for any number of calls, cancelled at any point.                                   *)
THEOREM MirrorCorrect == ASSUME GitMirrorAssumption PROVE MirrorSpec => []MirrorInv
<1>1. GuardedInv => MirrorInv
  BY DEF GuardedInv, MirrorInv
<1> QED
  BY <1>1, GuardedAlways, PTL

(* Two threads write a mirror at once only when one was cancelled, or after a delete  *)
(* forgot the lock: the lock of the process orders every other pair (mirror.py:54).   *)
THEOREM OneWriterAlways == ASSUME GitMirrorAssumption PROVE MirrorSpec => []OneWriter
<1>1. GuardedInv => OneWriter
  <2> SUFFICES ASSUME GuardedInv, NEW c \in Call, NEW d \in Call, c # d,
                      pc[c] \in Thread, pc[d] \in Thread, ~orphan[c], ~orphan[d], ~Deleted
               PROVE  FALSE
    BY DEF OneWriter, Deleted
  <2>1. /\ lockOf[c] # Nil /\ holder[lockOf[c]] = c
        /\ lockOf[d] # Nil /\ holder[lockOf[d]] = d
    BY DEF GuardedInv, LockInv, Inside, Thread
  <2>2. lockOf[c] = registered /\ lockOf[d] = registered
    BY <2>1 DEF GuardedInv, Registry, OneLock
  <2> QED
    BY <2>1, <2>2
<1> QED
  BY <1>1, GuardedAlways, PTL

----------------------------------------------------------------------------
(* AnswersHold: what a call knows of the mirror, at each point of its way.  *)

Usable == mirror # <<>> /\ mirror[1].ref # Nil

KindOf(c) ==
  /\ pc[c] # "free" => head \in seen[c]
  /\ pc[c] \in {"check", "recheck", "verify", "export"} => kind[c] = "ensure"
  /\ pc[c] \in {"parse", "discover", "clean", "size"} => kind[c] = "sync"

TrueOf(c) ==
  /\ pc[c] = "clean" => ~Usable
  /\ pc[c] = "size" => Usable /\ mirror[1].ref \in seen[c]
  /\ pc[c] = "update" => got[c].to \in seen[c]
  /\ pc[c] = "parse" =>
       /\ Usable => mirror[1].ref \in seen[c]
       /\ \A d \in Call : pc[d] = "update" => got[d].to \in seen[c]
       /\ intact[c] => Usable
  /\ pc[c] = "discover" => want[c] \in seen[c]
  /\ pc[c] = "export" /\ intact[c] => Has(want[c])
  /\ kind[c] = "sync" /\ answer[c] = "ok" => want[c] \in seen[c]

NoRefNoObjects == mirror # <<>> /\ mirror[1].ref = Nil => mirror[1].objs = {}

AnswerInv ==
  /\ Overlap => overlapped
  /\ NoRefNoObjects
  /\ \A c \in Call : KindOf(c)
  /\ overlapped \/ \A c \in Call : TrueOf(c)

\* What a step of a call leaves alone, and what it may do to the mirror: nothing, or
\* as a thread remove what nobody may count on, or bring the branch up to its fetch.
Alone(c) ==
  /\ head' = head
  /\ \A d \in Call \ {c} :
       /\ pc'[d] = pc[d] /\ kind'[d] = kind[d] /\ want'[d] = want[d] /\ got'[d] = got[d]
       /\ answer'[d] = answer[d] /\ seen'[d] = seen[d]
       /\ intact'[d] => intact[d]

Effect(c) ==
  \/ UNCHANGED mirror
  \/ /\ pc[c] \in Thread
     /\ mirror' \in {<<>>, <<Fresh>>, <<Broken>>}
     /\ (pc[c] # "clean" /\ Usable) => \A d \in Call : ~intact'[d]
  \/ /\ pc[c] = "update"
     /\ mirror # <<>> /\ mirror[1].sane
     /\ mirror' = <<[ref |-> got[c].to, objs |-> mirror[1].objs \cup got[c].has,
                     sane |-> TRUE]>>

LEMMA StartAlone ==
  ASSUME GitMirrorAssumption, MirrorTypeOK, NEW c \in Call, StartCall(c)
  PROVE  /\ Alone(c) /\ Effect(c)
         /\ pc[c] = "free" /\ pc'[c] \in {"wait", "check", "over"}
         /\ pc'[c] = "check" => kind'[c] = "ensure"
         /\ answer'[c] \in {answer[c], "error"} /\ seen'[c] = {head}
<1> USE DEF MirrorTypeOK, Alone, Effect, remoteVars
<1>1. CASE StartSync(c)
  BY <1>1 DEF StartSync, Start, Arrive, Move, Reply, LockFor
<1>2. CASE StartDelete(c)
  BY <1>2 DEF StartDelete, Start, Arrive, Move, LockFor
<1>3. CASE \E k \in 0 .. head : StartEnsure(c, k)
  BY <1>3 DEF StartEnsure, Start, Move
<1> QED
  BY <1>1, <1>2, <1>3 DEF StartCall

LEMMA StepAlone ==
  ASSUME GitMirrorAssumption, MirrorTypeOK, NEW c \in Call, Step(c)
  PROVE  Alone(c) /\ Effect(c) /\ UNCHANGED <<kind, seen>>
<1> USE DEF MirrorTypeOK, Alone, remoteVars, callVars, lockVars
<1>1. CASE Enter(c) \/ Check(c) \/ Recheck(c) \/ Verify(c) \/ Export(c) \/ Parse(c)
  <2>1. CASE Enter(c)
    BY <2>1 DEF Enter, Move, Effect
  <2>2. CASE Check(c)
    BY <2>2 DEF Check, Arrive, Move, Effect
  <2>3. CASE Recheck(c)
    BY <2>3 DEF Recheck, Move, Effect
  <2>4. CASE Verify(c)
    BY <2>4 DEF Verify, Move, Reply, Effect
  <2>5. CASE Export(c)
    BY <2>5 DEF Export, Move, Reply, Effect
  <2>6. CASE Parse(c)
    BY <2>6 DEF Parse, Move, Reply, Effect
  <2> QED
    BY <1>1, <2>1, <2>2, <2>3, <2>4, <2>5, <2>6
<1>2. CASE InitMirror(c)
  BY <1>2 DEF InitMirror, Done, Move, Reply, Effect, Thread, Usable
<1>3. CASE Negotiate(c)
  BY <1>3 DEF Negotiate, Move, Effect
<1>4. CASE Update(c)
  BY <1>4 DEF Update, Done, Move, Reply, Effect
<1>5. CASE Failed(c)
  BY <1>5 DEF Failed, Done, Move, Reply, Effect
<1>6. CASE Clean(c)
  BY <1>6 DEF Clean, RemoveMirror, Done, Move, Reply, Effect, Thread
<1>7. CASE Size(c)
  BY <1>7 DEF Size, RemoveMirror, Done, Move, Reply, Effect, Thread
<1>8. CASE RmTree(c)
  BY <1>8 DEF RmTree, RemoveMirror, Done, Move, Reply, Effect, Thread
<1> QED
  BY <1>1, <1>2, <1>3, <1>4, <1>5, <1>6, <1>7, <1>8 DEF Step

(* A commit is not Nil. *)
LEMMA RevisionNotNil == ASSUME GitMirrorAssumption PROVE Nil \notin Revision
  BY DEF GitMirrorAssumption, Revision

LEMMA EffectKeepsObjects ==
  ASSUME GitMirrorAssumption, MirrorTypeOK, NoRefNoObjects, NEW c \in Call, Effect(c)
  PROVE  NoRefNoObjects'
<1>1. CASE UNCHANGED mirror
  BY <1>1 DEF NoRefNoObjects
<1>2. CASE mirror' \in {<<>>, <<Fresh>>, <<Broken>>}
  BY <1>2 DEF NoRefNoObjects, Fresh, Broken
<1>3. CASE pc[c] = "update" /\ mirror' = <<[ref |-> got[c].to, objs |-> mirror[1].objs \cup got[c].has,
                     sane |-> TRUE]>>
  <2>1. got[c].to # Nil
    BY RevisionNotNil DEF MirrorTypeOK
  <2> QED
    BY <1>3, <2>1 DEF NoRefNoObjects
<1> QED
  BY <1>1, <1>2, <1>3 DEF Effect

(* What the others know of the mirror survives a step of c. *)
LEMMA OthersTrue ==
  ASSUME GitMirrorAssumption, MirrorTypeOK, AnswerInv, ~overlapped,
         NEW c \in Call, Alone(c), Effect(c),
         pc'[c] = "update" => got'[c].to \in {head, got[c].to} /\ (pc[c] # "update" => got'[c].to = head),
         NEW d \in Call, d # c
  PROVE  TrueOf(d)'
<1>1. TrueOf(d) /\ TrueOf(c) /\ KindOf(d) /\ NoRefNoObjects
  BY DEF AnswerInv
<1>2. /\ pc'[d] = pc[d] /\ kind'[d] = kind[d] /\ want'[d] = want[d] /\ got'[d] = got[d]
      /\ answer'[d] = answer[d] /\ seen'[d] = seen[d] /\ (intact'[d] => intact[d])
  BY DEF Alone
<1>3. pc[d] \in Thread => UNCHANGED mirror
  <2>1. ~(pc[c] \in Thread /\ pc[d] \in Thread)
    BY DEF AnswerInv, Overlap
  <2> QED
    BY <2>1 DEF Effect, Thread
<1>4. (pc'[d] = "clean" => ~Usable') /\ (pc'[d] = "size" => Usable' /\ mirror'[1].ref \in seen'[d])
  BY <1>1, <1>2, <1>3 DEF TrueOf, Usable, Thread
<1>5. ASSUME pc'[d] = "parse", Usable' PROVE mirror'[1].ref \in seen'[d]
  <2>1. CASE UNCHANGED mirror
    BY <1>1, <1>2, <1>5, <2>1 DEF TrueOf, Usable
  <2>2. CASE mirror' \in {<<>>, <<Fresh>>, <<Broken>>}
    BY <1>5, <2>2 DEF Usable, Fresh, Broken
  <2>3. CASE pc[c] = "update" /\ mirror' = <<[ref |-> got[c].to, objs |-> mirror[1].objs \cup got[c].has,
                     sane |-> TRUE]>>
    BY <1>1, <1>2, <1>5, <2>3 DEF TrueOf
  <2> QED
    BY <2>1, <2>2, <2>3 DEF Effect
<1>6. ASSUME pc'[d] = "parse", NEW e \in Call, pc'[e] = "update" PROVE got'[e].to \in seen'[d]
  <2>1. CASE e # c
    BY <1>1, <1>2, <1>6, <2>1 DEF TrueOf, Alone
  <2>2. CASE e = c
    BY <1>1, <1>2, <1>6, <2>2 DEF TrueOf, KindOf
  <2> QED
    BY <2>1, <2>2
<1>7. ASSUME intact'[d], pc'[d] \in {"parse", "export"}
      PROVE  (pc'[d] = "parse" => Usable') /\ (pc'[d] = "export" => Has(want[d])')
  <2>1. CASE UNCHANGED mirror
    BY <1>1, <1>2, <1>7, <2>1 DEF TrueOf, Usable, Has
  <2>2. CASE (pc[c] # "clean" /\ Usable) => \A x \in Call : ~intact'[x]
    <3>1. ~Usable
      BY <1>1, <1>7, <2>2 DEF TrueOf
    <3>2. ~Has(want[d])
      BY <1>1, <3>1 DEF NoRefNoObjects, Has, Usable
    <3> QED
      BY <1>1, <1>2, <1>7, <3>1, <3>2 DEF TrueOf
  <2>3. CASE /\ mirror # <<>> /\ mirror[1].sane
             /\ mirror' = <<[ref |-> got[c].to, objs |-> mirror[1].objs \cup got[c].has,
                     sane |-> TRUE]>>
    <3>1. got[c].to # Nil
      BY RevisionNotNil DEF MirrorTypeOK
    <3>2. Usable'
      BY <2>3, <3>1 DEF Usable
    <3>3. Has(want[d]) => Has(want[d])'
      BY <1>2, <2>3 DEF Has
    <3> QED
      BY <1>1, <1>2, <1>7, <3>2, <3>3 DEF TrueOf
  <2> QED
    BY <2>1, <2>2, <2>3 DEF Effect
<1> QED
  BY <1>1, <1>2, <1>4, <1>5, <1>6, <1>7 DEF TrueOf

(* What a call itself knows after its step. *)
LEMMA OwnKind ==
  ASSUME GitMirrorAssumption, MirrorTypeOK, KindInv, NEW c \in Call, KindOf(c), Step(c)
  PROVE  KindOf(c)'
<1>0. /\ UNCHANGED <<kind, seen>> /\ head' = head
      /\ pc[c] # "free"
  <2>1. pc[c] # "free"
    BY DEF Step, Enter, Check, Recheck, Verify, Export, Parse, InitMirror, Negotiate,
           Update, Failed, Clean, Size, RmTree
  <2> QED
    BY <2>1, StepAlone DEF Alone
<1>1. CASE Enter(c) \/ Check(c) \/ Recheck(c) \/ Verify(c) \/ Export(c) \/ Parse(c)
  <2>1. \/ pc'[c] = "export" /\ pc[c] \in {"check", "recheck", "verify"}
        \/ pc'[c] = "recheck" /\ kind[c] = "ensure"
        \/ pc'[c] = "discover" /\ pc[c] = "parse"
        \/ pc'[c] \in {"wait", "init", "rmtree", "over"}
    BY <1>1 DEF Enter, Check, Recheck, Verify, Export, Parse, Arrive, Move, MirrorTypeOK
  <2> QED
    BY <1>0, <2>1 DEF KindOf
<1>2. CASE \/ InitMirror(c) \/ Negotiate(c) \/ Update(c) \/ Failed(c) \/ Clean(c)
           \/ Size(c) \/ RmTree(c)
  <2>1. /\ pc[c] # "rmtree" => kind[c] # "delete"
        /\ pc[c] = "rmtree" => kind[c] = "delete"
    BY <1>2 DEF KindInv, InitMirror, Negotiate, Update, Failed, Clean, Size, RmTree, Thread
  <2>2. \/ pc'[c] = "verify" /\ kind[c] \notin {"sync", "delete"}
        \/ pc'[c] \in {"parse", "clean", "size"} /\ kind[c] = "sync"
        \/ pc'[c] \in {"negotiate", "update", "failed", "over"}
    BY <1>2, <2>1 DEF InitMirror, Negotiate, Update, Failed, Clean, Size, RmTree, Done,
                      Move, MirrorTypeOK
  <2> QED
    BY <1>0, <2>2 DEF KindOf, MirrorTypeOK
<1> QED
  BY <1>1, <1>2 DEF Step

LEMMA OwnTrue ==
  ASSUME GitMirrorAssumption, MirrorTypeOK, KindInv, AnswerInv, ~overlapped, ~Overlap',
         NEW c \in Call, Step(c)
  PROVE  TrueOf(c)'
<1> USE DEF MirrorTypeOK, TrueOf, KindOf, remoteVars, callVars, lockVars
<1>0. /\ TrueOf(c) /\ KindOf(c) /\ NoRefNoObjects
      /\ answer[c] # Nil => pc[c] = "over"
      /\ pc[c] = "rmtree" => kind[c] = "delete"
      /\ answer[c] # "ok" \/ pc[c] = "over"
  BY DEF AnswerInv, KindInv, GitMirrorAssumption
<1>1. CASE Enter(c)
  BY <1>0, <1>1 DEF Enter, Move
<1>2. CASE Check(c)
  BY <1>0, <1>2 DEF Check, Arrive, Move, Has
<1>3. CASE Recheck(c)
  BY <1>0, <1>3 DEF Recheck, Move, Has
<1>4. CASE Verify(c)
  BY <1>0, <1>4 DEF Verify, Move, Reply, Has
<1>5. CASE Export(c)
  BY <1>0, <1>5 DEF Export, Move, Reply
<1>6. CASE Parse(c)
  BY <1>0, <1>6 DEF Parse, Move, Reply, Usable
<1>7. CASE InitMirror(c)
  BY <1>0, <1>7 DEF InitMirror, Done, Move, Reply
<1>8. CASE Negotiate(c)
  BY <1>0, <1>8 DEF Negotiate, Move
<1>9. CASE Update(c)
  <2>1. got[c].to # Nil
    BY RevisionNotNil
  <2> QED
    BY <1>0, <1>9, <2>1 DEF Update, Done, Move, Reply, Usable
<1>10. CASE Failed(c)
  BY <1>0, <1>10 DEF Failed, NothingUsable, Usable, Done, Move, Reply, Raised
<1>11. CASE Clean(c)
  BY <1>0, <1>11 DEF Clean, Done, Move, Reply
<1>12. CASE Size(c)
  <2>1. \A d \in Call \ {c} : pc'[d] # "update"
    BY <1>12, StepAlone DEF AnswerInv, Overlap, Alone, Size, Thread
  <2>2. CASE pc'[c] = "parse"
    <3>1. UNCHANGED mirror /\ UNCHANGED <<answer, seen>>
      BY <1>12, <2>2 DEF Size, Done, Move
    <3>2. \A d \in Call : pc'[d] # "update"
      BY <2>1, <2>2
    <3> QED
      BY <1>0, <1>12, <2>2, <3>1, <3>2 DEF Size, Usable
  <2>3. CASE pc'[c] # "parse"
    BY <1>0, <1>12, <2>3 DEF Size, Done, Move, Reply
  <2> QED
    BY <2>2, <2>3
<1>13. CASE RmTree(c)
  BY <1>0, <1>13 DEF RmTree, Done, Move, Reply
<1> QED
  BY <1>1, <1>2, <1>3, <1>4, <1>5, <1>6, <1>7, <1>8, <1>9, <1>10, <1>11, <1>12, <1>13
     DEF Step

LEMMA AnswerStart == ASSUME GitMirrorAssumption, MirrorInit PROVE AnswerInv
  BY DEF MirrorInit, AnswerInv, Overlap, NoRefNoObjects, KindOf, TrueOf, Thread,
         GitMirrorAssumption

LEMMA AnswerStep ==
  ASSUME GitMirrorAssumption, MirrorTypeOK, KindInv, AnswerInv, MirrorNext
  PROVE  AnswerInv'
<1>1. overlapped' = (overlapped \/ Overlap')
  BY DEF MirrorNext
<1>2. ASSUME NEW c \in Call, Alone(c), Effect(c), KindOf(c)',
             ~overlapped' => TrueOf(c)',
             pc'[c] = "update" => got'[c].to \in {head, got[c].to} /\ (pc[c] # "update" => got'[c].to = head)
      PROVE  AnswerInv'
  <2>1. NoRefNoObjects'
    BY <1>2, EffectKeepsObjects DEF AnswerInv
  <2>2. ASSUME NEW d \in Call PROVE KindOf(d)'
    BY <1>2, <2>2 DEF Alone, AnswerInv, KindOf
  <2>3. ASSUME ~overlapped', NEW d \in Call PROVE TrueOf(d)'
    BY <1>1, <1>2, <2>3, OthersTrue
  <2> QED
    BY <1>1, <2>1, <2>2, <2>3 DEF AnswerInv
<1>3. ASSUME NEW c \in Call, StartCall(c) PROVE AnswerInv'
  <2>1. answer[c] = Nil
    BY <1>3, StartAlone DEF KindInv
  <2>2. KindOf(c)'
    BY <1>3, StartAlone DEF KindOf, Alone, MirrorTypeOK
  <2>3. TrueOf(c)'
    BY <1>3, <2>1, StartAlone DEF TrueOf, GitMirrorAssumption
  <2> QED
    BY <1>2, <1>3, <2>2, <2>3, StartAlone
<1>4. ASSUME NEW c \in Call, Step(c) PROVE AnswerInv'
  <2>1. KindOf(c)'
    BY <1>4, OwnKind DEF AnswerInv
  <2>2. ~overlapped' => TrueOf(c)'
    BY <1>1, <1>4, OwnTrue
  <2>3. ASSUME pc'[c] = "update" PROVE got'[c].to = head
    <3>1. Negotiate(c)
      BY <1>4, <2>3 DEF Step, Enter, Check, Recheck, Verify, Export, Parse, InitMirror, Negotiate,
           Update, Failed, Clean, Size, RmTree, Done, Move, Arrive, MirrorTypeOK
    <3> QED
      BY <2>3, <3>1 DEF Negotiate, Move, MirrorTypeOK
  <2> QED
    BY <1>2, <1>4, <2>1, <2>2, <2>3, StepAlone
<1>5. ASSUME NEW c \in Call, Cancel(c) PROVE AnswerInv'
  <2>1. /\ Alone(c) /\ Effect(c) /\ UNCHANGED <<kind, seen, got, answer, mirror, want, intact>>
        /\ pc'[c] \in {pc[c], "over"} /\ pc[c] # "free"
        /\ \A d \in Call \ {c} : pc'[d] = pc[d]
    BY <1>5 DEF Cancel, Alone, Effect, Move, MirrorTypeOK, remoteVars
  <2>2. KindOf(c)'
    BY <2>1 DEF KindOf, Alone, AnswerInv
  <2>3. ~overlapped' => TrueOf(c)'
    BY <1>1, <2>1 DEF TrueOf, AnswerInv, Usable, Has
  <2> QED
    BY <1>2, <2>1, <2>2, <2>3
<1>6. ASSUME NEW keep \in BOOLEAN, Push(keep) PROVE AnswerInv'
  <2>1. /\ UNCHANGED <<mirror, pc, kind, want, got, answer, intact>>
        /\ \A d \in Call : seen'[d] = IF pc[d] = "free" THEN {} ELSE seen[d] \cup {head'}
    BY <1>6 DEF Push, callVars
  <2>2. Overlap' <=> Overlap
    BY <2>1 DEF Overlap
  <2>3. ASSUME NEW d \in Call PROVE KindOf(d)'
    BY <2>1 DEF KindOf, AnswerInv
  <2>4. ASSUME NEW d \in Call, ~overlapped PROVE TrueOf(d)'
    <3>1. TrueOf(d) /\ (answer[d] = "ok" => pc[d] = "over")
      BY <2>4 DEF AnswerInv, KindInv, GitMirrorAssumption
    <3>2. pc[d] # "free" => seen[d] \subseteq seen'[d]
      BY <2>1
    <3> QED
      BY <2>1, <3>1, <3>2 DEF TrueOf, Usable, Has
  <2> QED
    BY <1>1, <2>1, <2>2, <2>3, <2>4 DEF AnswerInv, NoRefNoObjects
<1> QED
  BY <1>3, <1>4, <1>5, <1>6 DEF MirrorNext

(* What a call is told of the mirror holds when it uses it (mirror.py:165, :273-287): *)
(* unless two threads wrote it at once, a commit that was found is there to export, a  *)
(* fetched branch is there to parse, and a sync answers with a head of its own time.   *)
THEOREM AnswersAlwaysHold == ASSUME GitMirrorAssumption PROVE MirrorSpec => []AnswersHold
<1>1. MirrorInit => AnswerInv
  BY AnswerStart
<1>2. GuardedInv /\ AnswerInv /\ [MirrorNext]_mirrorVars => AnswerInv'
  <2>1. ASSUME AnswerInv, UNCHANGED mirrorVars PROVE AnswerInv'
    BY <2>1 DEF mirrorVars, remoteVars, callVars, AnswerInv, Overlap, NoRefNoObjects,
                KindOf, TrueOf, Usable, Has
  <2> QED
    BY <2>1, AnswerStep DEF GuardedInv, Registry
<1>3. AnswerInv => AnswersHold
  BY DEF AnswerInv, AnswersHold, FetchedIsThere, SyncAnswersHead, TrueOf, Usable
<1> QED
  BY <1>1, <1>2, <1>3, GuardedAlways, PTL DEF MirrorSpec

----------------------------------------------------------------------------
(* RepositorySync.                                                         *)

\* What a transaction has written of a path.
Written == Row \cup {None, Same}

LEMMA RowTypes ==
  ASSUME RepositorySyncAssumption, SyncTypeOK
  PROVE  /\ \A p \in Path : row[p] # None => /\ row[p].id \in Nat /\ row[p].text \in Commit
                                             /\ row[p].missing \in BOOLEAN
                                             /\ row[p] \in Row
         /\ None \notin Row /\ Same \notin Row /\ None # Same
BY DEF SyncTypeOK, RepositorySyncAssumption, Row

LEMMA WrittenTypes ==
  ASSUME SyncTypeOK, NEW s \in Sync, NEW P, NEW f \in [Path -> Written],
         mine' = [mine EXCEPT ![s] = [p \in Path |-> IF p \in P THEN f[p] ELSE mine[s][p]]]
  PROVE  /\ mine' \in [Sync -> [Path -> Written]]
         /\ \A p \in Path : mine'[s][p] = IF p \in P THEN f[p] ELSE mine[s][p]
BY DEF SyncTypeOK, Written

----------------------------------------------------------------------------
(* A statement of a transaction.                                           *)

LEMMA UpsertInv ==
  ASSUME RepositorySyncAssumption, SyncTypeOK, TxInv, SoloInv,
         NEW s \in Sync, NEW p \in Path, Upsert(s, p)
  PROVE  SyncTypeOK' /\ TxInv' /\ SoloInv'
<1> DEFINE new == [id |-> IdFor(p), text |-> found[s], missing |-> FALSE]
           f == [q \in Path |-> new]
<1>1. found[s] \in Commit /\ Stores(s) /\ at[s] = "upsert"
  BY DEF TxInv, Upsert, Stores, InTx
<1>2. new \in Row /\ f \in [Path -> Written]
  <2>1. IdFor(p) \in Nat
    BY RowTypes DEF IdFor, SyncTypeOK
  <2> QED
    BY <1>1, <2>1 DEF Row, Written
<1>3. mine' = [mine EXCEPT ![s] = [q \in Path |-> IF q \in {p} THEN f[q] ELSE mine[s][q]]]
  BY DEF Upsert, Write
<1>4. /\ mine' \in [Sync -> [Path -> Written]]
      /\ \A q \in Path : mine'[s][q] = IF q \in {p} THEN new ELSE mine[s][q]
  BY <1>2, <1>3, WrittenTypes
<1>5. new # Same /\ new # None /\ new.text = found[s] /\ ~new.missing
  BY <1>2, RowTypes
<1> HIDE DEF new, f
<1>6. /\ UNCHANGED <<at, found, via, row, uses, victims, solo>> /\ p \in todo[s]
      /\ todo' = [todo EXCEPT ![s] = @ \ {p}]
  BY DEF Upsert
<1>7. SyncTypeOK'
  <2>1. made' \in Nat /\ todo' \in [Sync -> SUBSET Path]
    <3>1. todo[s] \ {p} \in SUBSET Path
      BY DEF SyncTypeOK
    <3>2. todo' = [todo EXCEPT ![s] = todo[s] \ {p}]
      BY <1>6
    <3>3. todo \in [Sync -> SUBSET Path] /\ made \in Nat /\ made' = made + 1
      BY DEF Upsert, SyncTypeOK
    <3> HIDE DEF SyncTypeOK
    <3> QED
      BY <3>1, <3>2, <3>3
  <2>2. mine' \in [Sync -> [Path -> Row \cup {None, Same}]]
    BY <1>4 DEF Written
  <2> QED
    BY <1>6, <2>1, <2>2 DEF Upsert, SyncTypeOK, repoVars, resolveVars
<1>8. TxInv'
  <2>1. \A t \in Sync : ~Stores(t) => mine'[t] = mine[t]
    BY <1>1, <1>3 DEF SyncTypeOK
  <2> QED
    BY <1>6, <2>1 DEF TxInv, Stores
<1>9. SoloInv'
  <2> SUFFICES ASSUME NEW t \in Sync, solo[t], Stores(t) PROVE SoloAt(t)'
    BY <1>6 DEF SoloInv, Stores
  <2>1. t = s /\ SoloAt(s)
    BY <1>1 DEF SoloInv, SoloAt
  <2>2. /\ \A u \in Sync \ {s} : ~Stores(u)'
        /\ found'[s] \in Offers'[via'[s]]
        /\ todo'[s] \subseteq Tree[found'[s]]
    BY <1>6, <2>1 DEF SoloAt, Stores, SyncTypeOK
  <2>3. ASSUME NEW q \in Tree[found[s]] PROVE q \in todo'[s] \/ Upserted(s, q)'
    <3>1. q \in Path
      BY <1>1 DEF RepositorySyncAssumption
    <3> QED
      BY <1>4, <1>5, <1>6, <2>1, <3>1 DEF SoloAt, Upserted, SyncTypeOK
  <2>4. ASSUME NEW q \in Path \ Tree[found[s]] PROVE GoneInv(s, q)'
    <3>1. mine[s][q] = Same /\ q # p
      BY <1>1, <1>6, <2>1 DEF SoloAt, GoneInv
    <3> QED
      BY <1>1, <1>4, <1>6, <3>1 DEF GoneInv
  <2> QED
    BY <1>1, <1>6, <2>1, <2>2, <2>3, <2>4 DEF SoloAt
<1> QED
  BY <1>7, <1>8, <1>9

LEMMA PickInv ==
  ASSUME RepositorySyncAssumption, SyncTypeOK, TxInv, SoloInv, NEW s \in Sync,
         PickVanished(s)
  PROVE  SyncTypeOK' /\ TxInv' /\ SoloInv'
<1>1. /\ at[s] = "upsert" /\ Stores(s) /\ todo[s] = {}
      /\ at' = [at EXCEPT ![s] = "delete"]
      /\ UNCHANGED <<found, via, row, uses, solo, mine, todo>>
      /\ victims' = [victims EXCEPT ![s] =
                       {row[p].id : p \in {q \in Vanished(s) : ~Used(row[q].id)}}]
  BY DEF PickVanished, Stores, InTx, Goto
<1>2. SyncTypeOK'
  <2>1. {row[p].id : p \in {q \in Vanished(s) : ~Used(row[q].id)}} \in SUBSET Nat
    BY RowTypes DEF Vanished
  <2>2. victims' \in [Sync -> SUBSET Nat]
    BY <1>1, <2>1 DEF SyncTypeOK
  <2>3. /\ at' \in [Sync -> {"free", "rpc", "over"} \cup InTx]
        /\ knew' \in [Sync -> [Job -> Nat \cup {None}]]
    BY <1>1 DEF PickVanished, SyncTypeOK, InTx
  <2> QED
    BY <1>1, <2>2, <2>3 DEF PickVanished, SyncTypeOK, repoVars, resolveVars
<1>3. \A t \in Sync : Stores(t)' <=> Stores(t)
  BY <1>1 DEF Stores, InTx, SyncTypeOK
<1>4. TxInv'
  BY <1>1, <1>3 DEF TxInv, SyncTypeOK
<1>5. SoloInv'
  <2> SUFFICES ASSUME NEW t \in Sync, solo[t], Stores(t) PROVE SoloAt(t)'
    BY <1>1, <1>3 DEF SoloInv
  <2>1. t = s /\ SoloAt(s)
    BY <1>1 DEF SoloInv, SoloAt
  <2>2. ASSUME NEW q \in Path \ Tree[found[s]] PROVE GoneInv(s, q)'
    <3>1. mine[s][q] = Same
      BY <1>1, <2>1 DEF SoloAt, GoneInv
    <3>2. row[q] # None /\ ~Used(row[q].id) => row[q].id \in victims'[s]
      BY <1>1 DEF Vanished, SyncTypeOK
    <3>3. at'[s] = "delete" /\ UNCHANGED <<mine, row, uses>>
      BY <1>1 DEF SyncTypeOK
    <3> QED
      BY <3>1, <3>2, <3>3 DEF GoneInv, Used
  <2> QED
    BY <1>1, <1>3, <2>1, <2>2 DEF SoloAt, Upserted, SyncTypeOK
<1> QED
  BY <1>2, <1>4, <1>5

LEMMA DeleteInv ==
  ASSUME RepositorySyncAssumption, SyncTypeOK, TxInv, SoloInv, NEW s \in Sync,
         DeleteVanished(s)
  PROVE  SyncTypeOK' /\ TxInv' /\ SoloInv'
<1> DEFINE gone == {p \in Vanished(s) : row[p].id \in victims[s]}
           f == [q \in Path |-> None]
<1>1. /\ at[s] = "delete" /\ Stores(s)
      /\ at' = [at EXCEPT ![s] = "missing"]
      /\ UNCHANGED <<found, via, row, uses, solo, todo, victims>>
  BY DEF DeleteVanished, Stores, InTx, Goto
<1>2. mine' = [mine EXCEPT ![s] = [q \in Path |-> IF q \in gone THEN f[q] ELSE mine[s][q]]]
  BY DEF DeleteVanished, Write
<1>3. /\ mine' \in [Sync -> [Path -> Written]]
      /\ \A q \in Path : mine'[s][q] = IF q \in gone THEN None ELSE mine[s][q]
  <2>1. f \in [Path -> Written]
    BY DEF Written
  <2> QED
    BY <1>2, <2>1, WrittenTypes
<1> HIDE DEF f
<1>4. SyncTypeOK'
  <2>1. /\ at' \in [Sync -> {"free", "rpc", "over"} \cup InTx]
        /\ mine' \in [Sync -> [Path -> Row \cup {None, Same}]]
    BY <1>1, <1>3 DEF SyncTypeOK, InTx, Written
  <2> QED
    BY <1>1, <2>1 DEF DeleteVanished, SyncTypeOK, repoVars, resolveVars
<1>5. \A t \in Sync : Stores(t)' <=> Stores(t)
  BY <1>1 DEF Stores, InTx, SyncTypeOK
<1>6. TxInv'
  <2>1. \A t \in Sync : ~Stores(t) => mine'[t] = mine[t]
    BY <1>1, <1>2 DEF SyncTypeOK
  <2> QED
    BY <1>1, <1>5, <2>1 DEF TxInv, SyncTypeOK
<1>7. SoloInv'
  <2> SUFFICES ASSUME NEW t \in Sync, solo[t], Stores(t) PROVE SoloAt(t)'
    BY <1>1, <1>5 DEF SoloInv
  <2>1. t = s /\ SoloAt(s)
    BY <1>1 DEF SoloInv, SoloAt
  <2>2. \A q \in Tree[found[s]] : q \in Path /\ q \notin gone
    BY <1>1 DEF Vanished, TxInv, RepositorySyncAssumption
  <2>3. ASSUME NEW q \in Path \ Tree[found[s]] PROVE GoneInv(s, q)'
    <3>1. mine[s][q] = Same /\ (row[q] # None => Used(row[q].id) \/ row[q].id \in victims[s])
      BY <1>1, <2>1 DEF SoloAt, GoneInv
    <3>2. q \notin gone => (row[q] # None => Used(row[q].id))
      BY <3>1 DEF Vanished
    <3>3. at'[s] = "missing" /\ UNCHANGED <<row, uses>> /\ None # Same
      BY <1>1, RowTypes DEF SyncTypeOK
    <3> QED
      BY <1>3, <3>1, <3>2, <3>3 DEF GoneInv, Used
  <2>4. ASSUME NEW q \in Tree[found[s]] PROVE q \in todo'[s] \/ Upserted(s, q)'
    BY <1>1, <1>3, <2>1, <2>2 DEF SoloAt, Upserted
  <2> QED
    BY <1>1, <1>5, <2>1, <2>3, <2>4 DEF SoloAt, SyncTypeOK
<1> QED
  BY <1>4, <1>6, <1>7

LEMMA MissingInv ==
  ASSUME RepositorySyncAssumption, SyncTypeOK, TxInv, SoloInv, NEW s \in Sync,
         MarkMissing(s)
  PROVE  SyncTypeOK' /\ TxInv' /\ SoloInv'
<1> DEFINE flag(q) == [row[q] EXCEPT !.missing = TRUE]
           f == [q \in Path |-> IF q \in Flagged(s) THEN flag(q) ELSE None]
<1>1. /\ at[s] = "missing" /\ Stores(s)
      /\ at' = [at EXCEPT ![s] = "commit"]
      /\ UNCHANGED <<found, via, row, uses, solo, todo, victims>>
  BY DEF MarkMissing, Stores, InTx, Goto
<1>2. \A q \in Path : q \in Flagged(s) => /\ flag(q) \in Row /\ flag(q).missing
                                          /\ flag(q) # None /\ flag(q) # Same
  <2>1. ASSUME NEW q \in Path, q \in Flagged(s) PROVE flag(q) \in Row /\ flag(q).missing
    BY <2>1, RowTypes DEF Flagged, Vanished, Row
  <2> QED
    BY <2>1, RowTypes
<1>3. mine' = [mine EXCEPT ![s] = [q \in Path |-> IF q \in Flagged(s) THEN f[q]
                                                                 ELSE mine[s][q]]]
  BY DEF MarkMissing, Write
<1>4. /\ mine' \in [Sync -> [Path -> Written]]
      /\ \A q \in Path : mine'[s][q] = IF q \in Flagged(s) THEN flag(q) ELSE mine[s][q]
  <2>1. f \in [Path -> Written]
    BY <1>2 DEF Written
  <2> QED
    BY <1>3, <2>1, WrittenTypes
<1> HIDE DEF f, flag
<1>5. SyncTypeOK'
  <2>1. /\ at' \in [Sync -> {"free", "rpc", "over"} \cup InTx]
        /\ mine' \in [Sync -> [Path -> Row \cup {None, Same}]]
    BY <1>1, <1>4 DEF SyncTypeOK, InTx, Written
  <2> QED
    BY <1>1, <2>1 DEF MarkMissing, SyncTypeOK, repoVars, resolveVars
<1>6. \A t \in Sync : Stores(t)' <=> Stores(t)
  BY <1>1 DEF Stores, InTx, SyncTypeOK
<1>7. TxInv'
  <2>1. \A t \in Sync : ~Stores(t) => mine'[t] = mine[t]
    BY <1>1, <1>3 DEF SyncTypeOK
  <2> QED
    BY <1>1, <1>6, <2>1 DEF TxInv, SyncTypeOK
<1>8. SoloInv'
  <2> SUFFICES ASSUME NEW t \in Sync, solo[t], Stores(t) PROVE SoloAt(t)'
    BY <1>1, <1>6 DEF SoloInv
  <2>1. t = s /\ SoloAt(s)
    BY <1>1 DEF SoloInv, SoloAt
  <2>2. \A q \in Tree[found[s]] : q \in Path /\ q \notin Flagged(s)
    BY <1>1 DEF Flagged, Vanished, TxInv, RepositorySyncAssumption
  <2>3. ASSUME NEW q \in Path \ Tree[found[s]] PROVE GoneInv(s, q)'
    <3>1. /\ mine[s][q] \in {Same, None}
          /\ row[q] # None /\ mine[s][q] = Same => Used(row[q].id)
      BY <1>1, <2>1 DEF SoloAt, GoneInv
    <3>2. row[q] # None /\ mine[s][q] = Same => q \in Flagged(s)
      BY <3>1 DEF Flagged, Vanished
    <3>3. at'[s] = "commit" /\ UNCHANGED row /\ None # Same
      BY <1>1, RowTypes DEF SyncTypeOK
    <3> QED
      BY <1>2, <1>4, <3>1, <3>2, <3>3 DEF GoneInv
  <2>4. ASSUME NEW q \in Tree[found[s]] PROVE q \in todo'[s] \/ Upserted(s, q)'
    BY <1>1, <1>4, <2>1, <2>2 DEF SoloAt, Upserted
  <2> QED
    BY <1>1, <1>6, <2>1, <2>3, <2>4 DEF SoloAt, SyncTypeOK
<1> QED
  BY <1>5, <1>7, <1>8

----------------------------------------------------------------------------
(* Begin, commit and the steps outside a transaction.                      *)

LEMMA BeginInv ==
  ASSUME RepositorySyncAssumption, SyncTypeOK, TxInv, SoloInv,
         NEW s \in Sync, NEW k \in Commit, Begin(s, k)
  PROVE  SyncTypeOK' /\ TxInv' /\ SoloInv'
<1>1. /\ at[s] = "rpc" /\ via[s] \in Url /\ k \in Offers[via[s]] /\ ~Stores(s)
      /\ at' = [at EXCEPT ![s] = "upsert"] /\ found' = [found EXCEPT ![s] = k]
      /\ todo' = [todo EXCEPT ![s] = Tree[k]]
      /\ UNCHANGED <<via, row, uses, mine>>
  BY DEF Begin, Goto, TxInv, Stores, InTx
<1>2. SyncTypeOK'
  <2>1. Tree[k] \in SUBSET Path
    BY DEF RepositorySyncAssumption
  <2>2. /\ at' \in [Sync -> {"free", "rpc", "over"} \cup InTx]
        /\ found' \in [Sync -> Commit \cup {None}] /\ todo' \in [Sync -> SUBSET Path]
        /\ solo' \in [Sync -> BOOLEAN]
    BY <1>1, <2>1 DEF Begin, SyncTypeOK, InTx
  <2> QED
    BY <1>1, <2>2 DEF Begin, SyncTypeOK, repoVars, resolveVars
<1>3. \A t \in Sync : Stores(t)' <=> Stores(t) \/ t = s
  BY <1>1 DEF Stores, InTx, SyncTypeOK
<1>4. TxInv'
  BY <1>1, <1>3 DEF TxInv, SyncTypeOK
<1>5. SoloInv'
  <2> SUFFICES ASSUME NEW t \in Sync, solo'[t], Stores(t)' PROVE SoloAt(t)'
    BY DEF SoloInv
  <2>1. t = s /\ \A x \in Sync : ~Stores(x)
    BY DEF Begin, Stores
  <2>2. /\ found'[s] = k /\ todo'[s] = Tree[k] /\ at'[s] = "upsert"
        /\ mine'[s] = Nothing
    BY <1>1 DEF SyncTypeOK, TxInv
  <2> QED
    BY <1>1, <1>3, <2>1, <2>2 DEF SoloAt, GoneInv, Nothing
<1> QED
  BY <1>2, <1>4, <1>5

(* A transaction that ends, or a sync that never opens one. *)
LEMMA SyncLeaves ==
  ASSUME RepositorySyncAssumption, SyncTypeOK, TxInv, SoloInv, NEW s \in Sync,
         ReadRepository(s) \/ FetchFails(s) \/ TxFails(s)
  PROVE  SyncTypeOK' /\ TxInv' /\ SoloInv'
<1>1. /\ \E x \in {"rpc", "over"} : at' = [at EXCEPT ![s] = x] /\ (x = "rpc" => url # None)
      /\ UNCHANGED <<found, todo, row, uses, victims, solo>>
      /\ mine' = [mine EXCEPT ![s] = Nothing]
      /\ \/ UNCHANGED via /\ at'[s] # "rpc"
         \/ via' = [via EXCEPT ![s] = url] /\ (url # None => url \in Url)
  <2>1. UNCHANGED mine /\ ~Stores(s) => mine' = [mine EXCEPT ![s] = Nothing]
    BY DEF TxInv, SyncTypeOK
  <2>2. CASE ReadRepository(s)
    BY <2>1, <2>2 DEF ReadRepository, Goto, SyncTypeOK, Stores, InTx
  <2>3. CASE FetchFails(s)
    BY <2>1, <2>3 DEF FetchFails, Goto, SyncTypeOK, Stores, InTx
  <2>4. CASE TxFails(s)
    BY <2>4 DEF TxFails, Goto, SyncTypeOK
  <2> QED
    BY <2>2, <2>3, <2>4
<1>2. SyncTypeOK'
  <2>1. Nothing \in [Path -> Row \cup {None, Same}]
    BY DEF Nothing
  <2>2. /\ at' \in [Sync -> {"free", "rpc", "over"} \cup InTx]
        /\ mine' \in [Sync -> [Path -> Row \cup {None, Same}]]
    BY <1>1, <2>1 DEF SyncTypeOK
  <2>4. via' \in [Sync -> Url \cup {None}]
    <3>1. via \in [Sync -> Url \cup {None}] /\ url \in Url \cup {None}
      BY DEF SyncTypeOK
    <3> QED
      BY <1>1, <3>1
  <2>3. failed' \in BOOLEAN
    BY DEF ReadRepository, FetchFails, TxFails, SyncTypeOK, repoVars
  <2> QED
    BY <1>1, <2>2, <2>3, <2>4
       DEF ReadRepository, FetchFails, TxFails, SyncTypeOK, repoVars, resolveVars
<1>3. \A t \in Sync : Stores(t)' <=> Stores(t) /\ t # s
  BY <1>1 DEF Stores, InTx, SyncTypeOK
<1>4. TxInv'
  BY <1>1, <1>3 DEF TxInv, SyncTypeOK
<1>5. SoloInv'
  <2> SUFFICES ASSUME NEW t \in Sync, solo[t], Stores(t), t # s PROVE SoloAt(t)'
    BY <1>1, <1>3 DEF SoloInv
  <2>1. SoloAt(t) /\ mine'[t] = mine[t] /\ at'[t] = at[t] /\ via'[t] = via[t]
    BY <1>1 DEF SoloInv, SyncTypeOK
  <2> QED
    BY <1>1, <1>3, <2>1 DEF SoloAt, Upserted, GoneInv, Used
<1> QED
  BY <1>2, <1>4, <1>5

LEMMA CommitInv ==
  ASSUME RepositorySyncAssumption, SyncTypeOK, TxInv, SoloInv, NEW s \in Sync, CommitSync(s)
  PROVE  SyncTypeOK' /\ TxInv' /\ SoloInv' /\ MatchesCommit'
<1>1. /\ at[s] = "commit" /\ Stores(s) /\ at' = [at EXCEPT ![s] = "over"]
      /\ UNCHANGED <<found, todo, victims, solo, via, url>>
      /\ mine' = [mine EXCEPT ![s] = Nothing] /\ last' = found[s]
      /\ row' = [p \in Path |-> IF mine[s][p] = Same THEN row[p] ELSE mine[s][p]]
      /\ settled' = (solo[s] /\ via[s] = url) /\ found[s] \in Commit
  BY DEF CommitSync, Goto, Stores, InTx, repoVars, TxInv
<1>2. SyncTypeOK'
  <2>1. Nothing \in [Path -> Row \cup {None, Same}]
    BY DEF Nothing
  <2>2. /\ at' \in [Sync -> {"free", "rpc", "over"} \cup InTx]
        /\ mine' \in [Sync -> [Path -> Row \cup {None, Same}]]
        /\ row' \in [Path -> Row \cup {None}]
        /\ uses' \in [Job -> Nat \cup {None}]
        /\ settled' \in BOOLEAN
    BY <1>1, <2>1 DEF CommitSync, SyncTypeOK
  <2>3. /\ straddled' \in [Resolve -> BOOLEAN] /\ failed' \in BOOLEAN
        /\ last' \in Commit \cup {None}
    BY <1>1 DEF CommitSync
  <2> QED
    BY <1>1, <2>2, <2>3 DEF CommitSync, SyncTypeOK, resolveVars
<1>3. \A t \in Sync : Stores(t)' <=> Stores(t) /\ t # s
  BY <1>1 DEF Stores, InTx, SyncTypeOK
<1>4. TxInv'
  BY <1>1, <1>3 DEF TxInv, SyncTypeOK
<1>5. SoloInv'
  BY <1>1, <1>3 DEF SoloInv, SoloAt
<1>6. MatchesCommit'
  <2> SUFFICES ASSUME solo[s], via[s] = url
               PROVE  /\ found[s] \in Offers[url] /\ Shown' = Tree[found[s]]
                      /\ \A p \in Shown' : row'[p].text = found[s]
    BY <1>1 DEF MatchesCommit
  <2>1. /\ SoloAt(s) /\ todo[s] = {} /\ Tree[found[s]] \subseteq Path
    BY <1>1 DEF SoloInv, SoloAt, RepositorySyncAssumption
  <2>2. ASSUME NEW p \in Tree[found[s]]
        PROVE  row'[p] # None /\ ~row'[p].missing /\ row'[p].text = found[s]
    BY <1>1, <2>1 DEF SoloAt, Upserted
  <2>3. ASSUME NEW p \in Path \ Tree[found[s]], row'[p] # None PROVE row'[p].missing
    <3>1. /\ mine[s][p] \notin {Same, None} => mine[s][p].missing
          /\ row[p] # None => mine[s][p] # Same
      BY <1>1, <2>1 DEF SoloAt, GoneInv
    <3> QED
      BY <1>1, <2>3, <3>1
  <2> QED
    BY <2>1, <2>2, <2>3 DEF SoloAt, Shown
<1> QED
  BY <1>2, <1>4, <1>5, <1>6

LEMMA UserInv ==
  ASSUME RepositorySyncAssumption, SyncTypeOK, TxInv, SoloInv, UserStep
  PROVE  SyncTypeOK' /\ TxInv' /\ SoloInv'
<1>0. UNCHANGED <<at, found, via, todo, mine, victims>>
  BY DEF UserStep, EditUrl, DeleteRepository, SaveJob, syncVars
<1>1. SyncTypeOK'
  <2>1. ASSUME NEW j \in Job, NEW i \in 1 .. made \cup {None}, SaveJob(j, i)
        PROVE  SyncTypeOK'
    <3>1. i \in Nat \cup {None}
      BY DEF SyncTypeOK
    <3>2. uses' \in [Job -> Nat \cup {None}] /\ solo' \in [Sync -> BOOLEAN]
      BY <2>1, <3>1 DEF SaveJob, SyncTypeOK
    <3> QED
      BY <1>0, <2>1, <3>2 DEF SaveJob, SyncTypeOK, repoVars, resolveVars
  <2>2. ASSUME NEW u \in Url, EditUrl(u) PROVE SyncTypeOK'
    <3>1. edits' \in Nat
      BY <2>2 DEF EditUrl, SyncTypeOK
    <3> QED
      BY <2>2, <3>1 DEF EditUrl, SyncTypeOK, syncVars, resolveVars
  <2>3. CASE DeleteRepository
    BY <2>3 DEF DeleteRepository, SyncTypeOK, syncVars, resolveVars
  <2> QED
    BY <2>1, <2>2, <2>3 DEF UserStep
<1>2. TxInv'
  BY <1>0 DEF TxInv, Stores
<1>3. SoloInv'
  <2> SUFFICES ASSUME NEW t \in Sync, solo'[t], Stores(t) PROVE SoloAt(t)'
    BY <1>0 DEF SoloInv, Stores
  <2>1. solo[t] /\ SoloAt(t)
    BY DEF UserStep, EditUrl, DeleteRepository, SaveJob, syncVars, SoloInv
  <2>2. ASSUME NEW p \in Path \ Tree[found[t]] PROVE GoneInv(t, p)'
    <3>1. GoneInv(t, p)
      BY <2>1 DEF SoloAt
    <3>2. CASE UNCHANGED <<row, uses>>
      BY <1>0, <3>1, <3>2 DEF GoneInv, Used
    <3>3. CASE UNCHANGED row /\ at[t] \notin {"delete", "missing"}
      BY <1>0, <3>1, <3>3 DEF GoneInv
    <3>4. CASE DeleteRepository
      <4>1. row'[p] = None /\ mine[t][p] = Same
        BY <3>4 DEF DeleteRepository, Nothing
      <4> QED
        BY <1>0, <3>1, <4>1 DEF GoneInv
    <3> QED
      BY <3>2, <3>3, <3>4 DEF UserStep, EditUrl, SaveJob
  <2> QED
    BY <1>0, <2>1, <2>2 DEF SoloAt, Upserted, Stores
<1> QED
  BY <1>1, <1>2, <1>3

LEMMA ResolveInv ==
  ASSUME RepositorySyncAssumption, SyncTypeOK, NEW r \in Resolve, ResolveStep(r)
  PROVE  SyncTypeOK' /\ UNCHANGED <<repoVars, row, uses, syncVars, settled>>
<1>1. CASE ResolveGitSource(r)
  <2>1. pinned' \in [Resolve -> (Url \X Commit) \cup {None}]
    BY <1>1 DEF ResolveGitSource, SyncTypeOK
  <2>2. /\ step' \in [Resolve -> {"free", "looked", "pinned", "refused"}]
        /\ straddled' \in [Resolve -> BOOLEAN]
    BY <1>1 DEF ResolveGitSource, SyncTypeOK
  <2> QED
    BY <1>1, <2>1, <2>2 DEF ResolveGitSource, SyncTypeOK, repoVars, syncVars
<1>2. ASSUME NEW p \in Path, ReadPlaybook(r, p) PROVE SyncTypeOK'
  <2>1. row[p] \in Row
    BY <1>2, RowTypes DEF ReadPlaybook
  <2>2. /\ saw' \in [Resolve -> (Path \X Row) \cup {None}]
        /\ step' \in [Resolve -> {"free", "looked", "pinned", "refused"}]
        /\ straddled' \in [Resolve -> BOOLEAN]
    BY <1>2, <2>1 DEF ReadPlaybook, SyncTypeOK
  <2> QED
    BY <1>2, <2>2 DEF ReadPlaybook, SyncTypeOK, repoVars, syncVars
<1>3. UNCHANGED <<repoVars, row, uses, syncVars, settled>>
  BY DEF ResolveStep, ResolveGitSource, ReadPlaybook
<1> QED
  BY <1>1, <1>2, <1>3 DEF ResolveStep

----------------------------------------------------------------------------
(* The theorem.                                                            *)

LEMMA Frame ==
  ASSUME TxInv, SoloInv, UNCHANGED <<row, uses, syncVars>>
  PROVE  TxInv' /\ SoloInv'
<1> USE DEF syncVars
<1>1. \A s \in Sync : Stores(s)' <=> Stores(s)
  BY DEF Stores
<1>2. TxInv'
  BY <1>1 DEF TxInv
<1>3. ASSUME NEW s \in Sync, SoloAt(s) PROVE SoloAt(s)'
  <2>1. ASSUME NEW p \in Path \ Tree[found[s]] PROVE GoneInv(s, p)'
    BY <1>3 DEF SoloAt, GoneInv, Used
  <2> QED
    BY <1>1, <1>3, <2>1 DEF SoloAt, Upserted
<1> QED
  BY <1>1, <1>2, <1>3 DEF SoloInv

LEMMA SyncInvStart == ASSUME RepositorySyncAssumption, SyncInit PROVE SyncInv
<1>1. SyncTypeOK
  BY DEF SyncInit, SyncTypeOK, Nothing
<1>2. \A s \in Sync : ~Stores(s) /\ mine[s] = Nothing /\ at[s] = "free"
  BY DEF SyncInit, Stores, InTx
<1> QED
  BY <1>1, <1>2 DEF SyncInit, SyncInv, TxInv, SoloInv, MatchesCommit

LEMMA SyncInvStep ==
  ASSUME RepositorySyncAssumption, SyncInv, [SyncNext]_repositoryVars
  PROVE  SyncInv'
<1>0. SyncTypeOK /\ TxInv /\ SoloInv /\ MatchesCommit
  BY DEF SyncInv
<1> SUFFICES SyncTypeOK' /\ TxInv' /\ SoloInv' /\ MatchesCommit'
  BY DEF SyncInv
<1>1. ASSUME NEW s \in Sync, SyncStep(s), ~CommitSync(s)
      PROVE  SyncTypeOK' /\ TxInv' /\ SoloInv' /\ MatchesCommit'
  <2>1. UNCHANGED <<url, last, row, settled>>
    BY <1>1 DEF SyncStep, ReadRepository, FetchFails, PickVanished, DeleteVanished,
                MarkMissing, TxFails, Begin, Upsert, repoVars
  <2>2. MatchesCommit'
    BY <1>0, <2>1 DEF MatchesCommit, Shown
  <2> QED
    BY <1>0, <1>1, <2>2, UpsertInv, PickInv, DeleteInv, MissingInv, BeginInv, SyncLeaves
       DEF SyncStep
<1>2. ASSUME NEW s \in Sync, CommitSync(s)
      PROVE  SyncTypeOK' /\ TxInv' /\ SoloInv' /\ MatchesCommit'
  BY <1>0, <1>2, CommitInv
<1>3. ASSUME UserStep PROVE SyncTypeOK' /\ TxInv' /\ SoloInv' /\ MatchesCommit'
  <2>1. (settled' /\ url' # None) => UNCHANGED <<url, last, row, settled>>
    BY <1>3 DEF UserStep, EditUrl, DeleteRepository, SaveJob, repoVars
  <2> QED
    BY <1>0, <1>3, <2>1, UserInv DEF MatchesCommit, Shown
<1>4. ASSUME NEW r \in Resolve, ResolveStep(r)
      PROVE  SyncTypeOK' /\ TxInv' /\ SoloInv' /\ MatchesCommit'
  <2>1. SyncTypeOK' /\ UNCHANGED <<repoVars, row, uses, syncVars, settled>>
    BY <1>0, <1>4, ResolveInv
  <2> QED
    BY <1>0, <2>1, Frame DEF repoVars, MatchesCommit, Shown
<1>5. CASE UNCHANGED repositoryVars
  <2>1. SyncTypeOK'
    BY <1>0, <1>5 DEF repositoryVars, repoVars, syncVars, resolveVars, SyncTypeOK
  <2> QED
    BY <1>0, <1>5, <2>1, Frame DEF repositoryVars, repoVars, MatchesCommit, Shown
<1> QED
  BY <1>1, <1>2, <1>3, <1>4, <1>5 DEF SyncNext

LEMMA SyncInvAlways == ASSUME RepositorySyncAssumption PROVE SyncSpec => []SyncInv
<1>1. SyncInit => SyncInv
  BY SyncInvStart
<1>2. SyncInv /\ [SyncNext]_repositoryVars => SyncInv'
  BY SyncInvStep
<1> QED
  BY <1>1, <1>2, PTL DEF SyncSpec

(* The types, and what an undisturbed sync has written of every file, present or gone, *)
(* at each of its statements (sync.ts:94-162).                                         *)
THEOREM SyncCorrect == ASSUME RepositorySyncAssumption PROVE SyncSpec => []SyncInv
BY SyncInvAlways

(* After a sync that nothing overlapped, the repository shows exactly the playbooks of *)
(* the commit it names (sync.ts:51-56), whatever earlier overlaps have left behind.    *)
THEOREM MatchesCommitAlways ==
  ASSUME RepositorySyncAssumption PROVE SyncSpec => []MatchesCommit
<1>1. SyncInv => MatchesCommit
  BY DEF SyncInv
<1> QED
  BY <1>1, SyncInvAlways, PTL

----------------------------------------------------------------------------
(* RowsSurvive: what a transaction holds is its own, whoever else is under  *)
(* way, and what it deletes was not in use when it looked.                  *)

HeldOnce == \A s, t \in Sync : \A p \in Path :
  mine[s][p] # Same /\ mine[t][p] # Same => s = t

WrittenTrue(s, p) ==
  /\ mine[s][p] = None => /\ p \notin Tree[found[s]] /\ at[s] \in {"missing", "commit"}
                          /\ row[p] # None => row[p].id \in victims[s]
  /\ mine[s][p] \notin {Same, None} /\ row[p] # None => mine[s][p].id = row[p].id

KnewNone(s) == at[s] \in {"delete", "missing", "commit"} => \A j \in Job : knew[s][j] \notin victims[s]

LockedInv ==
  /\ HeldOnce
  /\ \A s \in Sync : KnewNone(s) /\ \A p \in Path : WrittenTrue(s, p)

LEMMA LockedStart == ASSUME RepositorySyncAssumption, SyncInit PROVE LockedInv
  BY DEF SyncInit, LockedInv, HeldOnce, KnewNone, WrittenTrue, Nothing, RepositorySyncAssumption

(* A statement of s writes on paths that nobody else holds. *)
LEMMA WriteLocked ==
  ASSUME RepositorySyncAssumption, SyncTypeOK, LockedInv, NEW s \in Sync,
         \A t \in Sync \ {s} : mine'[t] = mine[t],
         UNCHANGED <<row, found, victims, knew>>,
         \A t \in Sync \ {s} : at'[t] = at[t],
         at'[s] = at[s] \/ at[s] \notin {"missing", "commit"} \/ at'[s] = "commit",
         at'[s] \in {"delete", "missing", "commit"} => at[s] \in {"delete", "missing", "commit"},
         \A p \in Path : mine'[s][p] # mine[s][p] =>
           /\ ~Locked(p, s)
           /\ mine'[s][p] = None => /\ p \notin Tree[found[s]]
                                    /\ at'[s] \in {"missing", "commit"}
                                    /\ row[p] # None => row[p].id \in victims[s]
           /\ mine'[s][p] \notin {Same, None} /\ row[p] # None => mine'[s][p].id = row[p].id
  PROVE  LockedInv'
<1>2. HeldOnce'
  BY DEF LockedInv, HeldOnce, Locked
<1>3. ASSUME NEW t \in Sync PROVE KnewNone(t)'
  BY DEF LockedInv, KnewNone
<1>4. ASSUME NEW t \in Sync, NEW p \in Path PROVE WrittenTrue(t, p)'
  BY DEF LockedInv, WrittenTrue
<1> QED
  BY <1>2, <1>3, <1>4 DEF LockedInv

(* A step after which nobody holds more than before. *)
LEMMA LetGoLocked ==
  ASSUME RepositorySyncAssumption, SyncTypeOK, LockedInv, NEW s \in Sync,
         UNCHANGED row, \A t \in Sync \ {s} : at'[t] = at[t] /\ mine'[t] = mine[t] /\ found'[t] = found[t]
                                        /\ victims'[t] = victims[t] /\ knew'[t] = knew[t],
         mine'[s] = Nothing, KnewNone(s)'
  PROVE  LockedInv'
<1>1. \A p \in Path : mine'[s][p] = Same
  BY DEF Nothing
<1>2. HeldOnce'
  BY <1>1 DEF LockedInv, HeldOnce
<1>3. ASSUME NEW t \in Sync PROVE KnewNone(t)' /\ \A p \in Path : WrittenTrue(t, p)'
  BY <1>1 DEF LockedInv, KnewNone, WrittenTrue, RepositorySyncAssumption
<1> QED
  BY <1>2, <1>3 DEF LockedInv

LEMMA LockedSyncStep ==
  ASSUME RepositorySyncAssumption, SyncTypeOK, TxInv, LockedInv, NEW s \in Sync, SyncStep(s)
  PROVE  LockedInv'
<1>1. CASE \/ ReadRepository(s) \/ FetchFails(s) \/ TxFails(s) \/ \E k \in Commit : Begin(s, k)
  <2>1. /\ mine'[s] = Nothing /\ UNCHANGED <<row, victims, knew>>
        /\ \A t \in Sync \ {s} : at'[t] = at[t] /\ mine'[t] = mine[t] /\ found'[t] = found[t]
        /\ at'[s] \in {"over", "rpc", "upsert"}
    <3>1. at[s] \notin InTx => mine[s] = Nothing
      BY DEF TxInv, Stores
    <3> QED
      BY <1>1, <3>1 DEF ReadRepository, FetchFails, TxFails, Begin, Goto, SyncTypeOK, InTx
  <2>2. KnewNone(s)'
    BY <2>1 DEF KnewNone
  <2> QED
    BY <2>1, <2>2, LetGoLocked
<1>2. ASSUME NEW p \in Path, Upsert(s, p) PROVE LockedInv'
  <2> DEFINE new == [id |-> IdFor(p), text |-> found[s], missing |-> FALSE]
             f == [q \in Path |-> new]
  <2>1. new \in Row /\ new \notin {Same, None}
    <3>1. IdFor(p) \in Nat
      BY RowTypes DEF IdFor, SyncTypeOK
    <3>2. found[s] \in Commit
      BY <1>2 DEF Upsert, Write, TxInv, Stores, InTx
    <3>3. new \in Row
      BY <3>1, <3>2 DEF Row
    <3> QED
      BY <3>3, RowTypes
  <2>2. f \in [Path -> Written] /\ \A q \in Path : f[q] = new
    BY <2>1 DEF Written
  <2>3. /\ mine' = [mine EXCEPT ![s] = [q \in Path |-> IF q \in {p} THEN f[q] ELSE mine[s][q]]]
        /\ UNCHANGED <<row, found, victims, knew, at>> /\ ~Locked(p, s)
    BY <1>2 DEF Upsert, Write
  <2>4. row[p] # None => new.id = row[p].id
    BY DEF IdFor
  <2> HIDE DEF new, f
  <2>5. /\ \A q \in {p} : ~Locked(q, s)
        /\ \A q \in {p} : f[q] \notin {Same, None} /\ (row[q] # None => f[q].id = row[q].id)
    BY <2>1, <2>2, <2>3, <2>4
  <2>6. /\ \A q \in Path : mine'[s][q] = IF q \in {p} THEN f[q] ELSE mine[s][q]
        /\ \A t \in Sync \ {s} : mine'[t] = mine[t]
    BY <2>2, <2>3, WrittenTypes DEF SyncTypeOK
  <2>7. \A q \in Path : mine'[s][q] # mine[s][q] =>
          ~Locked(q, s) /\ mine'[s][q] # None /\ (row[q] # None => mine'[s][q].id = row[q].id)
    BY <2>5, <2>6
  <2> QED
    BY <2>3, <2>6, <2>7, WriteLocked
<1>3. CASE PickVanished(s)
  <2>1. /\ UNCHANGED <<row, found, mine>> /\ at[s] = "upsert"
        /\ \A t \in Sync : at'[t] = IF t = s THEN "delete" ELSE at[t]
        /\ \A t \in Sync \ {s} : victims'[t] = victims[t] /\ knew'[t] = knew[t]
        /\ victims'[s] = {row[p].id : p \in {q \in Vanished(s) : ~Used(row[q].id)}}
        /\ knew'[s] = uses
    BY <1>3 DEF PickVanished, Goto, SyncTypeOK
  <2>2. KnewNone(s)'
    BY <2>1 DEF Used, KnewNone
  <2>3. \A p \in Path : mine[s][p] # None
    BY <2>1 DEF LockedInv, WrittenTrue
  <2>4. ASSUME NEW t \in Sync PROVE KnewNone(t)' /\ \A p \in Path : WrittenTrue(t, p)'
    BY <2>1, <2>2, <2>3 DEF LockedInv, KnewNone, WrittenTrue
  <2>5. HeldOnce'
    BY <2>1 DEF LockedInv, HeldOnce
  <2> QED
    BY <2>4, <2>5 DEF LockedInv
<1>4. CASE DeleteVanished(s)
  <2> DEFINE gone == {p \in Vanished(s) : row[p].id \in victims[s]}
             f == [p \in Path |-> None]
  <2>1. f \in [Path -> Written] /\ \A p \in Path : f[p] = None
    BY DEF Written
  <2>2. /\ mine' = [mine EXCEPT ![s] = [q \in Path |-> IF q \in gone THEN f[q] ELSE mine[s][q]]]
        /\ UNCHANGED <<row, found, victims, knew>> /\ \A p \in gone : ~Locked(p, s)
        /\ at[s] = "delete" /\ \A t \in Sync : at'[t] = IF t = s THEN "missing" ELSE at[t]
    BY <1>4 DEF DeleteVanished, Write, Goto, SyncTypeOK
  <2>3. gone \in SUBSET Path /\ \A p \in gone : p \notin Tree[found[s]] /\ row[p].id \in victims[s]
    BY DEF Vanished
  <2> HIDE DEF gone, f
  <2>4. /\ \A q \in Path : mine'[s][q] = IF q \in gone THEN f[q] ELSE mine[s][q]
        /\ \A t \in Sync \ {s} : mine'[t] = mine[t]
    BY <2>1, <2>2, WrittenTypes DEF SyncTypeOK
  <2>5. \A p \in Path : mine'[s][p] # mine[s][p] =>
          /\ ~Locked(p, s) /\ mine'[s][p] = None /\ p \notin Tree[found[s]]
          /\ row[p].id \in victims[s]
    BY <2>1, <2>2, <2>3, <2>4
  <2> QED
    BY <2>2, <2>4, <2>5, WriteLocked
<1>5. CASE MarkMissing(s)
  <2> DEFINE P == Flagged(s)
             flag(p) == [row[p] EXCEPT !.missing = TRUE]
             f == [p \in Path |-> IF p \in P THEN flag(p) ELSE Same]
  <2>1. ASSUME NEW p \in P
        PROVE  p \in Path /\ flag(p) \in Row /\ flag(p) \notin {Same, None} /\ flag(p).id = row[p].id
    <3>1. p \in Path /\ row[p] \in Row
      BY RowTypes DEF Flagged, Vanished
    <3>2. flag(p) \in Row /\ flag(p).id = row[p].id
      BY <3>1 DEF Row
    <3> QED
      BY <3>1, <3>2, RowTypes
  <2>3. /\ mine' = [mine EXCEPT ![s] = [q \in Path |-> IF q \in P THEN f[q] ELSE mine[s][q]]]
        /\ UNCHANGED <<row, found, victims, knew>> /\ \A p \in P : ~Locked(p, s)
        /\ at[s] = "missing" /\ \A t \in Sync : at'[t] = IF t = s THEN "commit" ELSE at[t]
    <3>1. \A q \in Path : q \in P => f[q] = [row[q] EXCEPT !.missing = TRUE]
      OBVIOUS
    <3> QED
      BY <1>5, <3>1 DEF MarkMissing, Write, Goto, SyncTypeOK
  <2> HIDE DEF flag
  <2>2. f \in [Path -> Written]
    BY <2>1 DEF Written
  <2>4. \A p \in P : p \in Path /\ f[p] \notin {Same, None} /\ f[p].id = row[p].id
    BY <2>1
  <2> HIDE DEF P, f
  <2>5. /\ \A q \in Path : mine'[s][q] = IF q \in P THEN f[q] ELSE mine[s][q]
        /\ \A t \in Sync \ {s} : mine'[t] = mine[t]
    BY <2>2, <2>3, WrittenTypes DEF SyncTypeOK
  <2>6. \A p \in Path : mine'[s][p] # mine[s][p] =>
          ~Locked(p, s) /\ mine'[s][p] \notin {Same, None} /\ mine'[s][p].id = row[p].id
    BY <2>3, <2>4, <2>5
  <2> QED
    BY <2>3, <2>5, <2>6, WriteLocked
<1>6. CASE CommitSync(s)
  <2>1. /\ \A p \in Path : row'[p] = IF mine[s][p] = Same THEN row[p] ELSE mine[s][p]
        /\ mine'[s] = Nothing /\ UNCHANGED <<found, victims, knew>>
        /\ \A t \in Sync \ {s} : at'[t] = at[t] /\ mine'[t] = mine[t]
        /\ at'[s] = "over"
    BY <1>6 DEF CommitSync, Goto, SyncTypeOK
  <2>2. \A p \in Path : mine'[s][p] = Same
    BY <2>1 DEF Nothing
  <2>3. HeldOnce'
    BY <2>1, <2>2 DEF LockedInv, HeldOnce
  <2>4. ASSUME NEW t \in Sync, NEW p \in Path PROVE WrittenTrue(t, p)'
    <3>1. CASE t = s
      BY <2>1, <2>2, <3>1 DEF WrittenTrue, RepositorySyncAssumption
    <3>2. CASE t # s
      <4>1. mine[t][p] # Same => row'[p] = row[p]
        BY <2>1, <3>2 DEF LockedInv, HeldOnce
      <4> QED
        BY <2>1, <3>2, <4>1 DEF LockedInv, WrittenTrue, RepositorySyncAssumption
    <3> QED
      BY <3>1, <3>2
  <2>5. ASSUME NEW t \in Sync PROVE KnewNone(t)'
    BY <2>1 DEF LockedInv, KnewNone
  <2> QED
    BY <2>3, <2>4, <2>5 DEF LockedInv
<1> QED
  BY <1>1, <1>2, <1>3, <1>4, <1>5, <1>6 DEF SyncStep

LEMMA LockedStep ==
  ASSUME RepositorySyncAssumption, SyncTypeOK, TxInv, LockedInv, [SyncNext]_repositoryVars
  PROVE  LockedInv'
<1>1. ASSUME UNCHANGED <<at, found, mine, victims, knew>>,
             UNCHANGED row \/ \A s \in Sync : mine[s] = Nothing
      PROVE  LockedInv'
  <2>1. (\A s \in Sync : mine[s] = Nothing) => \A s \in Sync : \A p \in Path : mine[s][p] = Same
    BY DEF Nothing
  <2> QED
    BY <1>1, <2>1 DEF LockedInv, HeldOnce, KnewNone, WrittenTrue, RepositorySyncAssumption
<1>2. CASE UserStep
  BY <1>1, <1>2 DEF UserStep, DeleteRepository, EditUrl, SaveJob, syncVars
<1>3. CASE \E r \in Resolve : ResolveStep(r)
  BY <1>1, <1>3 DEF ResolveStep, ResolveGitSource, ReadPlaybook, syncVars
<1>4. CASE UNCHANGED repositoryVars
  BY <1>1, <1>4 DEF repositoryVars, syncVars
<1> QED
  BY <1>2, <1>3, <1>4, LockedSyncStep DEF SyncNext

LEMMA LockedAlways == ASSUME RepositorySyncAssumption PROVE SyncSpec => [](SyncInv /\ LockedInv)
<1>1. SyncInit => LockedInv
  BY LockedStart
<1>2. SyncInv /\ LockedInv /\ [SyncNext]_repositoryVars => LockedInv'
  BY LockedStep DEF SyncInv
<1> QED
  BY <1>1, <1>2, SyncInvAlways, PTL DEF SyncSpec

IdsSurviveStep == \A p \in Path :
  row[p] # None /\ (row'[p] = None \/ row'[p].id # row[p].id) =>
    \/ url' = None
    \/ \E s \in Sync : /\ at[s] = "commit" /\ at'[s] = "over"
                       /\ p \notin Tree[found[s]]

UsedIsKeptStep == \A s \in Sync : at[s] = "commit" /\ at'[s] = "over" =>
  \A j \in Job : uses[j] # None /\ knew[s][j] = uses[j] => uses'[j] = uses[j]

(* A sync changes the id of no playbook whose file it finds, however many syncs overlap, *)
(* and takes from no job a playbook that the job had when it looked (sync.ts:53, :139).  *)
THEOREM RowsAlwaysSurvive == ASSUME RepositorySyncAssumption PROVE SyncSpec => RowsSurvive
<1>1. ASSUME SyncTypeOK, LockedInv, SyncNext
      PROVE  IdsSurviveStep /\ UsedIsKeptStep
  <2>1. ASSUME NEW s \in Sync, CommitSync(s) PROVE IdsSurviveStep /\ UsedIsKeptStep
    <3>1. /\ \A p \in Path : row'[p] = IF mine[s][p] = Same THEN row[p] ELSE mine[s][p]
          /\ uses' = [j \in Job |-> IF \E p \in Path : /\ mine[s][p] = None /\ row[p] # None
                                                    /\ uses[j] = row[p].id
                                   THEN None ELSE uses[j]]
          /\ at[s] = "commit" /\ at'[s] = "over"
          /\ \A t \in Sync \ {s} : at'[t] = at[t]
      <4>1. at' = [at EXCEPT ![s] = "over"] /\ at \in [Sync -> {"free", "rpc", "over"} \cup InTx]
        BY <1>1, <2>1 DEF CommitSync, Goto, SyncTypeOK
      <4> QED
        BY <2>1, <4>1 DEF CommitSync
    <3>2. ASSUME NEW p \in Path, row[p] # None, row'[p] = None \/ row'[p].id # row[p].id
          PROVE  p \notin Tree[found[s]]
      <4>1. WrittenTrue(s, p)
        BY <1>1 DEF LockedInv
      <4>2. mine[s][p] # Same /\ row'[p] = mine[s][p]
        BY <3>1, <3>2
      <4> QED
        BY <3>2, <4>1, <4>2 DEF WrittenTrue
    <3>5. IdsSurviveStep
      BY <3>1, <3>2 DEF IdsSurviveStep
    <3>3. ASSUME NEW j \in Job, uses[j] # None, knew[s][j] = uses[j] PROVE uses'[j] = uses[j]
      <4>1. ASSUME NEW p \in Path, mine[s][p] = None, row[p] # None PROVE uses[j] # row[p].id
        <5>1. WrittenTrue(s, p) /\ KnewNone(s)
          BY <1>1 DEF LockedInv
        <5> QED
          BY <3>1, <3>3, <4>1, <5>1 DEF WrittenTrue, KnewNone
      <4> QED
        BY <3>1, <4>1
    <3>4. \A t \in Sync : at[t] = "commit" /\ at'[t] = "over" => t = s
      BY <3>1
    <3> QED
      BY <3>3, <3>4, <3>5 DEF UsedIsKeptStep
  <2>2. ASSUME NEW s \in Sync, SyncStep(s), ~CommitSync(s)
        PROVE  UNCHANGED <<row, uses>>
    BY <2>2 DEF SyncStep, ReadRepository, FetchFails, PickVanished, DeleteVanished,
                MarkMissing, TxFails, Begin, Upsert, Write, Goto
  <2>5. ASSUME NEW s \in Sync, SyncStep(s), ~CommitSync(s)
        PROVE  IdsSurviveStep /\ UsedIsKeptStep
    BY <2>2, <2>5 DEF IdsSurviveStep, UsedIsKeptStep
  <2>3. CASE UserStep
    <3>1. UNCHANGED at /\ (UNCHANGED row \/ url' = None)
      BY <2>3 DEF UserStep, DeleteRepository, EditUrl, SaveJob, syncVars
    <3> QED
      BY <3>1 DEF IdsSurviveStep, UsedIsKeptStep
  <2>4. CASE \E r \in Resolve : ResolveStep(r)
    BY <2>4 DEF ResolveStep, ResolveGitSource, ReadPlaybook, IdsSurviveStep, UsedIsKeptStep
  <2> QED
    BY <1>1, <2>1, <2>3, <2>4, <2>5 DEF SyncNext
<1>2. SyncInv /\ LockedInv /\ [SyncNext]_repositoryVars
        => [IdsSurviveStep /\ UsedIsKeptStep]_repositoryVars
  BY <1>1 DEF SyncInv
<1>3. SyncSpec => [][IdsSurviveStep /\ UsedIsKeptStep]_repositoryVars
  BY <1>2, LockedAlways, PTL DEF SyncSpec
<1>4. [][IdsSurviveStep /\ UsedIsKeptStep]_repositoryVars => RowsSurvive
  BY PTL DEF RowsSurvive, IdsSurvive, UsedIsKept, IdsSurviveStep, UsedIsKeptStep
<1> QED
  BY <1>3, <1>4, PTL

----------------------------------------------------------------------------
(* PinnedAsShown: what a resolution has read is still there when it pins.   *)

LookedTrue(r) ==
  /\ step[r] \in {"looked", "pinned"} => saw[r] \in Path \X Row
  /\ step[r] = "looked" /\ ~straddled[r] /\ url # None =>
       row[saw[r][1]] = saw[r][2] /\ ~saw[r][2].missing

PinInv == PinnedAsShown /\ \A r \in Resolve : LookedTrue(r)

LEMMA PinStep ==
  ASSUME RepositorySyncAssumption, SyncInv, PinInv, [SyncNext]_repositoryVars
  PROVE  PinInv'
<1>0. SyncTypeOK /\ MatchesCommit
  BY DEF SyncInv
<1>1. ASSUME UNCHANGED <<step, saw, pinned>>, UNCHANGED <<row, url, straddled>> \/ url' = None
                \/ \A r \in Resolve : straddled'[r],
             UNCHANGED straddled \/ \A r \in Resolve : straddled'[r],
             url' # None => url # None
      PROVE  PinInv'
  BY <1>1 DEF PinInv, PinnedAsShown, LookedTrue
<1>2. ASSUME NEW s \in Sync, SyncStep(s) PROVE PinInv'
  <2>1. CASE CommitSync(s)
    <3>1. \A r \in Resolve : straddled'[r]
      BY <2>1 DEF CommitSync
    <3> QED
      BY <1>1, <2>1, <3>1 DEF CommitSync, resolveVars
  <2>2. CASE ~CommitSync(s)
    <3>1. UNCHANGED <<step, saw, pinned, row, url, straddled>>
      BY <1>2, <2>2 DEF SyncStep, ReadRepository, FetchFails, PickVanished,
            DeleteVanished, MarkMissing, TxFails, Begin, Upsert, Write, Goto, resolveVars, repoVars
    <3> QED
      BY <1>1, <3>1
  <2> QED
    BY <2>1, <2>2
<1>3. ASSUME UserStep PROVE PinInv'
  <2>1. UNCHANGED <<step, saw, pinned, straddled>> /\ (UNCHANGED row \/ url' = None)
        /\ (url' # None => url # None)
    BY <1>3 DEF UserStep, DeleteRepository, EditUrl, SaveJob, resolveVars, repoVars
  <2> QED
    BY <2>1 DEF PinInv, PinnedAsShown, LookedTrue
<1>4. ASSUME NEW r \in Resolve, ResolveGitSource(r) PROVE PinInv'
  <2>1. \A q \in Resolve \ {r} : /\ step'[q] = step[q] /\ straddled'[q] = straddled[q]
                                 /\ pinned'[q] = pinned[q]
    BY <1>0, <1>4 DEF ResolveGitSource, SyncTypeOK
  <2>2. UNCHANGED <<row, url, saw>> /\ saw[r] \in Path \X Row
    BY <1>4 DEF ResolveGitSource, repoVars, PinInv, LookedTrue
  <2>3. step'[r] # "looked" /\ (step'[r] = "pinned" => pinned'[r] = <<url, last>> /\ url # None)
        /\ (~straddled'[r] => ~straddled[r] /\ settled)
    BY <1>0, <1>4 DEF ResolveGitSource, SyncTypeOK
  <2>4. ASSUME step'[r] = "pinned", ~straddled'[r]
        PROVE  /\ last \in Offers[url] /\ saw[r][1] \in Tree[last]
               /\ saw[r][2].text = last
    <3>1. /\ row[saw[r][1]] = saw[r][2] /\ ~saw[r][2].missing
          /\ saw[r][1] \in Path /\ saw[r][2] \in Row
      BY <1>4, <2>2, <2>3, <2>4 DEF ResolveGitSource, PinInv, LookedTrue
    <3>2. saw[r][1] \in Shown
      BY <1>0, <3>1, RowTypes DEF Shown
    <3> QED
      BY <1>0, <2>3, <2>4, <3>1, <3>2 DEF MatchesCommit
  <2> QED
    BY <2>1, <2>2, <2>3, <2>4 DEF PinInv, PinnedAsShown, LookedTrue
<1>5. ASSUME NEW r \in Resolve, NEW p \in Path, ReadPlaybook(r, p) PROVE PinInv'
  <2>1. /\ \A q \in Resolve \ {r} : /\ step'[q] = step[q] /\ straddled'[q] = straddled[q]
                                    /\ saw'[q] = saw[q]
        /\ saw'[r] = <<p, row[p]>> /\ step'[r] = (IF row[p].missing THEN "refused" ELSE "looked")
        /\ UNCHANGED <<row, url, pinned>> /\ row[p] # None
    BY <1>0, <1>5 DEF ReadPlaybook, SyncTypeOK, repoVars
  <2>2. row[p] \in Row
    BY <1>0, <2>1, RowTypes
  <2>3. saw'[r] \in Path \X Row /\ saw'[r][1] = p /\ saw'[r][2] = row[p]
    BY <2>1, <2>2
  <2> QED
    BY <2>1, <2>3 DEF PinInv, PinnedAsShown, LookedTrue
<1>6. CASE UNCHANGED repositoryVars
  BY <1>6 DEF repositoryVars, repoVars, resolveVars, PinInv, PinnedAsShown, LookedTrue
<1> QED
  BY <1>2, <1>3, <1>4, <1>5, <1>6 DEF SyncNext, ResolveStep

(* A run whose resolution no sync was stored around executes the file that is shown, at *)
(* the commit shown, from the URL it came from (resolve.ts:223-227).                    *)
THEOREM PinnedAlwaysAsShown ==
  ASSUME RepositorySyncAssumption PROVE SyncSpec => []PinnedAsShown
<1>1. SyncInit => PinInv
  BY DEF SyncInit, PinInv, PinnedAsShown, LookedTrue
<1>2. SyncInv /\ PinInv /\ [SyncNext]_repositoryVars => PinInv'
  BY PinStep
<1>3. PinInv => PinnedAsShown
  BY DEF PinInv
<1> QED
  BY <1>1, <1>2, <1>3, SyncInvAlways, PTL DEF SyncSpec
=============================================================================
