----------------------------- MODULE RequestReply -----------------------------
(***************************************************************************)
(* What the service promises to the cloud side, free of parsing, AT        *)
(* commands and devices: messages are taken in arrival order, each is      *)
(* answered at most once, with an answer that fits it, and nothing is      *)
(* answered that did not arrive.  A message may stay unanswered (it was no *)
(* request, or the answer was lost), and a connection loss takes any       *)
(* number of waiting messages away from the end of the queue.              *)
(***************************************************************************)
EXTENDS Integers, Sequences, TLAPS

CONSTANTS
    MaxMsgs,    \* bound: messages are numbered 1..MaxMsgs in arrival order
    Inputs,     \* what a message can say
    Answers,    \* what an answer can say
    AnswersTo   \* for each input, the answers that fit it

\* What the theorems below assume of the constants.
ConstantsFit ==
    /\ MaxMsgs \in Nat
    /\ AnswersTo \in [Inputs -> SUBSET Answers]

VARIABLES
    queue,      \* messages that arrived and are not settled yet
    replies,    \* the answers given, in order
    arrivals    \* how many messages arrived

vars == <<queue, replies, arrivals>>

Messages == [tid : 1..MaxMsgs, in : Inputs]
Replies == [tid : 1..MaxMsgs, answer : Answers]

Init == queue = <<>> /\ replies = <<>> /\ arrivals = 0

Arrive ==
    /\ arrivals < MaxMsgs
    /\ arrivals' = arrivals + 1
    /\ \E in \in Inputs : queue' = Append(queue, [tid |-> arrivals + 1, in |-> in])
    /\ UNCHANGED replies

Answer ==
    /\ queue # <<>>
    /\ \E a \in AnswersTo[Head(queue).in] :
          replies' = Append(replies, [tid |-> Head(queue).tid, answer |-> a])
    /\ queue' = Tail(queue)
    /\ UNCHANGED arrivals

Ignore ==
    /\ queue # <<>>
    /\ queue' = Tail(queue)
    /\ UNCHANGED <<replies, arrivals>>

Lose ==
    /\ \E n \in 0..Len(queue) : queue' = SubSeq(queue, 1, n)
    /\ UNCHANGED <<replies, arrivals>>

Next == Arrive \/ Answer \/ Ignore \/ Lose

Spec == Init /\ [][Next]_vars

-----------------------------------------------------------------------------
TypeOK ==
    /\ queue \in Seq(Messages)
    /\ replies \in Seq(Replies)
    /\ arrivals \in 0..MaxMsgs

(* No message is answered twice, and answers leave in arrival order:       *)
(* recv_handlel_bk is called for one message after the other and finishes  *)
(* each before it returns (main.c:91-126).                                 *)
InOrderOnce ==
    \A i, j \in 1..Len(replies) : i < j => replies[i].tid < replies[j].tid

-----------------------------------------------------------------------------
(* The strengthening that is inductive: numbers grow along the queue too,  *)
(* every answered number is below every waiting one, none is above         *)
(* arrivals.                                                               *)
Growing(s) == \A i, j \in 1..Len(s) : i < j => s[i].tid < s[j].tid
OrderInv ==
    /\ Growing(replies)
    /\ Growing(queue)
    /\ \A i \in 1..Len(replies), j \in 1..Len(queue) : replies[i].tid < queue[j].tid
    /\ \A i \in 1..Len(replies) : replies[i].tid <= arrivals
    /\ \A j \in 1..Len(queue) : queue[j].tid <= arrivals

LEMMA OrderStep == ConstantsFit /\ TypeOK /\ OrderInv /\ [Next]_vars => TypeOK' /\ OrderInv'
<1> SUFFICES ASSUME ConstantsFit, TypeOK, OrderInv, [Next]_vars PROVE TypeOK' /\ OrderInv'
  OBVIOUS
<1>1. CASE Arrive
  <2>1. PICK in \in Inputs : queue' = Append(queue, [tid |-> arrivals + 1, in |-> in])
    BY <1>1 DEF Arrive
  <2>2. [tid |-> arrivals + 1, in |-> in] \in Messages
    BY <1>1 DEF ConstantsFit, Arrive, TypeOK, Messages
  <2>3. TypeOK'
    BY <1>1, <2>1, <2>2 DEF ConstantsFit, Arrive, TypeOK
  <2>4. /\ Len(queue') = Len(queue) + 1 /\ Len(queue) \in Nat
        /\ \A i \in 1..Len(queue) : queue'[i] = queue[i]
        /\ queue'[Len(queue) + 1].tid = arrivals + 1
        /\ replies' = replies /\ arrivals' = arrivals + 1
    BY <1>1, <2>1, <2>2 DEF Arrive, TypeOK
  <2>5. /\ \A i \in 1..Len(queue) : queue[i].tid \in Int
        /\ \A i \in 1..Len(replies) : replies[i].tid \in Int
        /\ arrivals \in Int
    <3>1. /\ \A i \in 1..Len(queue) : queue[i] \in Messages
          /\ \A i \in 1..Len(replies) : replies[i] \in Replies
      BY DEF TypeOK
    <3> QED
      BY <3>1 DEF ConstantsFit, TypeOK, Messages, Replies
  <2>6. ASSUME NEW i \in 1..Len(queue'), NEW j \in 1..Len(queue'), i < j
        PROVE  queue'[i].tid < queue'[j].tid
    <3>1. i \in 1..Len(queue) /\ queue'[i] = queue[i] /\ queue[i].tid <= arrivals
      BY <2>4, <2>6 DEF OrderInv
    <3>2. CASE j \in 1..Len(queue)
      BY <2>4, <2>6, <3>1, <3>2 DEF OrderInv, Growing
    <3>3. CASE j = Len(queue) + 1
      BY <2>4, <2>5, <3>1, <3>3
    <3> QED
      BY <2>4, <3>2, <3>3
  <2>7. /\ Growing(replies')
        /\ \A i \in 1..Len(replies') : replies'[i].tid <= arrivals'
    BY <2>4, <2>5 DEF OrderInv, Growing
  <2>8. \A j \in 1..Len(queue') : queue'[j].tid <= arrivals'
    BY <2>4, <2>5 DEF OrderInv
  <2>9. ASSUME NEW i \in 1..Len(replies'), NEW j \in 1..Len(queue')
        PROVE  replies'[i].tid < queue'[j].tid
    <3>1. CASE j \in 1..Len(queue)
      BY <2>4, <3>1 DEF OrderInv
    <3>2. CASE j = Len(queue) + 1
      BY <2>4, <2>5, <3>2 DEF OrderInv
    <3> QED
      BY <2>4, <3>1, <3>2
  <2> QED
    BY <2>3, <2>6, <2>7, <2>8, <2>9 DEF OrderInv, Growing
<1>2. CASE Answer
  <2>1. PICK a \in AnswersTo[Head(queue).in] :
           replies' = Append(replies, [tid |-> Head(queue).tid, answer |-> a])
    BY <1>2 DEF Answer
  <2>2. /\ queue \in Seq(Messages) /\ queue # <<>> /\ queue' = Tail(queue) /\ arrivals' = arrivals
        /\ Head(queue) \in Messages /\ Head(queue) = queue[1]
    BY <1>2 DEF Answer, TypeOK
  <2>3. [tid |-> Head(queue).tid, answer |-> a] \in Replies
    BY <2>1, <2>2 DEF ConstantsFit, Messages, Replies
  <2>4. TypeOK'
    BY <2>1, <2>2, <2>3 DEF TypeOK
  <2>5. /\ Len(queue') = Len(queue) - 1 /\ Len(queue) \in Nat /\ Len(queue) > 0
        /\ \A i \in 1..Len(queue') : queue'[i] = queue[i + 1] /\ i + 1 \in 1..Len(queue)
    BY <2>2
  <2>6. /\ Len(replies') = Len(replies) + 1 /\ Len(replies) \in Nat
        /\ \A i \in 1..Len(replies) : replies'[i] = replies[i]
        /\ replies'[Len(replies) + 1].tid = queue[1].tid
    BY <2>1, <2>2, <2>3 DEF TypeOK
  <2>7. ASSUME NEW i \in 1..Len(replies'), NEW j \in 1..Len(replies'), i < j
        PROVE  replies'[i].tid < replies'[j].tid
    <3>1. i \in 1..Len(replies) /\ replies'[i] = replies[i]
      BY <2>6, <2>7
    <3>2. CASE j \in 1..Len(replies)
      BY <2>6, <2>7, <3>1, <3>2 DEF OrderInv, Growing
    <3>3. CASE j = Len(replies) + 1
      BY <2>5, <2>6, <3>1, <3>3 DEF OrderInv
    <3> QED
      BY <2>6, <3>2, <3>3
  <2>8. ASSUME NEW i \in 1..Len(queue'), NEW j \in 1..Len(queue'), i < j
        PROVE  queue'[i].tid < queue'[j].tid
    <3>1. /\ queue'[i] = queue[i + 1] /\ i + 1 \in 1..Len(queue)
          /\ queue'[j] = queue[j + 1] /\ j + 1 \in 1..Len(queue)
          /\ i + 1 < j + 1
      BY <2>5, <2>8
    <3> QED
      BY <3>1 DEF OrderInv, Growing
  <2>9. /\ \A i \in 1..Len(replies') : replies'[i].tid <= arrivals'
        /\ \A j \in 1..Len(queue') : queue'[j].tid <= arrivals'
    <3>1. \A j \in 1..Len(queue') : queue'[j].tid <= arrivals'
      BY <2>2, <2>5 DEF OrderInv
    <3>2. queue[1].tid <= arrivals
      BY <2>5 DEF OrderInv
    <3>3. ASSUME NEW i \in 1..Len(replies') PROVE replies'[i].tid <= arrivals'
      <4>1. CASE i \in 1..Len(replies)
        BY <2>2, <2>6, <4>1 DEF OrderInv
      <4>2. CASE i = Len(replies) + 1
        BY <2>2, <2>6, <3>2, <4>2
      <4> QED
        BY <2>6, <4>1, <4>2
    <3> QED
      BY <3>1, <3>3
  <2>10. ASSUME NEW i \in 1..Len(replies'), NEW j \in 1..Len(queue')
         PROVE  replies'[i].tid < queue'[j].tid
    <3>1. CASE i \in 1..Len(replies)
      BY <2>5, <2>6, <3>1 DEF OrderInv
    <3>2. CASE i = Len(replies) + 1
      <4>1. queue'[j] = queue[j + 1] /\ j + 1 \in 1..Len(queue) /\ 1 < j + 1 /\ 1 \in 1..Len(queue)
        BY <2>5
      <4> QED
        BY <2>6, <3>2, <4>1 DEF OrderInv, Growing
    <3> QED
      BY <2>6, <3>1, <3>2
  <2> QED
    BY <2>4, <2>7, <2>8, <2>9, <2>10 DEF OrderInv, Growing
<1>3. CASE Ignore
  BY <1>3 DEF Ignore, TypeOK, OrderInv, Growing
<1>4. CASE Lose
  <2>1. PICK n \in 0..Len(queue) : queue' = SubSeq(queue, 1, n)
    BY <1>4 DEF Lose
  <2>2. /\ queue' \in Seq(Messages) /\ Len(queue') = n
        /\ \A i \in 1..n : queue'[i] = queue[i] /\ i \in 1..Len(queue)
    BY <2>1 DEF TypeOK
  <2> QED
    BY <1>4, <2>2 DEF Lose, TypeOK, OrderInv, Growing
<1>5. CASE UNCHANGED vars
  BY <1>5 DEF vars, TypeOK, OrderInv, Growing
<1> QED
  BY <1>1, <1>2, <1>3, <1>4, <1>5 DEF Next

(* The abstract service answers in arrival order and nothing twice.        *)
THEOREM AbstractInOrder == ASSUME ConstantsFit PROVE Spec => []InOrderOnce
<1>1. Init => TypeOK /\ OrderInv
  BY DEF ConstantsFit, Init, TypeOK, OrderInv, Growing
<1>2. TypeOK /\ OrderInv => InOrderOnce
  BY DEF OrderInv, Growing, InOrderOnce
<1> QED
  BY <1>1, <1>2, OrderStep, PTL DEF Spec
=============================================================================
