---------------------------- MODULE DiffuseProofs ----------------------------
(***************************************************************************)
(* Proofs about Diffuse, for all lengths, steps and numbers of cards, and  *)
(* however often a step is halved.                                         *)
(***************************************************************************)
EXTENDS Diffuse, Descent, SequenceTheorems, TLAPS

CallRecord == [del_df : Nat \ {0}, compute : BOOLEAN, tsave : Nat,
               half : {"none", "first", "second"}]

(* The step a call was made for, before it was halved.                     *)
Whole(call) == IF call.half = "none" THEN call.del_df ELSE 2 * call.del_df

(***************************************************************************)
(* The inductive invariant. The cards: only the first one needs the        *)
(* initial step, and no step is empty.                                     *)
(***************************************************************************)
CardsInv ==
    /\ cards > 0 => del_df > 0
    /\ init_time = 0 => cards > 0
    /\ pc # "idle" => cards > 0
    /\ pc \in {"tr", "bdf", "back"} => t < time

(* The stack: every call was made for the half its caller has halved its   *)
(* step to, the first one for the step of the loop, and that one holds the *)
(* total time the step started at.                                         *)
StackInv ==
    /\ pc \in {"idle", "loop"} => calls = << >>
    /\ \A i \in 2 .. Len(calls) : calls[i].half # "none"
    /\ \A i \in 1 .. Len(calls) - 1 : Whole(calls[i]) = calls[i + 1].del_df
    /\ calls # << >> =>
          /\ Whole(calls[Len(calls)]) = del_df
          /\ calls[Len(calls)].tsave = base + t
    /\ calls = << >> => total = base + t

(* The times the calls end at, of which the stack holds the differences: a *)
(* call for a first half ends where the second one starts.                 *)
Ends(e) ==
    /\ e \in [1 .. Len(calls) -> Int]
    /\ calls # << >> => e[Len(calls)] = t + del_df
    /\ \A i \in 1 .. Len(calls) - 1 :
          e[i] = e[i + 1] - (IF calls[i + 1].half = "first" THEN calls[i + 1].del_df ELSE 0)
    /\ \A i \in 1 .. Len(calls) :
          /\ t <= e[i] - Whole(calls[i]) /\ e[i] <= t + del_df
          /\ calls[i].compute <=> e[i] = t + del_df
    /\ sol = IF calls = << >> THEN (IF pc = "back" THEN t + del_df ELSE t)
             ELSE e[1] - (IF calls[1].half = "second" THEN 0 ELSE calls[1].del_df)

(* Without oxide the points stay where they are.                           *)
GridInv ==
    grid = IF oxidizing THEN sol + (IF pc = "bdf" THEN Stage(Piece) ELSE 0) ELSE 0

IInv == TypeOK /\ CardsInv /\ StackInv /\ (\E e : Ends(e)) /\ GridInv

(***************************************************************************)
(* Facts about the operators the stack is built with.                      *)
(***************************************************************************)
(* The stack q is the stack s, its last call replaced by h, with c on top. *)
OnTop(q, s, c, h) ==
    /\ q \in Seq(CallRecord) /\ q # << >> /\ Len(q) = Len(s) + 1
    /\ q[1] = c /\ Head(q) = c /\ q[2] = h
    /\ \A i \in 2 .. Len(s) : q[i + 1] = s[i]

LEMMA Pushed ==
    ASSUME NEW s \in Seq(CallRecord), s # << >>, NEW c \in CallRecord, NEW h \in CallRecord,
           NEW q, q = <<c, h>> \o Tail(s)
    PROVE  OnTop(q, s, c, h)
<1> DEFINE S == CallRecord
<1> HIDE DEF S
<1>0. s \in Seq(S) /\ c \in S /\ h \in S
  BY DEF S
<1>1. /\ Tail(s) \in Seq(S) /\ Len(Tail(s)) = Len(s) - 1 /\ Len(s) \in Nat \ {0}
      /\ \A i \in 1 .. Len(s) - 1 : Tail(s)[i] = s[i + 1]
  BY <1>0, HeadTailProperties, EmptySeq, LenProperties
<1>2. <<c, h>> \in Seq(S) /\ Len(<<c, h>>) = 2
  BY <1>0
<1>3. /\ q \in Seq(S) /\ Len(q) = 2 + (Len(s) - 1)
      /\ \A i \in 1 .. Len(q) : q[i] = IF i <= 2 THEN <<c, h>>[i] ELSE Tail(s)[i - 2]
  BY <1>1, <1>2, ConcatProperties
<1>4. Len(q) = Len(s) + 1 /\ q # << >> /\ q[1] = c /\ q[2] = h
  BY <1>1, <1>3
<1>5. \A i \in 2 .. Len(s) : q[i + 1] = s[i]
  <2> TAKE i \in 2 .. Len(s)
  <2>1. q[i + 1] = Tail(s)[i - 1]
    BY <1>1, <1>3
  <2>2. Tail(s)[i - 1] = s[(i - 1) + 1]
    BY <1>1
  <2> QED
    BY <1>1, <2>1, <2>2
<1>6. Head(q) = q[1]
  BY <1>3, <1>4, HeadTailProperties
<1> QED
  BY <1>3, <1>4, <1>5, <1>6 DEF OnTop, S

LEMMA Popped ==
    ASSUME NEW S, NEW s \in Seq(S), s # << >>, NEW q, q = Tail(s)
    PROVE  /\ q \in Seq(S) /\ Len(q) = Len(s) - 1 /\ Len(q) \in Nat
           /\ (q = << >> <=> Len(s) = 1)
           /\ q # << >> => Head(q) = s[2]
           /\ \A i \in 1 .. Len(s) - 1 : q[i] = s[i + 1]
<1>1. /\ q \in Seq(S) /\ Len(q) = Len(s) - 1 /\ Len(s) \in Nat \ {0}
      /\ \A i \in 1 .. Len(s) - 1 : q[i] = s[i + 1]
  BY HeadTailProperties, EmptySeq, LenProperties
<1>2. q = << >> <=> Len(q) = 0
  BY <1>1, EmptySeq
<1>3. q # << >> => Head(q) = q[1]
  BY <1>1, HeadTailProperties
<1> QED
  BY <1>1, <1>2, <1>3

LEMMA Single ==
    ASSUME NEW S, NEW c \in S, NEW q, q = <<c>>
    PROVE  q \in Seq(S) /\ q # << >> /\ Len(q) = 1 /\ q[1] = c /\ Head(q) = c
  OBVIOUS

LEMMA First ==
    ASSUME NEW S, NEW s \in Seq(S), s # << >>
    PROVE  Head(s) = s[1] /\ Head(s) \in S /\ Len(s) \in Nat \ {0}
  BY HeadTailProperties, EmptySeq, LenProperties

LEMMA HalvedPiece ==
    ASSUME NEW d \in Nat \ {0}, CanFail(d)
    PROVE  d \div 2 \in Nat \ {0} /\ 2 * (d \div 2) = d
  BY DEF CanFail

LEMMA StageType == ASSUME NEW d \in Nat PROVE Stage(d) \in Nat /\ Stage(d) <= d
  BY DEF Stage

LEMMA PositiveSteps ==
    \A s \in Lengths \cup Steps \cup {InitTime, OneSecond} : s \in Nat \ {0}
  BY StepsAssumption

(***************************************************************************)
(* A new call on top of one that has been halved, or begins its second     *)
(* half, keeps the stack as the invariant has it ...                       *)
(***************************************************************************)
LEMMA PushKeeps ==
    ASSUME TypeOK, StackInv, calls # << >>,
           NEW c \in CallRecord, NEW h \in CallRecord, OnTop(calls', calls, c, h),
           c.half = "none", c.del_df = h.del_df,
           h.half # "none", Whole(h) = Whole(calls[1]), h.tsave = calls[1].tsave,
           pc' = "tr", UNCHANGED <<t, del_df, base>>
    PROVE  /\ calls' \in Seq(CallRecord) /\ calls' # << >> /\ Head(calls') = c
           /\ StackInv'
<1> DEFINE n == Len(calls)
<1>1. calls \in Seq(CallRecord) /\ n \in Nat \ {0}
  BY First DEF TypeOK, CallRecord
<1>2. /\ calls' \in Seq(CallRecord) /\ calls' # << >> /\ Len(calls') = n + 1
      /\ calls'[1] = c /\ Head(calls') = c /\ calls'[2] = h
      /\ \A i \in 2 .. n : calls'[i + 1] = calls[i]
  BY DEF OnTop
<1> HIDE DEF n
<1>3. \A i \in 3 .. n + 1 : i - 1 \in 2 .. n /\ calls'[i] = calls[i - 1]
  <2> TAKE i \in 3 .. n + 1
  <2>1. i - 1 \in 2 .. n /\ (i - 1) + 1 = i
    BY <1>1
  <2> QED
    BY <1>2, <2>1
<1>4. \A i \in 2 .. n + 1 : calls'[i].half # "none"
  <2> TAKE i \in 2 .. n + 1
  <2>1. CASE i = 2
    BY <1>2, <2>1
  <2>2. CASE i # 2
    BY <1>1, <1>3, <2>2 DEF StackInv, n
  <2> QED
    BY <2>1, <2>2
<1>5. \A i \in 1 .. n : Whole(calls'[i]) = calls'[i + 1].del_df
  <2> TAKE i \in 1 .. n
  <2>1. CASE i = 1
    BY <1>2, <2>1 DEF Whole
  <2>2. CASE i = 2
    <3>1. calls'[i + 1] = calls[2] /\ calls'[i] = h /\ 1 \in 1 .. n - 1
      BY <1>1, <1>2, <2>2
    <3>2. Whole(calls[1]) = calls[1 + 1].del_df
      BY <3>1 DEF StackInv, n
    <3> QED
      BY <3>1, <3>2
  <2>3. CASE i > 2
    <3>1. calls'[i + 1] = calls[i] /\ calls'[i] = calls[i - 1] /\ i - 1 \in 1 .. n - 1
          /\ (i - 1) + 1 = i
      BY <1>1, <1>2, <1>3, <2>3
    <3>2. Whole(calls[i - 1]) = calls[(i - 1) + 1].del_df
      BY <3>1 DEF StackInv, n
    <3> QED
      BY <3>1, <3>2
  <2> QED
    BY <1>1, <2>1, <2>2, <2>3
<1>6. Whole(calls'[n + 1]) = del_df /\ calls'[n + 1].tsave = base + t
  <2>1. Whole(calls[n]) = del_df /\ calls[n].tsave = base + t
    BY DEF StackInv, n
  <2>2. CASE n = 1
    BY <1>2, <2>1, <2>2
  <2>3. CASE n > 1
    <3>1. calls'[n + 1] = calls[n]
      BY <1>1, <1>2, <2>3
    <3> QED
      BY <2>1, <3>1
  <2> QED
    BY <1>1, <2>2, <2>3
<1>7. Len(calls') - 1 = n
  BY <1>1, <1>2
<1>8. \A i \in 2 .. Len(calls') : calls'[i].half # "none"
  BY <1>2, <1>4
<1>9. \A i \in 1 .. Len(calls') - 1 : Whole(calls'[i]) = calls'[i + 1].del_df
  BY <1>5, <1>7
<1>10. Whole(calls'[Len(calls')]) = del_df' /\ calls'[Len(calls')].tsave = base' + t'
  BY <1>2, <1>6
<1> QED
  BY <1>2, <1>8, <1>9, <1>10 DEF StackInv, Whole

(* ... and the times the calls end at.                                     *)
LEMMA PushEnds ==
    ASSUME TypeOK, StackInv, calls # << >>, NEW e, Ends(e),
           NEW c \in CallRecord, NEW h \in CallRecord, OnTop(calls', calls, c, h),
           c.half = "none", c.del_df = h.del_df,
           h.half # "none", Whole(h) = Whole(calls[1]), h.compute = calls[1].compute,
           c.compute <=> h.half = "second" /\ h.compute,
           sol' = e[1] - (IF h.half = "first" THEN 2 * c.del_df ELSE c.del_df),
           UNCHANGED <<t, del_df>>
    PROVE  (\E f : Ends(f))'
<1> DEFINE n == Len(calls)
<1>1. calls \in Seq(CallRecord) /\ n \in Nat \ {0} /\ t \in Nat /\ del_df \in Nat
  BY First DEF TypeOK, CallRecord
<1>2. /\ calls' # << >> /\ Len(calls') = n + 1
      /\ calls'[1] = c /\ calls'[2] = h
      /\ \A i \in 2 .. n : calls'[i + 1] = calls[i]
  BY DEF OnTop
<1> HIDE DEF n
<1>3. /\ e \in [1 .. n -> Int] /\ e[n] = t + del_df
      /\ \A i \in 1 .. n - 1 :
            e[i] = e[i + 1] - (IF calls[i + 1].half = "first" THEN calls[i + 1].del_df ELSE 0)
      /\ \A i \in 1 .. n :
            /\ t <= e[i] - Whole(calls[i]) /\ e[i] <= t + del_df
            /\ calls[i].compute <=> e[i] = t + del_df
  BY DEF Ends, n
<1> DEFINE d == IF h.half = "first" THEN c.del_df ELSE 0
<1>4. PICK f : f = [i \in 1 .. n + 1 |-> IF i = 1 THEN e[1] - d ELSE e[i - 1]]
  OBVIOUS
<1>5. /\ c.del_df \in Nat \ {0} /\ h.del_df \in Nat \ {0} /\ d \in Nat /\ Whole(c) = c.del_df
      /\ Whole(h) = 2 * c.del_df /\ d <= c.del_df
  BY DEF CallRecord, Whole
<1>6. e[1] \in Int /\ \A i \in 2 .. n + 1 : i - 1 \in 1 .. n /\ e[i - 1] \in Int
  BY <1>1, <1>3
<1>7. f \in [1 .. n + 1 -> Int] /\ f[1] = e[1] - d /\ \A i \in 1 .. n : f[i + 1] = e[i]
  <2>1. f \in [1 .. n + 1 -> Int]
    BY <1>1, <1>4, <1>5, <1>6
  <2>2. f[1] = e[1] - d
    BY <1>1, <1>4
  <2>3. \A i \in 1 .. n : f[i + 1] = e[i]
    BY <1>1, <1>4
  <2> QED
    BY <2>1, <2>2, <2>3
<1> HIDE DEF d
<1>8. f[n + 1] = t + del_df
  BY <1>1, <1>3, <1>7
<1>9. \A i \in 1 .. n :
         f[i] = f[i + 1] - (IF calls'[i + 1].half = "first" THEN calls'[i + 1].del_df ELSE 0)
  <2> TAKE i \in 1 .. n
  <2>1. CASE i = 1
    <3>1. calls'[i + 1] = h /\ f[i + 1] = e[1] /\ f[i] = e[1] - d
      BY <1>1, <1>2, <1>7, <2>1
    <3> QED
      BY <3>1 DEF d
  <2>2. CASE i > 1
    <3>1. i - 1 \in 1 .. n - 1 /\ (i - 1) + 1 = i /\ i \in 2 .. n
      BY <1>1, <2>2
    <3>2. f[i + 1] = e[i] /\ calls'[i + 1] = calls[i]
      BY <1>2, <1>7, <3>1
    <3>3. f[i] = e[i - 1]
      BY <1>1, <1>7, <3>1
    <3> QED
      BY <1>3, <3>1, <3>2, <3>3
  <2> QED
    BY <1>1, <2>1, <2>2
<1>10. \A i \in 1 .. n + 1 :
          /\ t <= f[i] - Whole(calls'[i]) /\ f[i] <= t + del_df
          /\ calls'[i].compute <=> f[i] = t + del_df
  <2>0. /\ t <= e[1] - Whole(h) /\ e[1] <= t + del_df
        /\ h.compute <=> e[1] = t + del_df
    BY <1>1, <1>3
  <2> TAKE i \in 1 .. n + 1
  <2>1. CASE i = 1
    <3>1. /\ t <= e[1] - d - c.del_df /\ e[1] - d <= t + del_df
          /\ c.compute <=> e[1] - d = t + del_df
      <4>1. CASE h.half = "first"
        BY <1>1, <1>5, <1>6, <2>0, <4>1 DEF d
      <4>2. CASE h.half = "second"
        BY <1>1, <1>5, <1>6, <2>0, <4>2 DEF d
      <4> QED
        BY <4>1, <4>2 DEF CallRecord
    <3> QED
      BY <1>2, <1>5, <1>7, <2>1, <3>1
  <2>2. CASE i = 2
    <3>1. calls'[i] = h /\ f[i] = e[1]
      BY <1>1, <1>2, <1>7, <2>2
    <3> QED
      BY <2>0, <3>1
  <2>3. CASE i > 2
    <3>1. i - 1 \in 2 .. n /\ (i - 1) + 1 = i
      BY <1>1, <2>3
    <3>2. f[i] = e[i - 1] /\ calls'[i] = calls[i - 1]
      BY <1>2, <1>7, <3>1
    <3> QED
      BY <1>1, <1>3, <3>1, <3>2
  <2> QED
    BY <1>1, <2>1, <2>2, <2>3
<1>11. sol' = f[1] - c.del_df
  BY <1>5, <1>6, <1>7 DEF d
<1>12. Len(calls') - 1 = n
  BY <1>1, <1>2
<1>13. /\ f \in [1 .. Len(calls') -> Int] /\ f[Len(calls')] = t' + del_df'
       /\ sol' = f[1] - (IF calls'[1].half = "second" THEN 0 ELSE calls'[1].del_df)
  BY <1>2, <1>7, <1>8, <1>11
<1>14. \A i \in 1 .. Len(calls') - 1 :
          f[i] = f[i + 1] - (IF calls'[i + 1].half = "first" THEN calls'[i + 1].del_df ELSE 0)
  BY <1>9, <1>12
<1>15. \A i \in 1 .. Len(calls') :
          /\ t' <= f[i] - Whole(calls'[i]) /\ f[i] <= t' + del_df'
          /\ calls'[i].compute <=> f[i] = t' + del_df'
  BY <1>2, <1>10
<1>16. Ends(f)'
  BY <1>2, <1>13, <1>14, <1>15 DEF Ends, Whole
<1> QED
  BY <1>16

(* A call that returns leaves the rest of the stack, at the end of the     *)
(* half its caller was in.                                                 *)
LEMMA PopKeeps ==
    ASSUME TypeOK, StackInv, calls # << >>, calls' = Tail(calls), total' = calls[1].tsave,
           pc' = "back", UNCHANGED <<t, del_df, base>>
    PROVE  /\ calls' \in Seq(CallRecord)
           /\ calls' # << >> => Head(calls').half # "none"
           /\ StackInv'
<1> DEFINE n == Len(calls)
<1>1. calls \in Seq(CallRecord) /\ n \in Nat \ {0}
  BY First DEF TypeOK, CallRecord
<1>2. /\ calls' \in Seq(CallRecord) /\ Len(calls') = n - 1
      /\ (calls' = << >> <=> n = 1)
      /\ calls' # << >> => Head(calls') = calls[2]
      /\ \A i \in 1 .. n - 1 : calls'[i] = calls[i + 1]
  BY <1>1, Popped
<1> HIDE DEF n
<1>3. \A i \in 1 .. n - 1 : calls'[i].half # "none"
  BY <1>1, <1>2 DEF StackInv, n
<1>4. \A i \in 1 .. n - 2 : Whole(calls'[i]) = calls'[i + 1].del_df
  <2> TAKE i \in 1 .. n - 2
  <2>1. i + 1 \in 1 .. n - 1 /\ i \in 1 .. n - 1
    BY <1>1
  <2>2. Whole(calls[i + 1]) = calls[(i + 1) + 1].del_df
    BY <2>1 DEF StackInv, n
  <2> QED
    BY <1>2, <2>1, <2>2
<1>5. Whole(calls[n]) = del_df /\ calls[n].tsave = base + t
  BY DEF StackInv, n
<1>6. CASE n = 1
  <2>1. calls' = << >> /\ Len(calls') = 0 /\ total' = base + t
    BY <1>2, <1>5, <1>6
  <2> QED
    BY <1>2, <2>1 DEF StackInv
<1>7. CASE n > 1
  <2>1. calls' # << >> /\ calls'[n - 1] = calls[n] /\ Len(calls') - 1 = n - 2
        /\ Head(calls').half # "none"
    BY <1>1, <1>2, <1>3, <1>7 DEF StackInv, n
  <2>2. \A i \in 2 .. Len(calls') : calls'[i].half # "none"
    BY <1>1, <1>2, <1>3
  <2> QED
    BY <1>2, <1>4, <1>5, <2>1, <2>2 DEF StackInv, Whole
<1> QED
  BY <1>1, <1>6, <1>7

LEMMA PopEnds ==
    ASSUME TypeOK, StackInv, calls # << >>, NEW e, Ends(e), calls' = Tail(calls),
           sol' = e[1], pc' = "back", UNCHANGED <<t, del_df>>
    PROVE  (\E f : Ends(f))'
<1> DEFINE n == Len(calls)
<1>1. calls \in Seq(CallRecord) /\ n \in Nat \ {0} /\ t \in Nat /\ del_df \in Nat
  BY First DEF TypeOK, CallRecord
<1>2. /\ Len(calls') = n - 1 /\ (calls' = << >> <=> n = 1)
      /\ \A i \in 1 .. n - 1 : calls'[i] = calls[i + 1]
  BY <1>1, Popped
<1> HIDE DEF n
<1>3. /\ e \in [1 .. n -> Int] /\ e[n] = t + del_df
      /\ \A i \in 1 .. n - 1 :
            e[i] = e[i + 1] - (IF calls[i + 1].half = "first" THEN calls[i + 1].del_df ELSE 0)
      /\ \A i \in 1 .. n :
            /\ t <= e[i] - Whole(calls[i]) /\ e[i] <= t + del_df
            /\ calls[i].compute <=> e[i] = t + del_df
  BY DEF Ends, n
<1>4. PICK f : f = [i \in 1 .. n - 1 |-> e[i + 1]]
  OBVIOUS
<1>5. f \in [1 .. n - 1 -> Int] /\ \A i \in 1 .. n - 1 : f[i] = e[i + 1]
  BY <1>1, <1>3, <1>4
<1>6. \A i \in 1 .. n - 2 :
         f[i] = f[i + 1] - (IF calls'[i + 1].half = "first" THEN calls'[i + 1].del_df ELSE 0)
  <2> TAKE i \in 1 .. n - 2
  <2>1. i + 1 \in 1 .. n - 1 /\ i \in 1 .. n - 1
    BY <1>1
  <2>2. f[i] = e[i + 1] /\ f[i + 1] = e[(i + 1) + 1] /\ calls'[i + 1] = calls[(i + 1) + 1]
    BY <1>2, <1>5, <2>1
  <2> QED
    BY <1>3, <2>1, <2>2
<1>7. \A i \in 1 .. n - 1 :
         /\ t <= f[i] - Whole(calls'[i]) /\ f[i] <= t + del_df
         /\ calls'[i].compute <=> f[i] = t + del_df
  <2> TAKE i \in 1 .. n - 1
  <2>1. i + 1 \in 1 .. n
    BY <1>1
  <2> QED
    BY <1>2, <1>3, <1>5, <2>1
<1>8. CASE n = 1
  <2>1. calls' = << >> /\ Len(calls') = 0 /\ sol' = t + del_df
    BY <1>2, <1>3, <1>8
  <2>2. Ends(f)'
    BY <1>5, <1>8, <2>1 DEF Ends
  <2> QED
    BY <2>2
<1>9. CASE n > 1
  <2>1. calls' # << >> /\ Len(calls') - 1 = n - 2 /\ f[n - 1] = t + del_df
    BY <1>1, <1>2, <1>3, <1>5, <1>9
  <2>2. calls'[1] = calls[2] /\ f[1] = e[2] /\ 1 \in 1 .. n - 1
    BY <1>1, <1>2, <1>5, <1>9
  <2>3. calls[2] \in CallRecord /\ calls[2].half # "none" /\ e[2] \in Int
    BY <1>1, <1>3, <1>9, ElementOfSeq DEF StackInv, n
  <2>4. e[1] = e[2] - (IF calls[2].half = "first" THEN calls[2].del_df ELSE 0)
    BY <1>3, <2>2
  <2>5. sol' = f[1] - (IF calls'[1].half = "second" THEN 0 ELSE calls'[1].del_df)
    BY <2>2, <2>3, <2>4 DEF CallRecord
  <2>6. Ends(f)'
    BY <1>2, <1>5, <1>6, <1>7, <2>1, <2>5 DEF Ends, Whole
  <2> QED
    BY <2>6
<1> QED
  BY <1>1, <1>8, <1>9

(***************************************************************************)
(* The invariant holds at first and is kept by every step.                 *)
(***************************************************************************)
LEMMA NoCalls ==
    ASSUME calls' = << >>, sol' = IF pc' = "back" THEN t' + del_df' ELSE t'
    PROVE  (\E e : Ends(e))'
<1>1. PICK e : e = [i \in 1 .. 0 |-> 0]
  OBVIOUS
<1>2. e \in [1 .. 0 -> Int]
  BY <1>1
<1>3. Len(calls') = 0
  OBVIOUS
<1>4. Ends(e)'
  BY <1>2, <1>3 DEF Ends
<1> QED
  BY <1>4

LEMMA InitIInv == Init => IInv
<1> SUFFICES ASSUME Init PROVE IInv
  OBVIOUS
<1>1. InitTime \in Nat \ {0} /\ MaxCards \in Nat
  BY StepsAssumption
<1>2. calls = << >> /\ calls \in Seq(CallRecord) /\ Len(calls) = 0
  BY DEF Init
<1>3. TypeOK
  <2>1. oxidizing \in BOOLEAN
    BY Zenon DEF Init
  <2> QED
    BY <1>1, <1>2, <2>1 DEF Init, TypeOK, CallRecord
<1>4. CardsInv /\ GridInv
  BY <1>1 DEF Init, CardsInv, GridInv
<1>5. StackInv
  BY <1>2 DEF Init, StackInv
<1>6. \E e : Ends(e)
  <2>1. PICK e : e = [i \in 1 .. 0 |-> 0]
    OBVIOUS
  <2>2. Ends(e)
    BY <1>2, <2>1 DEF Init, Ends
  <2> QED
    BY <2>2
<1> QED
  BY <1>3, <1>4, <1>5, <1>6 DEF IInv

LEMMA IdleIInv == IInv /\ (Method \/ Card \/ End) => IInv'
<1> SUFFICES ASSUME IInv, Method \/ Card \/ End PROVE IInv'
  OBVIOUS
<1> USE StepsAssumption
<1>0. pc \in {"idle", "loop"} => calls = << >> /\ Len(calls) = 0
  BY DEF IInv, StackInv
<1>1. CASE Method
  <2>1. /\ pc = "idle" /\ init_time' \in {init_time, InitTime} /\ timemeth' \in {"trbdf", "form"}
        /\ UNCHANGED <<pc, oxidizing, times, calls, sol, grid, base, cards>>
    BY <1>1 DEF Method
  <2>2. TypeOK' /\ CardsInv' /\ StackInv' /\ GridInv'
    BY <1>0, <2>1, PositiveSteps DEF IInv, TypeOK, CardsInv, StackInv, GridInv, times
  <2>3. (\E e : Ends(e))'
    BY <2>1 DEF IInv, Ends, times
  <2> QED
    BY <2>2, <2>3 DEF IInv
<1>2. CASE Card
  <2>1. PICK length \in Lengths, cont \in BOOLEAN : Diffuse(length, cont)
    BY <1>2 DEF Card
  <2>2. /\ pc = "idle" /\ pc' = "loop" /\ cards < MaxCards /\ (cont => cards > 0)
        /\ cards' = cards + 1 /\ init_time' = (IF cont THEN 0 ELSE init_time)
        /\ oxidizing' \in BOOLEAN /\ total' = (IF cont THEN total ELSE 0)
        /\ del_df' = (IF init_time' # 0 THEN init_time' ELSE del_df)
        /\ t' = 0 /\ time' = length /\ base' = total' /\ sol' = 0 /\ grid' = 0
        /\ UNCHANGED <<timemeth, calls>>
    BY <2>1 DEF Diffuse
  <2>3. length \in Nat /\ InitTime \in Nat \ {0} /\ calls = << >> /\ calls' = << >>
    BY <1>0, <2>2, PositiveSteps
  <2>4. cards \in Nat /\ cards' \in 0 .. MaxCards /\ cards' > 0
    BY <2>2 DEF IInv, TypeOK
  <2>5. del_df' \in Nat /\ del_df' > 0
    BY <2>2, <2>3, <2>4 DEF IInv, TypeOK, CardsInv
  <2>6. total' \in Nat /\ total' = base' + t'
    BY <2>2 DEF IInv, TypeOK
  <2>7. TypeOK'
    BY <2>2, <2>3, <2>4, <2>5, <2>6 DEF IInv, TypeOK
  <2>8. CardsInv' /\ GridInv'
    BY <2>2, <2>4, <2>5 DEF IInv, CardsInv, GridInv
  <2>9. StackInv'
    BY <2>3, <2>6 DEF StackInv
  <2>10. (\E e : Ends(e))'
    BY <2>2, <2>3, NoCalls
  <2> QED
    BY <2>7, <2>8, <2>9, <2>10 DEF IInv
<1>3. CASE End
  <2>1. /\ pc = "loop" /\ pc' = "idle"
        /\ UNCHANGED <<settings, times, calls, sol, grid, base, cards>>
    BY <1>3 DEF End
  <2>2. TypeOK' /\ CardsInv' /\ StackInv' /\ GridInv'
    BY <1>0, <2>1 DEF IInv, TypeOK, CardsInv, StackInv, GridInv, times, settings
  <2>3. (\E e : Ends(e))'
    BY <1>0, <2>1 DEF IInv, Ends, times
  <2> QED
    BY <2>2, <2>3 DEF IInv
<1> QED
  BY <1>1, <1>2, <1>3

LEMMA StepIInv == IInv /\ Step => IInv'
<1> SUFFICES ASSUME IInv, Step PROVE IInv'
  OBVIOUS
<1> DEFINE clipped == Least(del_df, time - t)
<1>1. /\ pc = "loop" /\ t < time /\ pc' = "tr"
      /\ UNCHANGED <<settings, total, t, time, sol, grid, base, cards>>
  BY DEF Step
<1>2. PICK d \in {clipped} \cup (IF oxidizing THEN {s \in Steps : s < clipped} ELSE {}) :
         del_df' = d /\ calls' = <<Call(d, TRUE)>>
  BY DEF Step
<1>3. d \in Nat \ {0} /\ t \in Nat /\ sol = t /\ total = base + t /\ total \in Nat
  <2>1. del_df \in Nat /\ del_df > 0 /\ t \in Nat /\ time \in Nat /\ t < time /\ total \in Nat
    BY <1>1 DEF IInv, TypeOK, CardsInv
  <2>2. clipped \in Nat \ {0}
    BY <2>1 DEF Least
  <2>3. d = clipped \/ d \in Steps
    BY <1>2
  <2>4. sol = t /\ total = base + t
    BY <1>1 DEF IInv, StackInv, Ends
  <2> QED
    BY <2>1, <2>2, <2>3, <2>4, PositiveSteps
<1>4. PICK c : c = Call(d, TRUE)
  OBVIOUS
<1>5. c \in CallRecord /\ c.half = "none" /\ c.del_df = d /\ c.tsave = total /\ c.compute
  <2>1. c = [del_df |-> d, compute |-> TRUE, tsave |-> total, half |-> "none"]
    BY <1>4 DEF Call
  <2>2. c.compute = TRUE
    BY <2>1, Zenon
  <2> QED
    BY <1>3, <2>1, <2>2 DEF CallRecord
<1>6. /\ calls' \in Seq(CallRecord) /\ Len(calls') = 1 /\ calls'[1] = c /\ Head(calls') = c
      /\ calls' # << >>
  <2>1. calls' = <<c>>
    BY <1>2, <1>4
  <2> QED
    BY <1>5, <2>1, Single
<1>7. del_df' = d
  BY <1>2
<1>8. TypeOK'
  BY <1>1, <1>3, <1>7, <1>5, <1>6 DEF IInv, TypeOK, CallRecord, settings
<1>9. CardsInv' /\ GridInv'
  BY <1>1, <1>3, <1>7 DEF IInv, CardsInv, GridInv, settings
<1>10. StackInv'
  BY <1>1, <1>3, <1>7, <1>5, <1>6 DEF StackInv, Whole
<1>11. (\E e : Ends(e))'
  <2>1. PICK e : e = [i \in 1 .. 1 |-> t + d]
    OBVIOUS
  <2>2. e \in [1 .. 1 -> Int] /\ e[1] = t + d
    BY <1>3, <2>1
  <2>3. Ends(e)'
    BY <1>1, <1>3, <1>7, <1>5, <1>6, <2>2 DEF Ends, Whole
  <2> QED
    BY <2>3
<1> QED
  BY <1>8, <1>9, <1>10, <1>11 DEF IInv

LEMMA TrSolvedIInv == IInv /\ TrSolved => IInv'
<1> SUFFICES ASSUME IInv, TrSolved PROVE IInv'
  OBVIOUS
<1>1. /\ pc = "tr" /\ pc' = "bdf" /\ grid' = Moved(Stage(Piece)) /\ total' = total + Stage(Piece)
      /\ UNCHANGED <<settings, t, time, del_df, calls, sol, base, cards>>
  BY DEF TrSolved
<1>2. Piece' = Piece /\ calls # << >> /\ Piece \in Nat /\ Stage(Piece) \in Nat
  <2>1. calls # << >> /\ calls \in Seq(CallRecord)
    BY <1>1 DEF IInv, TypeOK, CallRecord
  <2>2. Head(calls) \in CallRecord
    BY <2>1, First
  <2>3. Head(calls).del_df \in Nat
    BY <2>2 DEF CallRecord
  <2> QED
    BY <1>1, <2>1, <2>3, StageType DEF Piece
<1>3. GridInv'
  BY <1>1, <1>2 DEF IInv, TypeOK, GridInv, Moved, settings, Stage
<1>4. grid' \in Nat /\ total' \in Nat
  BY <1>1, <1>2 DEF IInv, TypeOK, Moved
<1>5. TypeOK'
  BY <1>1, <1>4 DEF IInv, TypeOK, settings
<1>6. CardsInv' /\ StackInv'
  BY <1>1, <1>2 DEF IInv, CardsInv, StackInv, settings
<1>7. (\E e : Ends(e))'
  BY <1>1, <1>2 DEF IInv, Ends
<1> QED
  BY <1>3, <1>5, <1>6, <1>7 DEF IInv

LEMMA Top ==
    ASSUME IInv, calls # << >>
    PROVE  /\ Head(calls) = calls[1] /\ calls[1] \in CallRecord /\ Piece = calls[1].del_df
           /\ calls \in Seq(CallRecord) /\ Len(calls) \in Nat \ {0}
           /\ pc \in {"tr", "bdf"} <=> calls[1].half = "none"
<1>1. calls \in Seq(CallRecord)
  BY DEF IInv, TypeOK, CallRecord
<1>2. Head(calls) = calls[1] /\ Head(calls) \in CallRecord /\ Len(calls) \in Nat \ {0}
  BY <1>1, First
<1>3. pc \in {"tr", "bdf"} <=> calls[1].half = "none"
  BY <1>2 DEF IInv, TypeOK
<1> QED
  BY <1>1, <1>2, <1>3 DEF Piece

LEMMA SplitIInv ==
    ASSUME IInv, pc \in {"tr", "bdf"}, CanFail(Piece), Split,
           UNCHANGED <<settings, times, sol, base, cards>>,
           grid' = IF oxidizing THEN sol ELSE 0
    PROVE  IInv'
<1>1. calls # << >>
  BY DEF IInv, TypeOK
<1>2. /\ Head(calls) = calls[1] /\ calls[1] \in CallRecord /\ Piece = calls[1].del_df
      /\ calls[1].half = "none" /\ calls \in Seq(CallRecord)
  BY <1>1, Top
<1>3. PICK d : d = Piece \div 2
  OBVIOUS
<1>4. d \in Nat \ {0} /\ 2 * d = calls[1].del_df
  <2>1. Piece \in Nat \ {0}
    BY <1>2 DEF CallRecord
  <2> QED
    BY <1>2, <1>3, <2>1, HalvedPiece
<1>5. PICK c : c = [del_df |-> d, compute |-> FALSE, tsave |-> total, half |-> "none"]
  OBVIOUS
<1>6. PICK h : h = [calls[1] EXCEPT !.del_df = d, !.half = "first"]
  OBVIOUS
<1>7. calls' = <<c, h>> \o Tail(calls) /\ pc' = "tr"
  BY <1>2, <1>3, <1>5, <1>6 DEF Split, Halves, Call
<1>8. c \in CallRecord /\ c.half = "none" /\ c.del_df = d /\ ~c.compute
  <2>1. c.compute = FALSE
    BY <1>5, Zenon
  <2>2. total \in Nat
    BY DEF IInv, TypeOK
  <2> QED
    BY <1>4, <1>5, <2>1, <2>2 DEF CallRecord
<1>9. /\ h \in CallRecord /\ h.half = "first" /\ h.del_df = d /\ Whole(h) = Whole(calls[1])
      /\ h.tsave = calls[1].tsave /\ h.compute = calls[1].compute
  BY <1>2, <1>4, <1>6 DEF CallRecord, Whole
<1>10. OnTop(calls', calls, c, h)
  BY <1>1, <1>2, <1>7, <1>8, <1>9, Pushed
<1> HIDE DEF Split
<1>11. UNCHANGED <<t, del_df, base, total, time, cards, init_time, timemeth, oxidizing, sol>>
  BY DEF times, settings
<1>12. calls' \in Seq(CallRecord) /\ calls' # << >> /\ Head(calls') = c /\ StackInv'
  BY <1>1, <1>7, <1>8, <1>9, <1>10, <1>11, PushKeeps DEF IInv
<1>13. (\E f : Ends(f))'
  <2>1. PICK e : Ends(e)
    BY DEF IInv
  <2>2. sol' = e[1] - 2 * d
    BY <1>1, <1>2, <1>4, <1>11, <2>1 DEF Ends
  <2> QED
    BY <1>1, <1>8, <1>9, <1>10, <1>11, <2>1, <2>2, PushEnds DEF IInv
<1>14. GridInv' /\ grid' \in Nat
  BY <1>7, <1>11 DEF GridInv, IInv, TypeOK
<1>15. pc' = "tr"
  BY <1>7
<1>16. TypeOK'
  BY <1>8, <1>11, <1>12, <1>14, <1>15 DEF IInv, TypeOK, CallRecord
<1>17. CardsInv'
  BY <1>11, <1>15 DEF IInv, CardsInv
<1> QED
  BY <1>12, <1>13, <1>14, <1>16, <1>17 DEF IInv

LEMMA FailedIInv == IInv /\ (TrFailed \/ BdfFailed) => IInv'
<1> SUFFICES ASSUME IInv, TrFailed \/ BdfFailed PROVE IInv'
  OBVIOUS
<1>1. CASE TrFailed
  <2>1. grid' = IF oxidizing THEN sol ELSE 0
    BY <1>1 DEF TrFailed, IInv, TypeOK, GridInv
  <2> QED
    BY <1>1, <2>1, SplitIInv DEF TrFailed
<1>2. CASE BdfFailed
  <2>1. pc = "bdf" /\ grid' = Moved(-Stage(Piece)) /\ calls # << >>
    BY <1>2 DEF BdfFailed, IInv, TypeOK
  <2>2. Stage(Piece) \in Nat /\ sol \in Nat
    BY <2>1, Top, StageType DEF CallRecord, IInv, TypeOK
  <2>3. grid' = IF oxidizing THEN sol ELSE 0
    BY <2>1, <2>2 DEF Moved, IInv, GridInv
  <2> QED
    BY <1>2, <2>3, SplitIInv DEF BdfFailed
<1> QED
  BY <1>1, <1>2

LEMMA BdfSolvedIInv == IInv /\ BdfSolved => IInv'
<1> SUFFICES ASSUME IInv, BdfSolved PROVE IInv'
  OBVIOUS
<1>1. /\ pc = "bdf" /\ pc' = "back" /\ grid' = Moved(Piece - Stage(Piece)) /\ sol' = sol + Piece
      /\ total' = Head(calls).tsave /\ calls' = Tail(calls)
      /\ UNCHANGED <<settings, t, time, del_df, base, cards>>
  BY DEF BdfSolved
<1>2. calls # << >>
  BY <1>1 DEF IInv, TypeOK
<1>3. /\ total' = calls[1].tsave /\ total' \in Nat /\ Piece \in Nat /\ Stage(Piece) \in Nat
      /\ Stage(Piece) <= Piece /\ sol \in Nat /\ grid \in Nat
      /\ calls[1].half = "none" /\ Piece = calls[1].del_df
  BY <1>1, <1>2, Top, StageType DEF CallRecord, IInv, TypeOK
<1>4. /\ calls' \in Seq(CallRecord) /\ (calls' # << >> => Head(calls').half # "none")
      /\ StackInv'
  BY <1>1, <1>2, <1>3, PopKeeps DEF IInv
<1>5. (\E f : Ends(f))'
  <2>1. PICK e : Ends(e)
    BY DEF IInv
  <2>2. calls \in Seq(CallRecord) /\ Len(calls) \in Nat \ {0}
    BY <1>2, Top
  <2>3. e[1] \in Int /\ sol = e[1] - Piece
    BY <1>2, <1>3, <2>1, <2>2 DEF Ends
  <2>4. sol' = e[1]
    BY <1>1, <1>3, <2>3
  <2> QED
    BY <1>1, <1>2, <2>1, <2>4, PopEnds DEF IInv
<1> DEFINE p == Piece
<1>6. sol' \in Nat /\ grid' \in Nat /\ GridInv'
  <2>1. /\ sol' = sol + p /\ oxidizing' = oxidizing /\ pc' = "back" /\ p \in Nat
        /\ grid' = IF oxidizing THEN grid + (p - Stage(p)) ELSE grid
        /\ grid = IF oxidizing THEN sol + Stage(p) ELSE 0
    BY <1>1, <1>3 DEF Moved, IInv, GridInv, settings
  <2> HIDE DEF p
  <2>2. Stage(p) \in Nat /\ Stage(p) <= p
    BY <2>1, StageType
  <2> QED
    BY <1>3, <2>1, <2>2 DEF GridInv
<1>7. TypeOK'
  <2>1. UNCHANGED <<init_time, timemeth, oxidizing, t, time, del_df, base, cards>> /\ pc' = "back"
    BY <1>1 DEF settings
  <2> HIDE <1>1
  <2>2. pc' \in {"tr", "bdf"} <=> calls' # << >> /\ Head(calls').half = "none"
    BY <1>4, <2>1
  <2> QED
    BY <1>3, <1>4, <1>6, <2>1, <2>2 DEF IInv, TypeOK, CallRecord
<1>8. CardsInv'
  BY <1>1 DEF IInv, CardsInv, settings
<1> QED
  BY <1>4, <1>5, <1>6, <1>7, <1>8 DEF IInv

LEMMA SecondHalfIInv == IInv /\ SecondHalf => IInv'
<1> SUFFICES ASSUME IInv, SecondHalf PROVE IInv'
  OBVIOUS
<1>1. pc = "back" /\ calls # << >>
  BY DEF SecondHalf
<1>2. /\ Head(calls) = calls[1] /\ calls[1] \in CallRecord /\ calls[1].half = "first"
      /\ calls \in Seq(CallRecord)
  BY <1>1, Top DEF SecondHalf
<1>3. PICK d : d = calls[1].del_df
  OBVIOUS
<1>4. /\ pc' = "tr" /\ total' = total + d /\ total \in Nat /\ d \in Nat \ {0}
      /\ UNCHANGED <<init_time, timemeth, oxidizing, t, time, del_df, sol, grid, base, cards>>
  BY <1>2, <1>3 DEF SecondHalf, IInv, TypeOK, CallRecord, settings
<1>5. PICK c : c = [Call(d, calls[1].compute) EXCEPT !.tsave = total']
  OBVIOUS
<1>6. PICK h : h = [calls[1] EXCEPT !.half = "second"]
  OBVIOUS
<1>7. calls' = <<c, h>> \o Tail(calls)
  BY <1>2, <1>3, <1>5, <1>6 DEF SecondHalf
<1>8. /\ c \in CallRecord /\ c.half = "none" /\ c.del_df = d
      /\ c.compute = calls[1].compute
  BY <1>2, <1>4, <1>5 DEF CallRecord, Call
<1>9. /\ h \in CallRecord /\ h.half = "second" /\ h.del_df = d /\ Whole(h) = Whole(calls[1])
      /\ h.tsave = calls[1].tsave /\ h.compute = calls[1].compute
  BY <1>2, <1>3, <1>6 DEF CallRecord, Whole
<1>10. OnTop(calls', calls, c, h)
  BY <1>1, <1>2, <1>7, <1>8, <1>9, Pushed
<1>11. calls' \in Seq(CallRecord) /\ calls' # << >> /\ Head(calls') = c /\ StackInv'
  BY <1>1, <1>4, <1>8, <1>9, <1>10, PushKeeps DEF IInv
<1>12. (\E f : Ends(f))'
  <2>1. PICK e : Ends(e)
    BY DEF IInv
  <2>2. sol' = e[1] - d
    BY <1>1, <1>2, <1>3, <1>4, <2>1 DEF Ends
  <2> QED
    BY <1>1, <1>4, <1>8, <1>9, <1>10, <2>1, <2>2, PushEnds DEF IInv
<1>13. GridInv' /\ CardsInv'
  BY <1>1, <1>4 DEF IInv, CardsInv, GridInv
<1>14. TypeOK'
  BY <1>4, <1>8, <1>11 DEF IInv, TypeOK, CallRecord
<1> QED
  BY <1>11, <1>12, <1>13, <1>14 DEF IInv

LEMMA ReturnIInv == IInv /\ Return => IInv'
<1> SUFFICES ASSUME IInv, Return PROVE IInv'
  OBVIOUS
<1>1. /\ pc = "back" /\ pc' = "back" /\ calls # << >> /\ calls' = Tail(calls)
      /\ Head(calls).half = "second" /\ total' = Head(calls).tsave
      /\ UNCHANGED <<init_time, timemeth, oxidizing, t, time, del_df, sol, grid, base, cards>>
  BY DEF Return, settings
<1>2. total' = calls[1].tsave /\ total' \in Nat /\ calls[1].half = "second"
  BY <1>1, Top DEF CallRecord
<1>3. /\ calls' \in Seq(CallRecord) /\ (calls' # << >> => Head(calls').half # "none")
      /\ StackInv'
  BY <1>1, <1>2, PopKeeps DEF IInv
<1>4. (\E f : Ends(f))'
  <2>1. PICK e : Ends(e)
    BY DEF IInv
  <2>2. calls \in Seq(CallRecord) /\ Len(calls) \in Nat \ {0}
    BY <1>1, Top
  <2>3. sol' = e[1]
    BY <1>1, <1>2, <2>1, <2>2 DEF Ends
  <2> QED
    BY <1>1, <2>1, <2>3, PopEnds DEF IInv
<1>5. TypeOK'
  <2>1. /\ pc' = "back"
        /\ UNCHANGED <<init_time, timemeth, oxidizing, t, time, del_df, sol, grid, base, cards>>
    BY <1>1
  <2> QED
    BY <1>2, <1>3, <2>1 DEF IInv, TypeOK, CallRecord
<1>6. CardsInv' /\ GridInv'
  BY <1>1 DEF IInv, CardsInv, GridInv
<1> QED
  BY <1>3, <1>4, <1>5, <1>6 DEF IInv

(* The next step is never empty, whoever asks for it.                      *)
LEMMA AllowedPositive ==
    ASSUME time \in Nat, t \in Nat, t < time, NEW dt \in Allowed
    PROVE  dt \in Nat \ {0} /\ time_form(dt) \subseteq Nat \ {0}
<1> DEFINE room == time - t + OneSecond
<1>1. OneSecond \in Nat \ {0} /\ Steps \subseteq Nat \ {0}
  BY PositiveSteps
<1>2. room \in Nat \ {0}
  BY <1>1
<1> HIDE DEF room
<1>3. PICK e \in Nat \ {0}, g \in Nat \ {0} : dt = Least(e, Least(g, room))
  BY <1>1, <1>2 DEF Allowed, room
<1>4. dt \in Nat \ {0}
  BY <1>2, <1>3 DEF Least
<1> QED
  BY <1>1, <1>4 DEF time_form

LEMMA ReturnedIInv == IInv /\ Returned => IInv'
<1> SUFFICES ASSUME IInv, Returned PROVE IInv'
  OBVIOUS
<1>1. /\ pc = "back" /\ pc' = "loop" /\ calls = << >> /\ calls' = << >>
      /\ total' = total + del_df /\ t' = t + del_df
      /\ UNCHANGED <<init_time, timemeth, oxidizing, time, sol, grid, base, cards>>
  BY DEF Returned, settings
<1>2. /\ t \in Nat /\ time \in Nat /\ t < time /\ del_df \in Nat /\ total \in Nat /\ base \in Nat
      /\ total = base + t /\ sol = t + del_df
  BY <1>1 DEF IInv, TypeOK, CardsInv, StackInv, Ends
<1>3. del_df' \in Nat /\ del_df' > 0
  <2>1. PICK dt \in Allowed : del_df' \in IF timemeth = "form" THEN time_form(dt) ELSE {dt}
    BY DEF Returned
  <2>2. del_df' \in Nat \ {0}
    BY <1>2, <2>1, AllowedPositive
  <2> QED
    BY <2>2
<1>4. t' \in Nat /\ total' \in Nat /\ total' = base + t'
  BY <1>1, <1>2
<1>5. TypeOK'
  BY <1>1, <1>3, <1>4 DEF IInv, TypeOK
<1>6. CardsInv' /\ GridInv' /\ StackInv'
  BY <1>1, <1>3, <1>4 DEF IInv, CardsInv, GridInv, StackInv
<1>7. (\E e : Ends(e))'
  <2>1. sol' = IF pc' = "back" THEN t' + del_df' ELSE t'
    BY <1>1, <1>2
  <2> QED
    BY <1>1, <2>1, NoCalls
<1> QED
  BY <1>5, <1>6, <1>7 DEF IInv

LEMMA StutterIInv == IInv /\ UNCHANGED vars => IInv'
<1> SUFFICES ASSUME IInv, UNCHANGED vars PROVE IInv'
  OBVIOUS
<1>1. TypeOK' /\ CardsInv' /\ StackInv' /\ GridInv'
  BY DEF IInv, TypeOK, CardsInv, StackInv, GridInv, Piece, vars, settings, times
<1>2. (\E e : Ends(e))'
  BY DEF IInv, Ends, vars, times
<1> QED
  BY <1>1, <1>2 DEF IInv

LEMMA NextIInv == IInv /\ [Next]_vars => IInv'
  BY IdleIInv, StepIInv, TrSolvedIInv, FailedIInv, BdfSolvedIInv, SecondHalfIInv, ReturnIInv,
     ReturnedIInv, StutterIInv
  DEF Next, solve_time

LEMMA AlwaysIInv == Spec => []IInv
  BY InitIInv, NextIInv, PTL DEF Spec

(***************************************************************************)
(* The theorems.                                                           *)
(***************************************************************************)

(* Every variable keeps its type: no step is empty, and a stage is solved  *)
(* for the last call only.                                                 *)
THEOREM TypeCorrect == Spec => []TypeOK
<1>1. IInv => TypeOK
  BY DEF IInv
<1> QED
  BY <1>1, AlwaysIInv, PTL

(* The points of the grid are where the solution is.                       *)
THEOREM GridIsMoved == Spec => []GridFollows
<1>1. IInv => GridFollows
  BY DEF IInv, GridInv, GridFollows
<1> QED
  BY <1>1, AlwaysIInv, PTL

(* However deep the halving goes, the pieces cover the step, none reaches  *)
(* past it, and the total time is where the loop is.                       *)
THEOREM PiecesCover == Spec => []Covered
<1>1. IInv => Covered
  <2> SUFFICES ASSUME IInv PROVE Covered
    OBVIOUS
  <2>1. PICK e : Ends(e)
    BY DEF IInv
  <2>2. CASE calls = << >>
    BY <2>1, <2>2 DEF IInv, TypeOK, StackInv, Ends, Covered
  <2>3. CASE calls # << >>
    <3>1. calls[1] \in CallRecord /\ Piece = calls[1].del_df /\ Len(calls) \in Nat \ {0}
          /\ (pc \in {"tr", "bdf"} <=> calls[1].half = "none")
      BY <2>3, Top
    <3>2. /\ t <= e[1] - Whole(calls[1]) /\ e[1] <= t + del_df
          /\ sol = e[1] - (IF calls[1].half = "second" THEN 0 ELSE calls[1].del_df)
          /\ e[1] \in Int
      BY <2>1, <2>3, <3>1 DEF Ends
    <3>3. pc \in {"tr", "bdf"} => sol >= t /\ sol + Piece <= t + del_df
      BY <3>1, <3>2 DEF Whole, CallRecord, IInv, TypeOK
    <3> QED
      BY <2>3, <3>3 DEF IInv, StackInv, Covered
  <2> QED
    BY <2>2, <2>3
<1> QED
  BY <1>1, AlwaysIInv, PTL

(* The piece that estimates the error is the one the step ends with.       *)
THEOREM LastIsEstimated == Spec => []EstimatedLast
<1>1. IInv => EstimatedLast
  <2> SUFFICES ASSUME IInv, pc = "tr"
               PROVE  Head(calls).compute <=> sol + Piece = t + del_df
    BY DEF EstimatedLast
  <2>1. PICK e : Ends(e)
    BY DEF IInv
  <2>2. calls # << >>
    BY DEF IInv, TypeOK
  <2>3. /\ Head(calls) = calls[1] /\ calls[1] \in CallRecord /\ Piece = calls[1].del_df
        /\ Len(calls) \in Nat \ {0} /\ calls[1].half = "none"
    BY <2>2, Top
  <2>4. /\ (calls[1].compute <=> e[1] = t + del_df) /\ e[1] \in Int
        /\ sol = e[1] - Piece /\ Piece \in Int
    BY <2>1, <2>2, <2>3 DEF Ends, CallRecord
  <2> QED
    BY <2>3, <2>4
<1> QED
  BY <1>1, AlwaysIInv, PTL

(***************************************************************************)
(* Every step of a card uses up what is left of it: the time to its end,   *)
(* what of the step the solution has not reached, the calls to return from *)
(* or the piece that can be halved, the stage.                             *)
(***************************************************************************)
InStep == pc \in {"tr", "bdf", "back"}

Clipped == t <= time /\ (InStep => t + del_df <= time)

Unsolved ==
    IF pc = "loop" THEN time - t + 1 ELSE IF InStep THEN t + del_df - sol ELSE 0

Back == IF pc = "back" THEN 1 ELSE 0

Deep ==
    IF pc = "back" THEN Len(calls) ELSE IF pc \in {"tr", "bdf"} THEN Piece ELSE 0

Stages == IF pc = "tr" THEN 1 ELSE 0

Left == <<time - t, Unsolved, Back, Deep, Stages>>

Measured ==
    /\ time - t \in Nat /\ Unsolved \in Nat /\ Back \in Nat /\ Deep \in Nat
    /\ Stages \in Nat

(* The solution never reaches past the step.                               *)
LEMMA SolWithin == IInv /\ InStep => sol <= t + del_df
<1> SUFFICES ASSUME IInv, InStep PROVE sol <= t + del_df
  OBVIOUS
<1>1. PICK e : Ends(e)
  BY DEF IInv
<1>2. t \in Nat /\ del_df \in Nat
  BY DEF IInv, TypeOK
<1>3. CASE calls = << >>
  BY <1>1, <1>2, <1>3 DEF Ends
<1>4. CASE calls # << >>
  <2>1. calls[1] \in CallRecord /\ Len(calls) \in Nat \ {0}
    BY <1>4, Top
  <2>2. /\ e[1] <= t + del_df /\ e[1] \in Int
        /\ sol = e[1] - (IF calls[1].half = "second" THEN 0 ELSE calls[1].del_df)
    BY <1>1, <1>4, <2>1 DEF Ends
  <2> QED
    BY <1>2, <2>1, <2>2 DEF CallRecord
<1> QED
  BY <1>3, <1>4

LEMMA IsMeasured == IInv /\ Clipped => Measured
<1> SUFFICES ASSUME IInv, Clipped PROVE Measured
  OBVIOUS
<1>1. t \in Nat /\ time \in Nat /\ del_df \in Nat /\ sol \in Nat
  BY DEF IInv, TypeOK
<1>2. time - t \in Nat /\ Unsolved \in Nat
  BY <1>1, SolWithin DEF Clipped, Unsolved
<1>3. Deep \in Nat
  <2>1. Len(calls) \in Nat
    BY LenProperties DEF IInv, TypeOK
  <2>2. pc \in {"tr", "bdf"} => Piece \in Nat
    BY Top DEF IInv, TypeOK, CallRecord
  <2> QED
    BY <2>1, <2>2 DEF Deep
<1> QED
  BY <1>2, <1>3 DEF Measured, Back, Stages

(* A step of the loop is clipped to the end of the card.                   *)
LEMMA StepWithin ==
    ASSUME IInv, Step
    PROVE  t' = t /\ time' = time /\ del_df' \in Nat /\ t + del_df' <= time
<1> DEFINE room == Least(del_df, time - t)
<1>0. t \in Nat /\ time \in Nat /\ del_df \in Nat /\ del_df' \in Nat
  <2>1. Step => [Next]_vars
    BY DEF Next, solve_time
  <2>2. IInv'
    BY <2>1, NextIInv
  <2> QED
    BY <2>2 DEF IInv, TypeOK
<1>1. room \in Int /\ room <= time - t
  BY <1>0 DEF Least
<1>2. PICK d \in {room} \cup (IF oxidizing THEN {s \in Steps : s < room} ELSE {}) : del_df' = d
  BY DEF Step
<1> HIDE DEF room
<1>3. Steps \subseteq Nat
  BY PositiveSteps
<1>4. d <= room /\ d \in Int
  BY <1>1, <1>2, <1>3
<1>5. t' = t /\ time' = time
  BY DEF Step
<1> QED
  BY <1>0, <1>1, <1>2, <1>4, <1>5

LEMMA StepClipped == IInv /\ Clipped /\ [Next]_vars => Clipped'
<1> SUFFICES ASSUME IInv, Clipped, [Next]_vars PROVE Clipped'
  OBVIOUS
<1>0. t \in Nat /\ time \in Nat /\ del_df \in Nat
  BY DEF IInv, TypeOK
<1>1. CASE Card
  <2>1. PICK length \in Lengths, cont \in BOOLEAN : Diffuse(length, cont)
    BY <1>1 DEF Card
  <2>2. t' = 0 /\ time' = length /\ pc' = "loop" /\ length \in Nat
    BY <2>1, PositiveSteps DEF Diffuse
  <2> QED
    BY <2>2 DEF Clipped, InStep
<1>2. CASE Step
  <2>1. t' = t /\ time' = time /\ t + del_df' <= time
    BY <1>2, StepWithin
  <2>2. t' + del_df' <= time' /\ t' <= time'
    BY <2>1 DEF Clipped
  <2> QED
    BY <2>2 DEF Clipped
<1>3. CASE Returned
  BY <1>0, <1>3 DEF Returned, Clipped, InStep
<1>4. CASE Method \/ End \/ UNCHANGED vars
  BY <1>4 DEF Method, End, vars, times, Clipped, InStep
<1>5. CASE TrSolved \/ TrFailed \/ BdfSolved \/ BdfFailed \/ SecondHalf \/ Return
  BY <1>5 DEF TrSolved, TrFailed, BdfSolved, BdfFailed, SecondHalf, Return, times, Clipped, InStep
<1> QED
  BY <1>1, <1>2, <1>3, <1>4, <1>5 DEF Next, solve_time

LEMMA WithinRoom ==
    ASSUME NEW a \in Nat, NEW b \in Nat, NEW c \in Nat, a + b <= c
    PROVE  a + b - a < c - a + 1
  OBVIOUS

(* The loop of solve_time: a turn of it brings the card nearer to its end. *)
LEMMA LoopDescends ==
    ASSUME IInv, Clipped, Measured, Measured', Step \/ End \/ Returned
    PROVE  <<Left', Left>> \in Fewer(5)
<1>0. t \in Nat /\ time \in Nat /\ del_df \in Nat
  BY DEF IInv, TypeOK
<1>1. CASE Step
  <2>1. pc = "loop" /\ pc' = "tr" /\ t' = t /\ time' = time /\ sol' = sol
    BY <1>1 DEF Step
  <2>2. del_df' \in Nat /\ t + del_df' <= time
    BY <1>1, StepWithin
  <2>3. sol = t
    BY <2>1 DEF IInv, StackInv, Ends
  <2>4. Unsolved = time - t + 1 /\ Unsolved' = t + del_df' - t
    BY <2>1, <2>3 DEF InStep, Unsolved
  <2>5. t + del_df' - t < time - t + 1
    BY <1>0, <2>2, WithinRoom, Zenon
  <2>6. Unsolved' < Unsolved
    BY <2>4, <2>5, Zenon
  <2> QED
    BY <2>1, <2>6 DEF Measured, Left, Fewer, LexProductOrdering, OpToRel
<1>2. CASE End
  <2>1. pc = "loop" /\ pc' = "idle" /\ t' = t /\ time' = time
    BY <1>2 DEF End, times
  <2>2. Unsolved' < Unsolved
    BY <1>0, <2>1 DEF Clipped, InStep, Unsolved
  <2> QED
    BY <2>1, <2>2 DEF Measured, Left, Fewer, LexProductOrdering, OpToRel
<1>3. CASE Returned
  <2>1. del_df > 0 /\ t' = t + del_df /\ time' = time
    BY <1>3 DEF Returned, IInv, CardsInv
  <2>2. time' - t' < time - t
    BY <1>0, <2>1
  <2> QED
    BY <2>2 DEF Measured, Left, Fewer, LexProductOrdering, OpToRel
<1> QED
  BY <1>1, <1>2, <1>3

(* Within solstep: a failed piece is halved, a solved one is left behind.  *)
LEMMA SolstepDescends ==
    ASSUME IInv, Clipped, Measured, Measured',
           TrSolved \/ TrFailed \/ BdfSolved \/ BdfFailed \/ SecondHalf \/ Return
    PROVE  <<Left', Left>> \in Fewer(5)
<1>0. /\ t' = t /\ time' = time /\ del_df' = del_df /\ pc \in {"tr", "bdf", "back"}
      /\ pc' \in {"tr", "bdf", "back"} /\ calls # << >>
  BY DEF TrSolved, TrFailed, BdfSolved, BdfFailed, SecondHalf, Return, Split, times, IInv, TypeOK
<1>1. sol' = sol => Unsolved' = Unsolved
  BY <1>0 DEF Unsolved, InStep
<1>2. /\ calls[1] \in CallRecord /\ Piece = calls[1].del_df /\ Piece \in Nat \ {0}
      /\ calls \in Seq(CallRecord) /\ Len(calls) \in Nat \ {0}
  BY <1>0, Top DEF CallRecord
<1>3. CASE TrSolved
  <2>1. pc = "tr" /\ pc' = "bdf" /\ Piece' = Piece /\ sol' = sol
    BY <1>3 DEF TrSolved, Piece
  <2>2. Back' = Back /\ Deep' = Deep /\ Stages' < Stages
    BY <2>1 DEF Back, Deep, Stages
  <2> QED
    BY <1>0, <1>1, <2>1, <2>2 DEF Measured, Left, Fewer, LexProductOrdering, OpToRel
<1>4. CASE TrFailed \/ BdfFailed
  <2>1. pc \in {"tr", "bdf"} /\ pc' = "tr" /\ sol' = sol
        /\ calls' = Halves(Piece \div 2, FALSE)
    BY <1>4 DEF TrFailed, BdfFailed, Split
  <2>2. Piece' = Piece \div 2
    <3>1. Head(calls').del_df = Piece \div 2
      BY <2>1 DEF Halves, Call
    <3> QED
      BY <3>1 DEF Piece
  <2>3. Piece \div 2 < Piece
    BY <1>2
  <2>4. Back' = Back /\ Deep' < Deep
    BY <2>1, <2>2, <2>3 DEF Back, Deep
  <2> QED
    BY <1>0, <1>1, <2>1, <2>4 DEF Measured, Left, Fewer, LexProductOrdering, OpToRel
<1>5. CASE BdfSolved
  <2>1. sol' = sol + Piece /\ sol \in Nat /\ t \in Nat /\ del_df \in Nat
    BY <1>5 DEF BdfSolved, IInv, TypeOK
  <2>2. Unsolved' < Unsolved
    BY <1>0, <1>2, <2>1 DEF Unsolved, InStep
  <2> QED
    BY <1>0, <2>2 DEF Measured, Left, Fewer, LexProductOrdering, OpToRel
<1>6. CASE SecondHalf
  <2>1. pc = "back" /\ pc' = "tr" /\ sol' = sol
    BY <1>6 DEF SecondHalf
  <2>2. Back' < Back
    BY <2>1 DEF Back
  <2> QED
    BY <1>0, <1>1, <2>1, <2>2 DEF Measured, Left, Fewer, LexProductOrdering, OpToRel
<1>7. CASE Return
  <2>1. pc = "back" /\ pc' = "back" /\ sol' = sol /\ calls' = Tail(calls)
    BY <1>7 DEF Return
  <2>2. Len(calls') = Len(calls) - 1
    BY <1>0, <1>2, <2>1, Popped
  <2>3. Back' = Back /\ Deep' < Deep
    BY <1>2, <2>1, <2>2 DEF Back, Deep
  <2> QED
    BY <1>0, <1>1, <2>1, <2>3 DEF Measured, Left, Fewer, LexProductOrdering, OpToRel
<1> QED
  BY <1>3, <1>4, <1>5, <1>6, <1>7

(* A card ends after finitely many stages, whichever pieces fail and       *)
(* whatever the error estimate, the grid and the formula ask for. A unit   *)
(* cannot be halved: in the code only underflow ends the halving.          *)
THEOREM CardDescends == Spec => [][pc # "idle" => <<Left', Left>> \in Fewer(5)]_vars
<1>1. Init => Clipped
  BY DEF Init, Clipped, InStep
<1>2. /\ IInv /\ IInv' /\ Clipped /\ Clipped' /\ [Next]_vars
         => [pc # "idle" => <<Left', Left>> \in Fewer(5)]_vars
  <2>1. IInv /\ Clipped => Measured
    BY IsMeasured
  <2>2. IInv' /\ Clipped' => Measured'
    BY <2>1, PTL
  <2>3. ASSUME Method \/ Card PROVE pc = "idle"
    BY <2>3 DEF Method, Card, Diffuse
  <2> QED
    BY <2>1, <2>2, <2>3, LoopDescends, SolstepDescends DEF Next, solve_time
<1> QED
  BY <1>1, <1>2, AlwaysIInv, StepClipped, PTL DEF Spec
=============================================================================
