-------------------------- MODULE TickPacingProofs --------------------------
(* What the tick handlers guarantee: the pace of a thread that               *)
(* handle_tick_vsleep paces, for any slices, any run lengths and any delays, *)
(* until one of its sleeps is cut short; and, for words of any width, the    *)
(* sleeps of handle_tick_latency_oriented before a deadline.                 *)
EXTENDS TickPacing, LatencyTick, TLAPS

\* A context in YIELDING owes nothing and has saved up at most five slices.
Sound(x) == x.policy = "YIELDING" => -(5 * x.slice) <= x.budget /\ x.budget <= 0

\* What the window is ahead by was saved up in the budget, time not yet
\* accounted for aside.
PaceInv ==
  ~cut => /\ Sound(ctx) /\ \A b \in Buffers : Sound(bufs[b])
          /\ ctx.policy = "YIELDING" => lead <= ctx.budget - since + 5 * ctx.slice

LEMMA InitType == Init => TypeOK
<1> SUFFICES ASSUME Init PROVE TypeOK
  OBVIOUS
<1>1. /\ Modes \subseteq {"YIELDING", "PREDETERMINED", "IMMEDIATE"}
      /\ Slices \subseteq Nat
  BY PacingAssumption
<1>2. [policy : Modes, slice : Slices, budget : {0}] \subseteq Account
  <2> SUFFICES ASSUME NEW m \in Modes, NEW slice \in Slices
               PROVE  [policy |-> m, slice |-> slice, budget |-> 0] \in Account
    OBVIOUS
  <2>1. m \in {"YIELDING", "PREDETERMINED", "IMMEDIATE"} /\ slice \in Nat /\ 0 \in Int
    BY <1>1
  <2>2. QED BY <2>1 DEF Account
<1>3. bufs \in [Buffers -> Account] BY <1>2 DEF Init
<1>4. ctx \in Account /\ ctx.slice \in Nat BY <1>1 DEF Init, Account
<1>5. since \in Nat /\ avg \in Nat /\ lead \in Int
  <2>1. since = 0 /\ avg = ctx.slice /\ lead = 0 BY DEF Init
  <2>2. QED BY <1>4, <2>1
<1>6. woken \in BOOLEAN /\ cut \in BOOLEAN BY DEF Init
<1>7. QED BY <1>3, <1>4, <1>5, <1>6 DEF TypeOK

LEMMA ClampedType ==
  ASSUME NEW b \in Int, NEW slice \in Nat
  PROVE  /\ Clamped(b, slice) \in Int
         /\ -(5 * slice) <= Clamped(b, slice) /\ Clamped(b, slice) <= 5 * slice
         /\ b <= 0 => b <= Clamped(b, slice) /\ Clamped(b, slice) <= 0
  BY DEF Clamped, Least, Most

LEMMA DueType ==
  ASSUME NEW balance \in Int, NEW slice \in Nat
  PROVE  /\ SleepTime(balance, slice) \in Int
         /\ (IF balance > 0 THEN SleepTime(balance, slice) ELSE 0) \in Nat
  BY DEF SleepTime, Least

(* What a tick of handle_tick_vsleep does.                                   *)
LEMMA VsleepStep ==
  ASSUME TypeOK, TickVsleep
  PROVE  \E yield \in Nat, due \in Nat :
           /\ ctx' = [ctx EXCEPT !.budget = Clamped(ctx.budget + ctx.slice - since - yield, ctx.slice)]
           /\ Window(ctx.slice, yield, due) /\ woken' \in BOOLEAN
           /\ due >= SleepTime(ctx.budget + ctx.slice - since, ctx.slice)
<1> DEFINE balance == ctx.budget + ctx.slice - since
           due     == IF balance > 0 THEN SleepTime(balance, ctx.slice) ELSE 0
           want    == IF Mapped THEN due ELSE 0
<1>1. ctx.budget \in Int /\ ctx.slice \in Nat /\ since \in Nat /\ balance \in Int
  BY DEF TypeOK, Account
<1>2. PICK yield \in Sleeps(want) :
        /\ ctx' = [ctx EXCEPT !.budget = Clamped(balance - yield, ctx.slice)]
        /\ woken' = (yield < want)
        /\ Window(ctx.slice, yield, due)
  BY DEF TickVsleep
<1>3. due \in Nat /\ want \in Nat /\ SleepTime(balance, ctx.slice) \in Int
  BY <1>1, DueType
<1>4. yield \in Nat
  BY <1>2, <1>3, PacingAssumption DEF Sleeps
<1>5. due >= SleepTime(ctx.budget + ctx.slice - since, ctx.slice)
  BY <1>1, <1>3 DEF SleepTime, Least
<1>6. woken' \in BOOLEAN BY <1>2
<1>7. ctx' = [ctx EXCEPT !.budget = Clamped(ctx.budget + ctx.slice - since - yield, ctx.slice)]
  <2>1. balance - yield = ctx.budget + ctx.slice - since - yield
    BY <1>1, <1>4
  <2> HIDE DEF due, want, balance
  <2>2. QED BY <1>2, <2>1
<1> HIDE DEF due, want, balance
<1>8. Window(ctx.slice, yield, due) BY <1>2
<1> USE <1>3, <1>4
<1>9. WITNESS yield \in Nat, due \in Nat
<1>10. QED BY <1>5, <1>6, <1>7, <1>8

LEMMA NextType == TypeOK /\ [Next]_vars => TypeOK'
<1> SUFFICES ASSUME TypeOK, [Next]_vars PROVE TypeOK'
  OBVIOUS
<1>a. /\ ctx.budget \in Int /\ ctx.slice \in Nat /\ since \in Nat /\ avg \in Nat
      /\ \A slice \in Slices : slice \in Nat /\ MaxOver \in Nat
  BY PacingAssumption DEF TypeOK, Account
<1>1. ASSUME NEW d \in 1 .. MaxRun, Run(d) PROVE TypeOK'
  BY <1>1, PacingAssumption DEF Run, Measured, TypeOK
<1>2. CASE Paced
  <2>1. NewAvg(avg, since) \in Nat BY <1>a DEF NewAvg
  <2>2. CASE TickVsleep
    <3> PICK yield \in Nat, due \in Nat :
          /\ ctx' = [ctx EXCEPT !.budget = Clamped(ctx.budget + ctx.slice - since - yield, ctx.slice)]
          /\ Window(ctx.slice, yield, due) /\ woken' \in BOOLEAN
      BY <2>2, VsleepStep
    <3>z. ctx.budget + ctx.slice - since - yield \in Int BY <1>a
    <3>a. Clamped(ctx.budget + ctx.slice - since - yield, ctx.slice) \in Int
      BY ONLY <1>a, <3>z, ClampedType
    <3>b. ctx' \in Account BY <3>a DEF TypeOK, Account
    <3>c. lead' \in Int BY <1>a DEF Window, TypeOK
    <3>d. cut' \in BOOLEAN BY DEF Window, TypeOK
    <3>1. ctx' \in Account /\ lead' \in Int /\ woken' \in BOOLEAN /\ cut' \in BOOLEAN
      BY <3>b, <3>c, <3>d
    <3>2. QED BY <1>2, <2>1, <3>1 DEF Paced, TypeOK
  <2>3. CASE TickYielding
    <3> DEFINE balance == ctx.budget + ctx.slice - since
    <3>a. PICK busy \in {"IDLE", "MODERATE", "HIGH"} :
          \E yield \in 0 .. MaxOver :
            LET kept == IF balance > 0 /\ busy = "IDLE" THEN balance + avg - ctx.slice ELSE balance
            IN  /\ ctx' = [ctx EXCEPT !.budget = Clamped(kept - yield, ctx.slice)]
                /\ woken' = FALSE /\ Window(ctx.slice, yield, 0)
      BY <2>3 DEF TickYielding
    <3> DEFINE kept == IF balance > 0 /\ busy = "IDLE" THEN balance + avg - ctx.slice ELSE balance
    <3>b. PICK yield \in 0 .. MaxOver :
            /\ ctx' = [ctx EXCEPT !.budget = Clamped(kept - yield, ctx.slice)]
            /\ woken' = FALSE /\ Window(ctx.slice, yield, 0)
      BY <3>a
    <3>c. kept \in Int /\ yield \in Int BY <1>a, PacingAssumption
    <3>d. Clamped(kept - yield, ctx.slice) \in Int
      <4> HIDE DEF kept
      <4>1. kept - yield \in Int BY <3>c
      <4>2. QED BY ONLY <1>a, <4>1, ClampedType
    <3>e. ctx' \in Account BY <3>b, <3>d DEF TypeOK, Account
    <3>f. lead' \in Int BY <1>a, <3>b, <3>c DEF Window, TypeOK
    <3>g. cut' \in BOOLEAN BY <3>b DEF Window, TypeOK
    <3>1. ctx' \in Account /\ lead' \in Int /\ woken' \in BOOLEAN /\ cut' \in BOOLEAN
      BY <3>b, <3>e, <3>f, <3>g
    <3>2. QED BY <1>2, <2>1, <3>1 DEF Paced, TypeOK
  <2>4. QED BY <1>2, <2>2, <2>3 DEF Paced
<1>3. CASE Unpaced BY <1>3 DEF Unpaced, vars, TypeOK
<1>4. ASSUME NEW slice \in Slices, Restart(slice) PROVE TypeOK'
  <2>1. slice \in Nat /\ 0 \in Int BY <1>a
  <2>2. ctx' \in Account BY <1>4, <2>1 DEF Restart, TypeOK, Account
  <2>3. lead' \in Int BY <1>4, <1>a DEF Restart, Opened
  <2>4. QED BY <1>4, <2>2, <2>3 DEF Restart, TypeOK
<1>5. CASE SetAsImmediate BY <1>5 DEF SetAsImmediate, TypeOK, Account
<1>6. ASSUME NEW new \in Buffers, NEW saved \in Buffers \cup {NoContext},
             SwitchContext(new, saved)
      PROVE  TypeOK'
  <2>1. lead' \in Int BY <1>6, <1>a DEF SwitchContext, Opened
  <2>2. bufs' \in [Buffers -> Account] BY <1>6 DEF SwitchContext, TypeOK
  <2>3. QED BY <1>6, <2>1, <2>2 DEF SwitchContext, TypeOK
<1>7. CASE NestedTick
  <2>b. Earnings \subseteq Nat
    BY <1>a DEF Earnings
  <2>1. PICK earned \in Earnings :
        \E cost \in 0 .. since + 2 * (ctx.slice + MaxOver) :
          ctx' = [ctx EXCEPT !.budget = Clamped(ctx.budget + earned - cost, ctx.slice)]
    BY <1>7 DEF NestedTick
  <2>0. PICK cost \in 0 .. since + 2 * (ctx.slice + MaxOver) :
          ctx' = [ctx EXCEPT !.budget = Clamped(ctx.budget + earned - cost, ctx.slice)]
    BY <2>1
  <2>2. earned \in Nat /\ cost \in Nat
    BY <1>a, <2>b, <2>0, <2>1, PacingAssumption
  <2>3. ctx.budget + earned - cost \in Int
    BY <1>a, <2>2
  <2>4. Clamped(ctx.budget + earned - cost, ctx.slice) \in Int
    BY ONLY <1>a, <2>3, ClampedType
  <2>5. ctx' \in Account
    BY <2>0, <2>4 DEF TypeOK, Account
  <2>6. \A inner, outer \in 0 .. since : NewAvg(NewAvg(avg, inner), outer) \in Nat
    <3> SUFFICES ASSUME NEW inner \in 0 .. since, NEW outer \in 0 .. since
                 PROVE  NewAvg(NewAvg(avg, inner), outer) \in Nat
      OBVIOUS
    <3>1. inner \in Nat /\ outer \in Nat
      BY <1>a
    <3>2. \A old, sample \in Nat : NewAvg(old, sample) \in Nat
      BY DEF NewAvg
    <3> QED
      BY <1>a, <3>1, <3>2
  <2>7. avg' \in Nat
    BY <1>7, <2>6 DEF NestedTick
  <2>8. QED BY <1>7, <2>5, <2>7 DEF NestedTick, TypeOK
<1>8. CASE UNCHANGED vars BY <1>8 DEF vars, TypeOK
<1>9. QED BY <1>1, <1>2, <1>3, <1>4, <1>5, <1>6, <1>7, <1>8 DEF Next, Tick

(* The budget of every context stays an account of whole contexts.           *)
THEOREM PacingTypeCorrect == Spec => []TypeOK
  BY InitType, NextType, PTL DEF Spec

LEMMA InitPace == Init => PaceInv
<1> SUFFICES ASSUME Init PROVE PaceInv
  OBVIOUS
<1>1. Sound(ctx) /\ ctx.budget = 0 /\ ctx.slice \in Nat
  BY PacingAssumption DEF Init, Sound
<1>2. ASSUME NEW b \in Buffers PROVE Sound(bufs[b])
  <2>1. bufs[b] \in [policy : Modes, slice : Slices, budget : {0}]
    BY DEF Init
  <2>2. bufs[b].slice \in Nat /\ bufs[b].budget = 0
    BY <2>1, PacingAssumption
  <2>3. QED BY <2>2 DEF Sound
<1>3. QED BY <1>1, <1>2 DEF Init, PaceInv

LEMMA NextPace == TypeOK /\ PaceInv /\ [Next]_vars => PaceInv'
<1> SUFFICES ASSUME TypeOK, PaceInv, [Next]_vars, ~cut' PROVE PaceInv'
  BY DEF PaceInv
<1>0. ~cut
  <2>1. CASE NestedTick BY <2>1 DEF NestedTick
  <2>2. CASE ~NestedTick
    BY <2>2 DEF Next, Run, Tick, Paced, TickVsleep, TickYielding, Unpaced, Restart,
                SetAsImmediate, SwitchContext, Window, vars
  <2>3. QED BY <2>1, <2>2
<1>a. /\ ctx.budget \in Int /\ ctx.slice \in Nat /\ since \in Nat /\ lead \in Int
      /\ \A b \in Buffers : bufs[b].budget \in Int /\ bufs[b].slice \in Nat
      /\ \A slice \in Slices : slice \in Nat
  BY PacingAssumption DEF TypeOK, Account
<1>b. /\ Sound(ctx) /\ \A b \in Buffers : Sound(bufs[b])
      /\ ctx.policy = "YIELDING" => lead <= ctx.budget - since + 5 * ctx.slice
  BY <1>0 DEF PaceInv
<1>1. ASSUME NEW d \in 1 .. MaxRun, Run(d) PROVE PaceInv'
  <2>1. d \in Nat /\ lead' = lead + (-d) BY <1>0, <1>1, PacingAssumption DEF Run, Measured
  <2>2. ctx' = ctx /\ bufs' = bufs /\ since' = since + d BY <1>1 DEF Run
  <2>3. ctx.policy = "YIELDING" => lead' <= ctx.budget - since' + 5 * ctx.slice
    BY <1>a, <1>b, <2>1, <2>2
  <2>4. QED BY <1>b, <2>2, <2>3 DEF PaceInv, Sound
<1>2. CASE Paced /\ ctx.policy = "YIELDING"
  <2>1. TickVsleep /\ since' = 0 /\ UNCHANGED bufs
    BY <1>2 DEF Paced
  <2>2. PICK yield \in Nat, due \in Nat :
          /\ ctx' = [ctx EXCEPT !.budget = Clamped(ctx.budget + ctx.slice - since - yield, ctx.slice)]
          /\ Window(ctx.slice, yield, due)
          /\ due >= SleepTime(ctx.budget + ctx.slice - since, ctx.slice)
    BY <2>1, VsleepStep
  <2>y. yield >= due
    <3>1. cut' = (cut \/ yield < due) BY <2>2 DEF Window
    <3>2. ~(yield < due) BY <3>1
    <3>3. QED BY <3>2
  <2> DEFINE left == ctx.budget + ctx.slice - since - yield
  <2>3. left \in Int /\ left <= 0
    BY <1>a, <1>b, <1>2, <2>2, <2>y DEF SleepTime, Least, Sound
  <2>4. /\ ctx'.policy = ctx.policy /\ ctx'.slice = ctx.slice
        /\ ctx'.budget = Clamped(left, ctx.slice)
    BY <2>2 DEF TypeOK, Account
  <2>5. /\ ctx'.budget \in Int /\ -(5 * ctx.slice) <= ctx'.budget
        /\ left <= ctx'.budget /\ ctx'.budget <= 0
    BY <1>a, <2>3, <2>4, ClampedType
  <2>6. Sound(ctx') BY <2>4, <2>5 DEF Sound
  <2>7. lead' <= ctx'.budget + 5 * ctx.slice
    <3>1. CASE lead' = 0 BY <1>a, <2>5, <3>1
    <3>2. CASE lead' = lead + ctx.slice - yield
      BY <1>a, <1>b, <1>2, <2>2, <2>5, <3>2
    <3>3. QED BY <2>2, <3>1, <3>2 DEF Window
  <2>8. lead' \in Int BY <1>a, <2>2 DEF Window
  <2>9. lead' <= ctx'.budget - since' + 5 * ctx'.slice
    BY <1>a, <2>1, <2>4, <2>5, <2>7, <2>8
  <2>10. QED BY <1>b, <2>1, <2>6, <2>9 DEF PaceInv, Sound
<1>3. CASE Paced /\ ctx.policy = "PREDETERMINED"
  <2>1. TickYielding /\ UNCHANGED bufs BY <1>3 DEF Paced
  <2>2. ctx'.policy = "PREDETERMINED"
    BY <1>3, <2>1 DEF TickYielding, TypeOK, Account
  <2>3. QED BY <1>b, <2>1, <2>2 DEF PaceInv, Sound
<1>4. CASE Unpaced BY <1>b, <1>4 DEF Unpaced, vars, PaceInv, Sound
<1>5. ASSUME NEW slice \in Slices, Restart(slice) PROVE PaceInv'
  <2>1. ctx'.slice = slice /\ ctx'.budget = 0
    BY <1>5 DEF Restart, TypeOK, Account
  <2>2. Sound(ctx') BY <1>a, <2>1 DEF Sound
  <2>3. lead' <= ctx'.budget - since' + 5 * ctx'.slice
    BY <1>0, <1>5, <1>a, <2>1 DEF Restart, Opened
  <2>4. QED BY <1>b, <1>5, <2>2, <2>3 DEF Restart, PaceInv, Sound
<1>6. CASE SetAsImmediate
  <2>1. ctx'.policy = "IMMEDIATE"
    BY <1>6 DEF SetAsImmediate, TypeOK, Account
  <2>2. QED BY <1>b, <1>6, <2>1 DEF SetAsImmediate, PaceInv, Sound
<1>7. ASSUME NEW new \in Buffers, NEW saved \in Buffers \cup {NoContext},
             SwitchContext(new, saved)
      PROVE  PaceInv'
  <2>1. Sound(ctx') /\ ctx'.slice \in Nat /\ ctx'.budget \in Int
    BY <1>7, <1>a, <1>b DEF SwitchContext, Sound
  <2>2. \A b \in Buffers : Sound(bufs'[b])
    BY <1>b, <1>7 DEF SwitchContext, TypeOK
  <2>3. lead' = -since /\ since' = since BY <1>0, <1>7 DEF SwitchContext, Opened
  <2>4. ctx'.policy = "YIELDING" => lead' <= ctx'.budget - since' + 5 * ctx'.slice
    BY <1>a, <2>1, <2>3 DEF Sound
  <2>5. QED BY <2>1, <2>2, <2>4 DEF PaceInv, Sound
<1>8. CASE NestedTick BY <1>8 DEF NestedTick
<1>9. CASE UNCHANGED vars BY <1>b, <1>9 DEF vars, PaceInv, Sound
<1>10. QED BY <1>1, <1>2, <1>3, <1>4, <1>5, <1>6, <1>7, <1>8, <1>9 DEF Next, Tick, Paced, Norm

LEMMA PaceInductive == Spec => [](TypeOK /\ PaceInv)
  BY InitType, NextType, InitPace, NextPace, PTL DEF Spec

(* Over any number of ticks a thread is at most five slices ahead of its     *)
(* pace.                                                                     *)
THEOREM PaceIsBounded == Spec => []BurstBound
<1>1. TypeOK /\ PaceInv => BurstBound
  BY DEF TypeOK, Account, PaceInv, Sound, BurstBound
<1>2. QED BY <1>1, PaceInductive, PTL

(* No tick leaves a balance for a later one to sleep off.                    *)
THEOREM NothingIsOwed == Spec => []NothingOwed
<1>1. TypeOK /\ PaceInv => NothingOwed
  BY DEF TypeOK, Account, PaceInv, Sound, NothingOwed, Owes
<1>2. QED BY <1>1, PaceInductive, PTL


(* What cut sleeps have left of a balance, a tick that is not cut short      *)
(* makes less, or nothing: the step by which a thread gets back to its pace. *)
THEOREM DebtIsWorkedOff == Spec => DebtShrinks
<1>1. TypeOK /\ [Next]_vars =>
        [Tick /\ ctx.policy = "YIELDING" /\ Mapped /\ ~woken'
           => ctx'.budget <= 0 \/ ctx'.budget < ctx.budget]_vars
  <2> SUFFICES ASSUME TypeOK, Tick, ctx.policy = "YIELDING", Mapped, ~woken', ctx'.budget > 0
               PROVE  ctx'.budget < ctx.budget
    <3>1. ASSUME TypeOK, [Next]_vars PROVE [Next]_vars /\ ctx'.budget \in Int
      BY <3>1, NextType DEF TypeOK, Account
    <3> QED
      BY <3>1
  <2> DEFINE balance == ctx.budget + ctx.slice - since
             due     == IF balance > 0 THEN SleepTime(balance, ctx.slice) ELSE 0
             want    == IF Mapped THEN due ELSE 0
  <2>1. TickVsleep /\ since > 0
    BY DEF Tick, Paced, Unpaced
  <2>2. /\ ctx.budget \in Int /\ ctx.slice \in Nat /\ since \in Nat /\ balance \in Int /\ MaxOver \in Nat
    BY PacingAssumption DEF TypeOK, Account
  <2>3. want = due /\ want \in Nat
    BY <2>2, DueType
  <2>4. PICK yield \in Sleeps(want) :
          ctx' = [ctx EXCEPT !.budget = Clamped(balance - yield, ctx.slice)] /\ woken' = (yield < want)
    BY <2>1 DEF TickVsleep
  <2>5. yield \in Nat /\ yield >= due
    <3>1. yield \in Nat
      BY <2>2, <2>3 DEF Sleeps
    <3>2. ~ (yield < want)
      <4> HIDE DEF want
      <4> QED
        BY <2>4, Zenon
    <3> HIDE DEF want, due
    <3> QED
      BY <2>3, <3>1, <3>2
  <2>6. ctx'.budget = Clamped(balance - yield, ctx.slice)
    BY <2>4 DEF TypeOK, Account
  <2>7. balance - yield > 0 /\ ctx'.budget <= balance - yield
    BY <2>2, <2>5, <2>6 DEF Clamped, Least, Most
  <2>8. balance > 0 /\ due = Least(balance, ctx.slice)
    BY <2>2, <2>5, <2>7 DEF SleepTime
  <2>9. balance - yield <= ctx.budget - since
    BY <2>2, <2>5, <2>7, <2>8 DEF Least
  <2>10. ctx'.budget \in Int
    <3>1. balance - yield \in Int
      BY <2>2, <2>5
    <3> HIDE DEF balance
    <3> QED
      BY <2>2, <2>6, <3>1, ClampedType
  <2> QED
    BY <2>1, <2>2, <2>5, <2>7, <2>9, <2>10
<1> QED
  BY <1>1, InitType, NextType, PTL DEF Spec, DebtShrinks

-----------------------------------------------------------------------------
(* Words *)

Half == Word \div 2

LEMMA HalfType == Half \in Nat \ {0} /\ Word = 2 * Half /\ Word \in Nat \ {0}
BY WordAssumption DEF Half

\* The remainder is the only number below the divisor that is left.
LEMMA OnlyRemainder ==
  ASSUME NEW w \in Nat \ {0}, NEW x \in Int
  PROVE  /\ x % w \in 0 .. w - 1 /\ x \div w \in Int /\ x = (x \div w) * w + (x % w)
         /\ \A q \in Int, m \in 0 .. w - 1 : x = q * w + m => x % w = m
<1>1. ASSUME NEW q \in Int, NEW m \in 0 .. w - 1 PROVE (q * w + m) % w = m
  OBVIOUS
<1>2. x % w \in 0 .. w - 1 /\ x \div w \in Int /\ x = (x \div w) * w + (x % w)
  OBVIOUS
<1>3. ASSUME NEW q \in Int, NEW m \in 0 .. w - 1, x = q * w + m PROVE x % w = m
  BY <1>1, <1>3
<1> QED
  BY <1>2, <1>3

\* A number as an unsigned word, and as a signed one, is off by whole words; the
\* cases a tick comes upon.
LEMMA WordOf ==
  ASSUME NEW x \in Int
  PROVE  /\ U(x) \in 0 .. Word - 1 /\ S(x) \in -Half .. Half - 1
         /\ x \in 0 .. Word - 1 => U(x) = x /\ (S(x) = x \/ S(x) = x - Word)
         /\ x \in -Half .. Half - 1 => S(x) = x
         /\ x \in Half .. Word - 1 => S(x) = x - Word
         /\ x \in -Word .. -Half - 1 => S(x) = x + Word
<1>0. Half \in Nat \ {0} /\ Word = 2 * Half /\ Word \in Nat \ {0}
  BY HalfType
<1>1. U(x) \in 0 .. Word - 1
  BY <1>0, OnlyRemainder DEF U
<1>2. x \in 0 .. Word - 1 => U(x) = x
  BY <1>0 DEF U
<1>3. x \in -Word .. -1 => U(x) = x + Word
  BY <1>0 DEF U
<1>4. S(x) = IF U(x) < Half THEN U(x) ELSE U(x) - Word
  BY DEF S, Half
<1> QED
  BY <1>0, <1>1, <1>2, <1>3, <1>4

\* Whole words make no difference.
LEMMA WholeWords ==
  ASSUME NEW x \in Int, NEW k \in Int
  PROVE  U(x - k * Word) = U(x) /\ S(x - k * Word) = S(x)
<1>0. Word \in Nat \ {0}
  BY HalfType
<1> DEFINE q == x \div Word
           m == x % Word
<1>1. q \in Int /\ m \in 0 .. Word - 1 /\ x = q * Word + m
  BY <1>0, OnlyRemainder
<1> HIDE DEF q, m
<1>2. x - k * Word = (q - k) * Word + m
  <2>1. (q - k) * Word = q * Word - k * Word
    BY <1>0, <1>1
  <2>2. q * Word \in Int /\ k * Word \in Int /\ (q - k) * Word \in Int
    BY <1>0, <1>1
  <2> QED
    BY <1>0, <1>1, <2>1, <2>2
<1>3. (x - k * Word) % Word = m
  <2>1. x - k * Word \in Int /\ q - k \in Int
    BY <1>0, <1>1
  <2> QED
    BY <1>0, <1>1, <1>2, <2>1, OnlyRemainder
<1>4. U(x - k * Word) = U(x)
  BY <1>3 DEF U, m
<1> QED
  BY <1>4 DEF S

\* A quotient of naturals does not exceed what it divides.
LEMMA QuotientBelow ==
  ASSUME NEW p \in Nat, NEW r \in Nat \ {0}
  PROVE  p \div r \in Nat /\ p \div r <= p /\ (p \div r) * r <= p
<1> DEFINE q == p \div r
           m == p % r
<1>1. q \in Int /\ m \in 0 .. r - 1 /\ p = q * r + m
  BY OnlyRemainder
<1>2. q \in Nat
  OBVIOUS
<1> HIDE DEF q, m
<1>3. q * r <= p /\ q <= q * r
  BY <1>1, <1>2
<1> QED
  BY <1>2, <1>3 DEF q


-----------------------------------------------------------------------------
(* Rounds *)

\* The demand is one of words, and the estimate so far from their limit that a
\* slice can be added to it.
Demand == [target : 0 .. Word - 1, hist : 0 .. Word - 1 - Slice, used : 0 .. MaxUsed, bias : -Half .. Half - 1]
LatencyInv == ld \in Demand /\ LatencyTypeOK

LEMMA InitLatency == LatencyInit => LatencyInv
<1> SUFFICES ASSUME LatencyInit PROVE LatencyInv
  OBVIOUS
<1>0. Half \in Nat \ {0} /\ Word = 2 * Half /\ MaxUsed \in Nat /\ Slice \in Nat \ {0} /\ MaxElapsed \in Nat
      /\ MaxUsed + Slice < Word
  BY HalfType, LatencyAssumption, RangeAssumption
<1>1. PICK d \in Demands : \/ ld = [target |-> d.lat, hist |-> d.base, used |-> 0, bias |-> 0] /\ elapsed = 0
                           \/ ld = [target |-> d.lat, hist |-> 0, used |-> 0, bias |-> 0] /\ elapsed = MaxElapsed
  BY DEF LatencyInit
<1>2. d.lat \in 0 .. Word - 1 /\ d.base \in 0 .. Word - 1 - Slice
  BY RangeAssumption
<1>3. 0 \in 0 .. Word - 1 - Slice /\ 0 \in 0 .. MaxUsed /\ 0 \in -Half .. Half - 1
  BY <1>0
<1>4. ld \in Demand /\ elapsed \in 0 .. MaxElapsed
  BY <1>0, <1>1, <1>2, <1>3 DEF Demand
<1>5. /\ ld.target \in 0 .. Word - 1 /\ ld.hist \in 0 .. Word - 1 - Slice
      /\ ld.used \in 0 .. MaxUsed /\ ld.bias \in -Half .. Half - 1
  BY <1>4 DEF Demand
<1>6. ld.hist \in 0 .. Word - 1
  BY <1>0, <1>5
<1>7. sincePast \in 0 .. MaxElapsed /\ restarting \in BOOLEAN /\ nap = NULL
  <2>1. sincePast = 0 /\ restarting = FALSE /\ nap = NULL
    BY DEF LatencyInit
  <2>2. restarting \in BOOLEAN
    BY <2>1
  <2>3. sincePast \in 0 .. MaxElapsed
    BY <1>0, <2>1
  <2> QED
    BY <2>1, <2>2, <2>3, Zenon
<1> QED
  BY <1>4, <1>5, <1>6, <1>7 DEF LatencyInv, LatencyTypeOK, Half

\* The sleep of a tick is a signed word, whatever wraps on the way to it.
LEMMA SleepType ==
  ASSUME LatencyInv
  PROVE  SleepNs \in -Half .. Half - 1
<1>0. /\ Half \in Nat \ {0} /\ Word = 2 * Half /\ Slice \in Nat \ {0} /\ Margin \in Nat
      /\ MaxUsed \in Nat /\ MaxElapsed \in Nat
  BY HalfType, LatencyAssumption
<1>1. /\ elapsed \in 0 .. MaxElapsed /\ sincePast \in 0 .. MaxElapsed
      /\ ld.target \in 0 .. Word - 1 /\ ld.hist \in 0 .. Word - 1 - Slice
      /\ ld.used \in 0 .. MaxUsed /\ ld.bias \in -Half .. Half - 1
  BY DEF LatencyInv, LatencyTypeOK, Demand
<1>2. CASE ~ (RestNcycle > 0)
  BY <1>0, <1>2 DEF SleepNs
<1>3. CASE RestNcycle > 0
  <2>1. RestNcycle \in Int
    BY <1>0, <1>1, WordOf DEF RestNcycle
  <2>2. RestTime \in Int
    <3>1. TargetLat \in 0 .. Word - 1
      BY <1>0, <1>1, WordOf DEF TargetLat
    <3>2. S(TargetLat) \in Int
      BY <1>0, <3>1, WordOf
    <3>3. S(TargetLat) - elapsed \in Int
      BY <1>0, <1>1, <3>2
    <3> QED
      BY <1>0, <3>3, WordOf DEF RestTime
  <2>3. U(RestTime * Slice) \in Nat
    <3>1. RestTime * Slice \in Int
      BY <1>0, <2>2
    <3> QED
      BY <1>0, <3>1, WordOf
  <2>4. U(RestTime * Slice) \div RestNcycle \in Nat
    BY <1>3, <2>1, <2>3, QuotientBelow
  <2>5. PeriodAssume \in Int
    <3>1. U(RestTime * Slice) \div RestNcycle - Margin \in Int
      BY <1>0, <2>4
    <3> QED
      BY <1>0, <3>1, WordOf DEF PeriodAssume
  <2>6. S(PeriodAssume - sincePast) \in -Half .. Half - 1
    <3>1. PeriodAssume - sincePast \in Int
      BY <1>0, <1>1, <2>5
    <3> QED
      BY <3>1, WordOf
  <2> QED
    BY <1>3, <2>6 DEF SleepNs
<1> QED
  BY <1>2, <1>3

LEMMA NextLatency == LatencyInv /\ [LatencyNext]_latencyVars => LatencyInv'
<1> SUFFICES ASSUME LatencyInv, [LatencyNext]_latencyVars PROVE LatencyInv'
  OBVIOUS
<1>0. /\ Half \in Nat \ {0} /\ Word = 2 * Half /\ Word \in Nat /\ MaxUsed \in Nat /\ Slice \in Nat \ {0}
      /\ MaxElapsed \in Nat /\ Margin \in Nat /\ MaxUsed + Slice < Word
  BY HalfType, LatencyAssumption, RangeAssumption
<1>a. /\ ld \in Demand /\ elapsed \in 0 .. MaxElapsed /\ sincePast \in 0 .. MaxElapsed /\ restarting \in BOOLEAN
      /\ nap # NULL => nap.asked \in Margin + 1 .. Half - 1
  BY DEF LatencyInv, LatencyTypeOK, Half
<1>b. /\ ld.target \in 0 .. Word - 1 /\ ld.hist \in 0 .. Word - 1 - Slice
      /\ ld.used \in 0 .. MaxUsed /\ ld.bias \in -Half .. Half - 1
  BY <1>a DEF Demand
<1>c. ASSUME ld' \in Demand, elapsed' \in 0 .. MaxElapsed, sincePast' \in 0 .. MaxElapsed,
             restarting' \in BOOLEAN, nap' # NULL => nap'.asked \in Margin + 1 .. Half - 1
      PROVE  LatencyInv'
  <2>1. /\ ld'.target \in 0 .. Word - 1 /\ ld'.hist \in 0 .. Word - 1 - Slice
        /\ ld'.used \in 0 .. MaxUsed /\ ld'.bias \in -Half .. Half - 1
    BY <1>c DEF Demand
  <2>2. ld'.hist \in 0 .. Word - 1
    BY <1>0, <2>1
  <2>3. ld' \in Demand'
    BY <1>c DEF Demand, Half, Word
  <2> QED
    BY <1>c, <2>1, <2>2, <2>3 DEF LatencyInv, LatencyTypeOK, Half, Word
<1>d. \A t \in Nat : Bounded(t) \in 0 .. MaxElapsed
  BY <1>0 DEF Bounded
<1>1. ASSUME NEW d \in RunTimes, RunFor(d) PROVE LatencyInv'
  <2>1. d \in Nat
    BY LatencyAssumption
  <2>2. elapsed' \in 0 .. MaxElapsed /\ sincePast' \in 0 .. MaxElapsed
    BY <1>0, <1>1, <1>a, <1>d, <2>1 DEF RunFor
  <2> QED
    BY <1>1, <1>a, <1>c, <2>2 DEF RunFor
<1>2. CASE TickLatencyOriented
  <2>1. ld' \in Demand
    <3>1. ld.used + Slice \in 0 .. MaxUsed
      BY <1>0, <1>2, <1>b DEF TickLatencyOriented
    <3>2. ld' = [ld EXCEPT !.used = ld.used + Slice]
      BY <1>2 DEF TickLatencyOriented
    <3> QED
      BY <1>a, <3>1, <3>2 DEF Demand
  <2>2. SleepNs > Margin => SleepNs \in Margin + 1 .. Half - 1
    BY <1>0, SleepType
  <2>3. CASE SleepNs > Margin
    <3>1. PICK slept \in 0 .. Bounded(SleepNs) : elapsed' = Bounded(elapsed + slept)
      BY <1>0, <1>2, <2>2, <2>3 DEF TickLatencyOriented
    <3>2. slept \in Nat
      BY <1>0, <1>d, <2>2, <2>3, <3>1
    <3>3. elapsed' \in 0 .. MaxElapsed
      BY <1>0, <1>a, <1>d, <3>1, <3>2
    <3>4. nap' = Nap
      BY <1>0, <1>2, <2>2, <2>3 DEF TickLatencyOriented
    <3>5. nap'.asked = SleepNs
      BY <3>4 DEF Nap
    <3> QED
      BY <1>0, <1>2, <1>a, <1>c, <2>1, <2>2, <2>3, <3>3, <3>5 DEF TickLatencyOriented
  <2>4. CASE ~ (SleepNs > Margin)
    BY <1>0, <1>2, <1>a, <1>c, <2>1, <2>4 DEF TickLatencyOriented
  <2> QED
    BY <2>3, <2>4
<1>3. ASSUME NEW d \in Demands, SetAsLatencyFlick(d) PROVE LatencyInv'
  <2>1. d.lat \in 0 .. Word - 1 /\ d.base \in 0 .. Word - 1 - Slice
    BY RangeAssumption
  <2>2. ld' \in Demand
    BY <1>3, <1>a, <2>1 DEF SetAsLatencyFlick, Demand
  <2> QED
    BY <1>0, <1>3, <1>a, <1>c, <2>2 DEF SetAsLatencyFlick
<1>4. ASSUME NEW n \in Runcycles, AddRuncycle(n) PROVE LatencyInv'
  <2>1. ld.used + n \in 0 .. MaxUsed
    BY <1>0, <1>4, <1>b, LatencyAssumption DEF AddRuncycle
  <2>2. ld' \in Demand
    BY <1>4, <1>a, <2>1 DEF AddRuncycle, Demand
  <2> QED
    BY <1>4, <1>a, <1>c, <2>2 DEF AddRuncycle
<1>5. CASE ShotOnLatency
  <2>1. Mean(ld.hist, ld.used) \in 0 .. Word - 1 - Slice
    BY <1>0, <1>b DEF Mean
  <2>2. ld' \in Demand
    <3>1. ASSUME NEW h \in 0 .. Word - 1 - Slice PROVE [ld EXCEPT !.hist = h, !.used = 0] \in Demand
      <4>1. ASSUME NEW d \in Demand PROVE [d EXCEPT !.used = 0] \in Demand
        BY <1>0 DEF Demand
      <4>2. [ld EXCEPT !.hist = h] \in Demand
        BY <1>a DEF Demand
      <4> QED
        BY <4>1, <4>2
    <3> QED
      BY <1>5, <2>1, <3>1 DEF ShotOnLatency
  <2>3. restarting' = TRUE /\ nap' = NULL /\ elapsed' = elapsed /\ sincePast' = sincePast
    BY <1>5 DEF ShotOnLatency
  <2>4. restarting' \in BOOLEAN
    BY <2>3
  <2> QED
    BY <1>a, <1>c, <2>2, <2>3, <2>4, Zenon
<1>6. CASE RestartTime
  <2>1. restarting' \in BOOLEAN
    BY <1>6 DEF RestartTime
  <2>2. elapsed' \in 0 .. MaxElapsed
    BY <1>0, <1>6 DEF RestartTime
  <2> QED
    BY <1>6, <1>a, <1>c, <2>1, <2>2, Zenon DEF RestartTime
<1>7. ASSUME NEW f \in Feedbacks, ChainedFromLatency(f) PROVE LatencyInv'
  <2>1. Quotient((f.target - f.used) * f.percent, 100) \in -Half .. Half - 1
    BY RangeAssumption DEF Half
  <2>2. ld' \in Demand
    <3>1. ASSUME NEW q \in -Half .. Half - 1, ld' = [ld EXCEPT !.bias = q] PROVE ld' \in Demand
      BY <1>a, <3>1 DEF Demand
    <3>2. ld' = [ld EXCEPT !.bias = Quotient((f.target - f.used) * f.percent, 100)]
      BY <1>7 DEF ChainedFromLatency
    <3> QED
      BY <2>1, <3>1, <3>2
  <2> QED
    BY <1>0, <1>7, <1>a, <1>c, <2>2 DEF ChainedFromLatency
<1>8. CASE UNCHANGED latencyVars
  BY <1>8, <1>a, <1>c DEF latencyVars
<1> QED
  BY <1>1, <1>2, <1>3, <1>4, <1>5, <1>6, <1>7, <1>8 DEF LatencyNext, SetAnew

\* The words of a latency demand stay words, and the sleep of a tick is a signed
\* one that exceeds the margin: for words of any width, any demands and feedback,
\* any order of rounds, restarts and ticks.
THEOREM LatencyTypeCorrect == LatencySpec => []LatencyTypeOK
<1>1. LatencyInv => LatencyTypeOK
  BY DEF LatencyInv
<1> QED
  BY <1>1, InitLatency, NextLatency, PTL DEF LatencySpec


\* Before a deadline that no slack has moved away, what is left of the time is
\* what the tick shares out: the words that stand for it, and for its product
\* with the slice, are right.
LEMMA TimeIsShared ==
  ASSUME LatencyInv, ld.bias <= 0, Deadline - elapsed >= 0
  PROVE  /\ Deadline - elapsed \in Nat
         /\ U(RestTime * Slice) \in Nat /\ U(RestTime * Slice) < Word
         /\ U(RestTime * Slice) <= (Deadline - elapsed) * Slice
<1>0. /\ Half \in Nat \ {0} /\ Word = 2 * Half /\ Word \in Nat \ {0} /\ Slice \in Nat \ {0}
      /\ ld.target \in 0 .. Word - 1 /\ ld.bias \in -Half .. Half - 1 /\ elapsed \in Nat
  BY HalfType, LatencyAssumption DEF LatencyInv, LatencyTypeOK, Demand
<1> DEFINE left == Deadline - elapsed
<1>1. Deadline \in 0 .. Word - 1 /\ TargetLat = Deadline
  <2>1. U(-ld.bias) = -ld.bias
    BY <1>0, WordOf
  <2>2. CASE ld.target + ld.bias > 0
    <3>1. U(ld.target + ld.bias) = ld.target + ld.bias
      BY <1>0, <2>2, WordOf
    <3> QED
      BY <1>0, <2>1, <2>2, <3>1 DEF TargetLat, Deadline
  <2>3. CASE ~ (ld.target + ld.bias > 0)
    BY <1>0, <2>1, <2>3 DEF TargetLat, Deadline
  <2> QED
    BY <2>2, <2>3
<1>2. left \in 0 .. Word - 1
  BY <1>0, <1>1
<1>3. RestTime = left \/ RestTime = left - Word
  <2>1. S(left) = left \/ S(left) = left - Word
    BY <1>2, WordOf
  <2>2. S(TargetLat) = Deadline \/ S(TargetLat) = Deadline - Word
    BY <1>1, WordOf
  <2>3. S(TargetLat) - elapsed = left \/ S(TargetLat) - elapsed = left - 1 * Word
    BY <1>0, <1>1, <2>2
  <2>4. S(left - 1 * Word) = S(left)
    BY <1>2, WholeWords
  <2>5. RestTime = S(left)
    BY <2>3, <2>4 DEF RestTime
  <2> QED
    BY <2>1, <2>5
<1> HIDE DEF left
<1>4. U(RestTime * Slice) = U(left * Slice)
  <2>1. left * Slice \in Int
    BY <1>0, <1>2
  <2>2. (left - Word) * Slice = left * Slice - Slice * Word
    BY <1>0, <1>2
  <2>3. U(left * Slice - Slice * Word) = U(left * Slice)
    <3>1. ASSUME NEW x \in Int PROVE U(x - Slice * Word) = U(x)
      BY <1>0, WholeWords
    <3> QED
      BY <2>1, <3>1
  <2> QED
    BY <1>3, <2>2, <2>3
<1>5. left * Slice \in Nat
  BY <1>0, <1>2
<1>6. U(left * Slice) \in 0 .. Word - 1 /\ U(left * Slice) <= left * Slice
  <2>1. U(left * Slice) \in 0 .. Word - 1
    BY <1>5, WordOf
  <2>2. left * Slice < Word => U(left * Slice) = left * Slice
    BY <1>0, <1>5, WordOf
  <2> QED
    BY <1>0, <1>5, <2>1, <2>2
<1> QED
  BY <1>0, <1>2, <1>4, <1>6 DEF left

\* What a tick asks for is no more than what it has divided.
LEMMA MarginIsKept ==
  ASSUME LatencyInv, NEW q \in 0 .. Word - 1, S(S(q - Margin) - sincePast) > Margin
  PROVE  S(S(q - Margin) - sincePast) \in Int /\ S(S(q - Margin) - sincePast) <= q
<1>0. /\ Half \in Nat \ {0} /\ Word = 2 * Half /\ Word \in Nat \ {0} /\ Margin \in Nat
      /\ sincePast \in Nat /\ Margin + sincePast <= Half
  <2>1. /\ Half \in Nat \ {0} /\ Word = 2 * Half /\ Word \in Nat \ {0} /\ Margin \in Nat /\ MaxElapsed \in Nat
        /\ MaxElapsed + Margin <= Half
    BY HalfType, LatencyAssumption, RangeAssumption DEF Half
  <2>2. sincePast \in 0 .. MaxElapsed
    BY DEF LatencyInv, LatencyTypeOK
  <2> QED
    BY <2>1, <2>2
<1> DEFINE x == q - Margin
           p == S(x)
<1>1. \/ x \in -Half .. Half - 1 /\ p = x
      \/ x \in Half .. Word - 1 /\ p = x - Word
  BY <1>0, WordOf
<1> HIDE DEF p
<1>2. p \in Int /\ p - sincePast \in Int
  BY <1>0, <1>1
<1>3. CASE x \in -Half .. Half - 1 /\ p = x
  <2>1. p - sincePast \in -Half .. Half - 1
    BY <1>0, <1>3
  <2>2. S(p - sincePast) = p - sincePast
    BY <1>2, <2>1, WordOf
  <2> QED
    BY <1>0, <1>3, <2>2 DEF p
<1>4. CASE x \in Half .. Word - 1 /\ p = x - Word
  <2>1. p - sincePast \in -Word .. -1
    BY <1>0, <1>4
  <2>2. p - sincePast >= -Half => S(p - sincePast) = p - sincePast
    BY <1>0, <1>2, <2>1, WordOf
  <2>3. p - sincePast < -Half => S(p - sincePast) = p - sincePast + Word
    BY <1>0, <1>2, <2>1, WordOf
  <2> QED
    BY <1>0, <1>2, <1>4, <2>1, <2>2, <2>3 DEF p
<1> QED
  BY <1>1, <1>3, <1>4

\* A sleep, times the slices to come, is within the time left for all of them.
LEMMA SleepIsShared ==
  ASSUME LatencyInv, SleepNs > Margin, ld.bias <= 0, Deadline - elapsed >= 0
  PROVE  /\ SleepNs * (ld.hist - ld.used + Slice) <= (Deadline - elapsed) * Slice
         /\ ld.hist - ld.used >= 0 => SleepNs <= Deadline - elapsed
<1>0. /\ Half \in Nat \ {0} /\ Word = 2 * Half /\ Word \in Nat \ {0} /\ Slice \in Nat \ {0} /\ Margin \in Nat
      /\ ld.hist \in 0 .. Word - 1 - Slice /\ ld.used \in Nat /\ ld.used < Word
  <2>1. ld.used \in 0 .. MaxUsed /\ MaxUsed \in Nat /\ MaxUsed + Slice < Word
    BY LatencyAssumption, RangeAssumption DEF LatencyInv, LatencyTypeOK
  <2> QED
    BY <2>1, HalfType, LatencyAssumption DEF LatencyInv, Demand
<1> DEFINE left == Deadline - elapsed
           r    == ld.hist - ld.used + Slice
           p    == U(RestTime * Slice)
<1>1. left \in Nat /\ p \in Nat /\ p < Word /\ p <= left * Slice
  BY TimeIsShared
<1>2. RestNcycle > 0 /\ SleepNs = S(S((p \div RestNcycle) - Margin) - sincePast)
  BY <1>0 DEF SleepNs, PeriodAssume
<1>3. RestNcycle = S(r) /\ r \in Int /\ -Word < r /\ r < Word
  BY <1>0 DEF RestNcycle
<1> HIDE DEF left, p, r
<1>4. CASE r > 0
  <2>1. RestNcycle = r
    <3>1. r \in 0 .. Word - 1
      BY <1>0, <1>3, <1>4
    <3>2. S(r) = r \/ S(r) = r - Word
      BY <3>1, WordOf
    <3> QED
      BY <1>0, <1>2, <1>3, <3>2
  <2> DEFINE q == p \div r
             s == SleepNs
  <2>2. q \in Nat /\ q <= p /\ q * r <= p
    <3>1. r \in Nat \ {0}
      BY <1>3, <1>4
    <3> QED
      BY <1>1, <3>1, QuotientBelow
  <2>3. s \in Int /\ s > Margin /\ s <= q
    <3>1. q \in 0 .. Word - 1
      BY <1>0, <1>1, <2>2
    <3>2. s = S(S(q - Margin) - sincePast)
      BY <1>2, <2>1
    <3> HIDE DEF q, s
    <3>3. S(S(q - Margin) - sincePast) > Margin
      BY <3>2 DEF s
    <3> QED
      BY <3>1, <3>2, <3>3, MarginIsKept
  <2> HIDE DEF q, s
  <2>4. s * r <= q * r
    BY <1>0, <1>3, <1>4, <2>2, <2>3
  <2>5. s * r <= left * Slice
    <3>1. s * r \in Int /\ q * r \in Int /\ left * Slice \in Int
      BY <1>0, <1>1, <1>3, <2>2, <2>3
    <3> QED
      BY <1>1, <2>2, <2>4, <3>1
  <2>6. r >= Slice => s <= left
    <3> SUFFICES ASSUME r >= Slice, s > left PROVE FALSE
      BY <1>1, <2>3
    <3>1. s * Slice <= s * r
      BY <1>0, <1>3, <2>3
    <3>2. s * Slice >= (left + 1) * Slice
      BY <1>0, <1>1, <2>3
    <3>3. (left + 1) * Slice = left * Slice + Slice
      BY <1>0, <1>1
    <3>4. s * r \in Int /\ s * Slice \in Int /\ left * Slice \in Int
      BY <1>0, <1>1, <1>3, <2>3
    <3> QED
      BY <1>0, <2>5, <3>1, <3>2, <3>3, <3>4
  <2> QED
    BY <1>0, <2>5, <2>6 DEF left, r, s
<1>5. CASE r <= 0
  <2>1. ~ (ld.hist - ld.used >= 0)
    BY <1>0, <1>5 DEF r
  <2>2. SleepNs \in Int /\ SleepNs > 0
    BY <1>0, SleepType
  <2>3. SleepNs * r <= 0
    BY <1>3, <1>5, <2>2
  <2>4. left * Slice >= 0
    BY <1>0, <1>1
  <2>5. SleepNs * r \in Int /\ left * Slice \in Int
    BY <1>0, <1>1, <1>3, <2>2
  <2> QED
    BY <2>1, <2>3, <2>4, <2>5 DEF left, r
<1> QED
  BY <1>3, <1>4, <1>5

\* Before the deadline, and without slack from an earlier stage, no tick of
\* handle_tick_latency_oriented sleeps longer than the share of its slice in what
\* is left, although the time and its product with the slice are words that wrap:
\* for words of any width, and whatever rounds, restarts and feedback came before.
THEOREM NoSleepMissesTheDeadline == LatencySpec => []SleepsWithinDeadline
<1>1. LatencyInit => SleepsWithinDeadline
  BY DEF LatencyInit, SleepsWithinDeadline
<1>2. LatencyInv /\ SleepsWithinDeadline /\ [LatencyNext]_latencyVars => SleepsWithinDeadline'
  <2> SUFFICES ASSUME LatencyInv, SleepsWithinDeadline, [LatencyNext]_latencyVars PROVE SleepsWithinDeadline'
    OBVIOUS
  <2>1. CASE TickLatencyOriented /\ SleepNs > Margin
    <3>0. SleepNs \in Int /\ Margin \in Int
      BY HalfType, SleepType, LatencyAssumption
    <3>1. nap' = Nap
      BY <2>1, <3>0 DEF TickLatencyOriented
    <3>2. /\ nap'.asked = SleepNs /\ nap'.left = Deadline - elapsed
          /\ nap'.cycles = ld.hist - ld.used /\ nap'.slack = ld.bias
      BY <3>1 DEF Nap
    <3> QED
      BY <2>1, <3>2, SleepIsShared DEF SleepsWithinDeadline
  <2>2. CASE nap' = NULL
    BY <2>2 DEF SleepsWithinDeadline
  <2>3. CASE UNCHANGED latencyVars
    BY <2>3 DEF latencyVars, SleepsWithinDeadline
  <2> QED
    BY <2>1, <2>2, <2>3
       DEF LatencyNext, RunFor, TickLatencyOriented, SetAnew, SetAsLatencyFlick, AddRuncycle, ShotOnLatency,
           RestartTime, ChainedFromLatency
<1> QED
  BY <1>1, <1>2, InitLatency, NextLatency, PTL DEF LatencySpec


-----------------------------------------------------------------------------
(* The step behind EstimateSettles *)

\* Cycles the estimate is off by; an estimate one below is as good as it gets,
\* since the mean is cut to an integer.
Settled(n) == {n - 1, n}
Off(hist, n) == IF hist > n THEN hist - n ELSE n - hist

\* A round brings the estimate nearer to what it has used, or leaves it where it
\* is settled; nothing but a round and a new demand changes it.
EstimateApproaches ==
  [][/\ ShotOnLatency =>
          IF ld.hist \in Settled(ld.used) THEN ld'.hist = ld.hist
          ELSE Off(ld'.hist, ld.used) < Off(ld.hist, ld.used)
     /\ ld'.hist # ld.hist => ShotOnLatency \/ SetAnew]_latencyVars

LEMMA MeanIsNearer ==
  ASSUME NEW h \in Nat, NEW n \in Nat
  PROVE  IF h \in Settled(n) THEN Mean(h, n) = h ELSE Off(Mean(h, n), n) < Off(h, n)
<1> DEFINE mean == (h + n) \div 2
<1>1. mean \in Nat /\ 2 * mean <= h + n /\ h + n < 2 * mean + 2
  OBVIOUS
<1> HIDE DEF mean
<1>2. CASE h > n
  <2>1. n <= mean /\ mean < h
    BY <1>1, <1>2
  <2> QED
    BY <1>1, <1>2, <2>1 DEF Settled, Off, Mean, mean
<1>3. CASE h \in Settled(n)
  <2>1. mean = h
    BY <1>1, <1>3 DEF Settled
  <2> QED
    BY <1>3, <2>1 DEF Mean, mean
<1>4. CASE h < n - 1
  <2>1. h < mean /\ mean < n
    BY <1>1, <1>4
  <2> QED
    BY <1>1, <1>4, <2>1 DEF Settled, Off, Mean, mean
<1> QED
  BY <1>2, <1>3, <1>4 DEF Settled

\* robflex_shot_on_latency (robflex_api.c:343): rounds of the same cycles bring
\* the estimate to them step by step, from wherever a demand or another round
\* has left it, and no tick, feedback or restart moves it. Together with the
\* rounds going on, this is EstimateSettles.
THEOREM EstimateGetsNearer == LatencySpec => EstimateApproaches
<1> DEFINE Nearer ==
      /\ ShotOnLatency =>
           IF ld.hist \in Settled(ld.used) THEN ld'.hist = ld.hist
           ELSE Off(ld'.hist, ld.used) < Off(ld.hist, ld.used)
      /\ ld'.hist # ld.hist => ShotOnLatency \/ SetAnew
<1>1. LatencyInv /\ [LatencyNext]_latencyVars => [Nearer]_latencyVars
  <2> SUFFICES ASSUME LatencyInv, LatencyNext PROVE Nearer
    BY DEF Nearer
  <2>1. ld \in Demand /\ ld.hist \in Nat /\ ld.used \in Nat
    BY DEF LatencyInv, LatencyTypeOK, Demand
  <2>2. ASSUME ShotOnLatency
        PROVE  IF ld.hist \in Settled(ld.used) THEN ld'.hist = ld.hist
               ELSE Off(ld'.hist, ld.used) < Off(ld.hist, ld.used)
    <3>1. ld'.hist = Mean(ld.hist, ld.used)
      BY <2>1, <2>2 DEF ShotOnLatency, Demand
    <3> QED
      BY <2>1, <3>1, MeanIsNearer
  <2>3. ShotOnLatency \/ SetAnew \/ ld'.hist = ld.hist
    BY <2>1 DEF LatencyNext, Demand, RunFor, TickLatencyOriented, AddRuncycle, RestartTime,
                ChainedFromLatency
  <2> QED
    BY <2>2, <2>3
<1> HIDE DEF Nearer
<1>2. LatencySpec => [][Nearer]_latencyVars
  BY <1>1, InitLatency, NextLatency, PTL DEF LatencySpec
<1> QED
  BY <1>2 DEF EstimateApproaches, Nearer


-----------------------------------------------------------------------------
(* What the sleeps of a round come to *)

\* A tick before a deadline that no slack has moved away leaves no less time for
\* each cycle still expected than it found, and a round that has used no more
\* cycles than expected is not late after it.
OnTime == ld.bias <= 0 /\ Deadline - elapsed >= 0
TicksKeepThePace ==
  [][TickLatencyOriented /\ OnTime =>
       /\ (Deadline' - elapsed') * (ld.hist - ld.used + Slice) >= (Deadline - elapsed) * (ld'.hist - ld'.used + Slice)
       /\ ld.hist - ld.used >= 0 => Deadline' - elapsed' >= 0]_latencyVars

\* The clock goes on by the sleep, by less, or not at all.
LEMMA ClockMoves ==
  ASSUME LatencyInv, TickLatencyOriented
  PROVE  /\ elapsed' - elapsed \in Nat
         /\ elapsed' # elapsed => SleepNs > Margin /\ elapsed' - elapsed <= SleepNs
<1>1. elapsed \in Nat /\ elapsed <= MaxElapsed /\ MaxElapsed \in Nat /\ SleepNs \in Int /\ Margin \in Nat
  BY HalfType, SleepType, LatencyAssumption DEF LatencyInv, LatencyTypeOK
<1>2. CASE elapsed' = elapsed
  <2>1. elapsed' - elapsed = 0
    BY <1>1, <1>2
  <2> QED
    BY <1>2, <2>1
<1>3. CASE elapsed' # elapsed
  <2>1. SleepNs > Margin
    BY <1>3 DEF TickLatencyOriented
  <2>2. PICK slept \in 0 .. Bounded(SleepNs) : elapsed' = Bounded(elapsed + slept)
    BY <1>3 DEF TickLatencyOriented
  <2>3. Bounded(SleepNs) \in Int /\ Bounded(SleepNs) <= SleepNs
    BY <1>1 DEF Bounded
  <2>4. slept \in Nat /\ slept <= SleepNs
    BY <1>1, <2>3
  <2>5. elapsed' \in Nat /\ elapsed <= elapsed' /\ elapsed' <= elapsed + slept
    BY <1>1, <2>2, <2>4 DEF Bounded
  <2>6. \A a, b, d \in Nat : a <= b /\ b <= a + d => b - a \in Nat /\ b - a <= d
    OBVIOUS
  <2>7. elapsed' - elapsed \in Nat /\ elapsed' - elapsed <= slept
    BY <1>1, <2>4, <2>5, <2>6, Zenon
  <2>8. elapsed' - elapsed <= SleepNs
    BY <1>1, <2>4, <2>7
  <2> QED
    BY <2>1, <2>7, <2>8, Zenon
<1> QED
  BY <1>2, <1>3

\* inc/robflex_def.h:114: what a single sleep promises adds up over a round. Time
\* per cycle is never given away by a tick of handle_tick_latency_oriented, so a
\* round whose cycles need no more than it began with is as well off after every
\* tick; and no tick makes a round late.
THEOREM TicksShareTheRound == LatencySpec => TicksKeepThePace
<1> DEFINE Kept ==
      TickLatencyOriented /\ OnTime =>
        /\ (Deadline' - elapsed') * (ld.hist - ld.used + Slice) >= (Deadline - elapsed) * (ld'.hist - ld'.used + Slice)
        /\ ld.hist - ld.used >= 0 => Deadline' - elapsed' >= 0
<1>1. LatencyInv /\ [LatencyNext]_latencyVars => [Kept]_latencyVars
  <2> SUFFICES ASSUME LatencyInv, TickLatencyOriented, OnTime
               PROVE  /\ (Deadline' - elapsed') * (ld.hist - ld.used + Slice)
                           >= (Deadline - elapsed) * (ld'.hist - ld'.used + Slice)
                      /\ ld.hist - ld.used >= 0 => Deadline' - elapsed' >= 0
    BY DEF Kept
  <2> DEFINE left == Deadline - elapsed
             r    == ld.hist - ld.used + Slice
             w    == elapsed' - elapsed
             s    == SleepNs
  <2>1. /\ ld.hist \in Nat /\ ld.used \in Nat /\ elapsed \in Nat /\ Slice \in Nat \ {0}
        /\ ld \in Demand
    BY HalfType, LatencyAssumption DEF LatencyInv, LatencyTypeOK
  <2>2. /\ Deadline' = Deadline
        /\ ld'.hist = ld.hist /\ ld'.used = ld.used + Slice
    BY <2>1 DEF TickLatencyOriented, Deadline, Demand
  <2>3. left \in Nat /\ r \in Int /\ w \in Nat /\ s \in Int
    BY <2>1, HalfType, SleepType, TimeIsShared, ClockMoves DEF OnTime
  <2>4. w # 0 => /\ w <= s
                 /\ s * r <= left * Slice
                 /\ r >= Slice => s <= left
    <3> SUFFICES ASSUME w # 0
                 PROVE  w <= s /\ s * r <= left * Slice /\ (r >= Slice => s <= left)
      OBVIOUS
    <3>1. SleepNs > Margin /\ w <= s
      BY <2>1, ClockMoves
    <3>2. /\ SleepNs * (ld.hist - ld.used + Slice) <= (Deadline - elapsed) * Slice
          /\ ld.hist - ld.used >= 0 => SleepNs <= Deadline - elapsed
      BY <3>1, SleepIsShared DEF OnTime
    <3>3. r >= Slice => ld.hist - ld.used >= 0
      BY <2>1
    <3> QED
      BY <3>1, <3>2, <3>3
  <2>5. /\ Deadline' - elapsed' = left - w
        /\ ld'.hist - ld'.used + Slice = r - Slice
        /\ ld.hist - ld.used >= 0 => r >= Slice
    <3>1. Deadline = left + elapsed /\ elapsed' = elapsed + w
      <4>1. Deadline \in Int
        BY <2>1, HalfType DEF Deadline, Demand
      <4>2. elapsed' \in Int
        BY NextLatency DEF LatencyNext, LatencyInv, LatencyTypeOK
      <4>3. elapsed \in Int
        BY <2>1
      <4>4. \A x, y \in Int : x = (x - y) + y /\ x = y + (x - y)
        OBVIOUS
      <4> QED
        BY <4>1, <4>2, <4>3, <4>4, Zenon
    <3> QED
      BY <2>1, <2>2, <2>3, <3>1
  <2> HIDE DEF left, r, w, s
  <2>6. w * r <= left * Slice
    <3>1. left * Slice \in Nat
      BY <2>1, <2>3
    <3>2. CASE w = 0
      BY <2>3, <3>1, <3>2
    <3>3. CASE w # 0 /\ r > 0
      <4>1. w * r <= s * r
        BY <2>3, <2>4, <3>3
      <4>2. w * r \in Int /\ s * r \in Int
        BY <2>3
      <4> QED
        BY <2>4, <3>1, <3>3, <4>1, <4>2
    <3>4. CASE r <= 0
      <4>1. w * r <= 0 /\ w * r \in Int
        BY <2>3, <3>4
      <4> QED
        BY <3>1, <4>1
    <3> QED
      BY <2>3, <3>2, <3>3, <3>4
  <2>7. (left - w) * r >= left * (r - Slice)
    <3>1. (left - w) * r = left * r - w * r /\ left * (r - Slice) = left * r - left * Slice
      BY <2>1, <2>3
    <3>2. left * r \in Int /\ w * r \in Int /\ left * Slice \in Int
      BY <2>1, <2>3
    <3> QED
      BY <2>6, <3>1, <3>2
  <2>8. r >= Slice => left - w >= 0
    BY <2>3, <2>4
  <2> QED
    BY <2>5, <2>7, <2>8 DEF left, r
<1> HIDE DEF Kept
<1>2. LatencySpec => [][Kept]_latencyVars
  BY <1>1, InitLatency, NextLatency, PTL DEF LatencySpec
<1> QED
  BY <1>2 DEF TicksKeepThePace, Kept
=============================================================================
