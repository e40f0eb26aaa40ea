--------------------------- MODULE GbaSystemProofs ---------------------------
(* The GBA: the time keeping of GbaSystemRunner, for every display geometry,
   every set of instruction costs and quotas, any number of DMA channels and any
   guest, and, at the end, the register banks of its CPU.

   What is counted is spread over several places while calls are in progress:
   the budget a compiled block has used up, the ticks a catch-up still owes, the
   ticks the runner still owes for a step.  Behind adds them up.  Position +
   Behind = elapsed (modulo a frame) is invariant until a catch-up runs outside
   a step, which needs the shape of the call stack (Stack), the room the budget
   leaves before the next display event (Budget), and the place of the beam at
   every step of Tick (Beam).  Those six parts and Prompt are inductive. *)
EXTENDS GbaSystem, ArmBanks, SequenceTheorems, TLAPS

\* The two kinds of members of Calls.
TickCalls == [fn : {"Tick"}, pc : {"step", "roll", "match"}, rem : Nat, sync : BOOLEAN]
DmaCalls == [fn : {"Dma"}, pc : {"test", "read", "write"}, when : {"Now", "VBlank", "HBlank"},
             ch : Nat, irq : BOOLEAN, from : {"Memory", "Io"}, to : {"Memory", "Io"},
             units : Nat]

\* Where calls may be in progress, and at the bottom of the stack: the runner's
\* own Tick, the catch-up of a read, or an immediate transfer.
Bottom(c) ==
    \/ at \in {"asleep", "deliver"} /\ c.fn = "Tick" /\ ~c.sync
    \/ at \in {"read", "trace"} /\ c.fn = "Tick" /\ c.sync
    \/ at = "busy" /\ c.fn = "Dma" /\ c.when = "Now"

\* A catch-up or an immediate transfer, not a trigger.
InBlockCall(c) == c.pc # "test" /\ (c.fn = "Dma" => c.when = "Now")

\* Only the bottom Tick may be the runner's; any other is a catch-up, there is at
\* most one, and inSync says whether it is in progress.  In the middle of a block
\* a catch-up reaches no event: it starts no transfer, and no trigger runs.
Stack ==
    /\ calls # <<>> => Bottom(calls[Len(calls)])
    /\ at = "read" => Len(calls) <= 1
    /\ at = "busy" => \A i \in 1 .. Len(calls) :
                         InBlockCall(calls[i]) /\ (i > 1 => calls[i].fn = "Dma")
    /\ \A i \in 1 .. Len(calls) - 1 : calls[i].fn = "Tick" => calls[i].sync
    /\ inSync <=> \E i \in 1 .. Len(calls) : calls[i].fn = "Tick" /\ calls[i].sync
    /\ \A i, j \in 1 .. Len(calls) :
          /\ calls[i].fn = "Tick" /\ calls[i].sync
          /\ calls[j].fn = "Tick" /\ calls[j].sync
          => i = j

\* The interpreter never leaves time uncounted in CyclesLeft, so it never
\* catches up.  Under the block JIT a catch-up outside an instruction has drifted.
Drifts ==
    /\ ~jit => budgetAtStep = left /\ ~drift
    /\ ~jit /\ at \in {"cpu", "read", "busy", "stepped"} => left = budget
    /\ inSync /\ at \notin {"read", "busy"} => drift

\* HBlank is entered the moment the beam gets there; the line ends in a Tick
\* that is about to advance it.
Beam ==
    /\ ~hbl /\ line < Visible => cyc < HDraw
    /\ cyc = Line => \E i \in 1 .. Len(calls) : calls[i].fn = "Tick" /\ calls[i].pc = "roll"

\* An instruction is in progress, or one may start.
InBlock == at \in {"cpu", "read", "busy"}

\* What the catch-up of a block, which is on top, or the runner's Tick, which is at
\* the bottom, still has to do.
TickRem ==
    IF calls = <<>> THEN 0 ELSE IF InBlock THEN calls[1].rem ELSE calls[Len(calls)].rem

\* Time that was executed, or is about to be counted, and not yet ticked.
Behind ==
    IF InBlock THEN IF inSync THEN TickRem ELSE budgetAtStep - left
    ELSE IF at = "stepped" THEN stepCycles - (budget - budgetAtStep)
    ELSE IF at = "asleep" THEN TickRem - 1
    ELSE TickRem

\* The display is not behind by so much, and the rest of the budget is not so
\* long, that the next event would come before the step ends.
Budget ==
    /\ InBlock => 
         /\ left >= 1
         /\ cyc + Behind + left <= Line
         /\ ~hbl /\ line < Visible => cyc + Behind + left <= HDraw
    /\ at = "read" /\ ~inSync => budgetAtStep = left
    /\ at = "stepped" => Behind >= 1

\* Equality modulo a frame.
SameTime(a, b) == (a - b) % Frame = 0

\* The display and the time it is behind make up the time executed.
Clock == ~drift => SameTime(Position + Behind, elapsed)

\* After a poll nothing is deliverable until the guest touches the interrupt
\* registers; a catch-up in the middle of a block raises nothing.
Prompt ==
    /\ at \notin {"asleep", "deliver"} => ~Deliverable \/ touched \/ drift
    /\ at = "busy" /\ calls # <<>> => touched
    /\ at \in {"read", "busy"} /\ calls # <<>> => calls[1].pc # "match"

-----------------------------------------------------------------------------
\* A stack of more than one call.
LEMMA Several ==
    ASSUME NEW n \in Nat, n >= 1, n # 1
    PROVE  n >= 2 /\ 1 \in 1 .. n - 1 /\ 1 \in 1 .. n /\ n \in 2 .. n
OBVIOUS

\* Sequences: something put on top,
LEMMA OnTop ==
    ASSUME NEW S, NEW e \in S, NEW s \in Seq(S)
    PROVE  /\ <<e>> \o s \in Seq(S) /\ <<e>> \o s # <<>>
           /\ Len(<<e>> \o s) = Len(s) + 1
           /\ (<<e>> \o s)[1] = e
           /\ \A i \in 1 .. Len(s) : (<<e>> \o s)[i + 1] = s[i]
OBVIOUS

\* taken from the top,
LEMMA Popped ==
    ASSUME NEW S, NEW s \in Seq(S), s # <<>>
    PROVE  /\ Tail(s) \in Seq(S) /\ Len(s) >= 1 /\ Len(Tail(s)) = Len(s) - 1
           /\ Head(s) = s[1] /\ s[1] \in S
           /\ \A i \in 1 .. Len(s) - 1 : Tail(s)[i] = s[i + 1]
OBVIOUS

\* put in its place,
LEMMA Replaced ==
    ASSUME NEW S, NEW s \in Seq(S), s # <<>>, NEW e \in S
    PROVE  /\ <<e>> \o Tail(s) \in Seq(S) /\ <<e>> \o Tail(s) # <<>>
           /\ Len(<<e>> \o Tail(s)) = Len(s)
           /\ (<<e>> \o Tail(s))[1] = e
           /\ \A i \in 2 .. Len(s) : (<<e>> \o Tail(s))[i] = s[i]
OBVIOUS

\* or put in its place with another on top.
LEMMA ReplacedAndOnTop ==
    ASSUME NEW S, NEW s \in Seq(S), s # <<>>, NEW e \in S, NEW f \in S
    PROVE  /\ <<f>> \o <<e>> \o Tail(s) \in Seq(S) /\ <<f>> \o <<e>> \o Tail(s) # <<>>
           /\ Len(<<f>> \o <<e>> \o Tail(s)) = Len(s) + 1
           /\ (<<f>> \o <<e>> \o Tail(s))[1] = f
           /\ (<<f>> \o <<e>> \o Tail(s))[2] = e
           /\ \A i \in 2 .. Len(s) : (<<f>> \o <<e>> \o Tail(s))[i + 1] = s[i]
<1> DEFINE r == <<f>> \o <<e>>
           t == Tail(s)
<1>1. r \in Seq(S) /\ Len(r) = 2 /\ r[1] = f /\ r[2] = e
  OBVIOUS
<1>2. t \in Seq(S) /\ Len(s) >= 1 /\ Len(t) = Len(s) - 1
  BY Popped
<1>3. \A i \in 2 .. Len(s) : t[i - 1] = s[i]
  BY Popped
<1> HIDE DEF r, t
<1>4. /\ r \o t \in Seq(S) /\ Len(r \o t) = Len(r) + Len(t)
      /\ \A i \in 1 .. Len(r) + Len(t) : (r \o t)[i] = IF i <= Len(r) THEN r[i] ELSE t[i - Len(r)]
  BY <1>1, <1>2, ConcatProperties
<1>5. ASSUME NEW i \in 2 .. Len(s) PROVE (r \o t)[i + 1] = s[i]
  <2>1. (r \o t)[i + 1] = t[i - 1]
    BY <1>1, <1>2, <1>4
  <2> QED BY <1>3, <2>1
<1> QED BY <1>1, <1>2, <1>4, <1>5 DEF r, t

\* The empty concatenation of TickStep and TickRoll.
LEMMA NothingOnTop == ASSUME NEW S, NEW e \in S, NEW s \in Seq(S) PROVE <<>> \o <<e>> \o s = <<e>> \o s
OBVIOUS
\* Only the empty stack has length 0.
LEMMA Empty == ASSUME NEW S, NEW s \in Seq(S) PROVE (s = <<>>) <=> (Len(s) = 0)
OBVIOUS
-----------------------------------------------------------------------------
\* A call is a Tick or a transfer.
LEMMA CallKinds ==
    ASSUME NEW c \in Calls
    PROVE  /\ c.fn = "Tick" => c \in TickCalls
           /\ c.fn # "Tick" => c \in DmaCalls
           /\ c.fn \in {"Tick", "Dma"}
BY DEF Calls, TickCalls, DmaCalls

\* The fields of a Tick.
LEMMA TickFields ==
    ASSUME NEW c \in TickCalls
    PROVE  c.fn = "Tick" /\ c.pc \in {"step", "roll", "match"} /\ c.rem \in Nat /\ c.sync \in BOOLEAN
BY DEF TickCalls

\* A Tick that moves on keeps what it still has to do.
LEMMA TickGoto ==
    ASSUME NEW c \in TickCalls, NEW p \in {"step", "roll", "match"}
    PROVE  LET d == [c EXCEPT !.pc = p]
           IN  d \in Calls /\ d.fn = "Tick" /\ d.pc = p /\ d.rem = c.rem /\ d.sync = c.sync
BY DEF TickCalls, Calls

\* The fields of a new Tick,
LEMMA NewTick ==
    ASSUME NEW n \in Nat, NEW y \in BOOLEAN
    PROVE  LET d == TickCall(n, y)
           IN  d \in Calls /\ d.fn = "Tick" /\ d.pc = "step" /\ d.rem = n /\ d.sync = y
BY DEF TickCall, Calls
\* and of a new trigger.
LEMMA NewTrigger ==
    ASSUME NEW w \in {"Now", "VBlank", "HBlank"}
    PROVE  LET d == TriggerCall(w, 0)
           IN  d \in Calls /\ d.fn = "Dma" /\ d.pc = "test" /\ d.when = w
BY DEF TriggerCall, Calls
\* and of one that goes on to a channel.
LEMMA NewTriggerCall ==
    ASSUME NEW w \in {"Now", "VBlank", "HBlank"}, NEW ch \in Nat
    PROVE  TriggerCall(w, ch) \in DmaCalls /\ TriggerCall(w, ch).when = w
BY DEF TriggerCall, DmaCalls

\* The fields of a transfer,
LEMMA DmaFields ==
    ASSUME NEW c \in DmaCalls
    PROVE  /\ c.fn = "Dma" /\ c.pc \in {"test", "read", "write"} /\ c.irq \in BOOLEAN
           /\ c.ch \in Nat /\ c.units \in Nat /\ c.when \in {"Now", "VBlank", "HBlank"}
           /\ c \in Calls
BY DEF DmaCalls, Calls

\* as it starts,
LEMMA DmaNew ==
    ASSUME NEW w \in {"Now", "VBlank", "HBlank"}, NEW ch \in Nat,
           NEW t \in Transfers \cup {Off}, NEW k \in Copies
    PROVE  /\ TransferCall(w, ch, t, k) \in DmaCalls
           /\ TransferCall(w, ch, t, k).when = w /\ TransferCall(w, ch, t, k).pc = "read"
<1>1. t.irq \in BOOLEAN
  <2>1. Transfers \subseteq [when : {"Now", "VBlank", "HBlank", "Special"}, irq : BOOLEAN]
    BY DeviceAssumption
  <2>2. Off.irq = FALSE
    BY DEF Off
  <2> QED BY <2>1, <2>2
<1>2. k.from \in {"Memory", "Io"} /\ k.to \in {"Memory", "Io"} /\ k.units \in Nat
  <2>1. Copies \subseteq [from : {"Memory", "Io"}, to : {"Memory", "Io"}, units : Nat \ {0}]
    BY DeviceAssumption
  <2> QED BY <2>1
<1>3. /\ TransferCall(w, ch, t, k) \in DmaCalls
      /\ TransferCall(w, ch, t, k).when = w /\ TransferCall(w, ch, t, k).pc = "read"
  BY <1>1, <1>2 DEF TransferCall, DmaCalls
<1> QED BY <1>3

\* and between the units it copies.
LEMMA DmaUnit ==
    ASSUME NEW c \in DmaCalls
    PROVE  /\ [c EXCEPT !.pc = "read"] \in DmaCalls
           /\ [c EXCEPT !.pc = "read"].when = c.when /\ [c EXCEPT !.pc = "read"].pc = "read"
           /\ c.units > 0 =>
                 LET d == [[c EXCEPT !.pc = "write"] EXCEPT !.units = @ - 1]
                 IN  d \in DmaCalls /\ d.when = c.when /\ d.pc = "write"
<1>1. /\ [c EXCEPT !.pc = "read"] \in DmaCalls
      /\ [c EXCEPT !.pc = "read"].when = c.when /\ [c EXCEPT !.pc = "read"].pc = "read"
  BY DEF DmaCalls
<1> DEFINE b == [c EXCEPT !.pc = "write"]
           d == [b EXCEPT !.units = @ - 1]
<1>2. b \in DmaCalls /\ b.when = c.when /\ b.pc = "write" /\ b.units = c.units
  BY DEF DmaCalls
<1> HIDE DEF b
<1>3. ASSUME c.units > 0 PROVE d \in DmaCalls /\ d.when = c.when /\ d.pc = "write"
  <2>1. b.units - 1 \in Nat
    BY <1>2, <1>3, DmaFields
  <2> QED BY <1>2, <2>1 DEF DmaCalls
<1> QED BY <1>1, <1>3 DEF b
-----------------------------------------------------------------------------
(* How a step changes the stack of calls. *)

\* The inductive invariant.
Inv == TypeOK /\ Stack /\ Drifts /\ Beam /\ Budget /\ Clock /\ Prompt

\* How an action changes the stack: its top by e,
Replaces(e) ==
    /\ e \in Calls /\ calls' \in Seq(Calls) /\ Len(calls') = Len(calls) /\ calls' # <<>>
    /\ calls'[1] = e
    /\ \A i \in 2 .. Len(calls) : calls'[i] = calls[i]

\* its top by e with f over it,
ReplacesAndPushes(e, f) ==
    /\ e \in Calls /\ f \in Calls /\ calls' \in Seq(Calls) /\ Len(calls') = Len(calls) + 1
    /\ calls' # <<>>
    /\ calls'[1] = f /\ calls'[2] = e
    /\ \A i \in 2 .. Len(calls) : calls'[i + 1] = calls[i]

\* or by removing its top.
Pops ==
    /\ calls' \in Seq(Calls) /\ Len(calls') = Len(calls) - 1
    /\ \A i \in 1 .. Len(calls) - 1 : calls'[i] = calls[i + 1]

\* The top of a stack that is not empty, and where the runner then is.
LEMMA StackFacts ==
    ASSUME TypeOK, Stack, calls # <<>>
    PROVE  /\ calls \in Seq(Calls) /\ Len(calls) \in Nat /\ Len(calls) >= 1
           /\ Head(calls) = calls[1]
           /\ \A i \in 1 .. Len(calls) : calls[i] \in Calls
           /\ at \in {"asleep", "deliver", "read", "trace", "busy"}
<1>1. calls \in Seq(Calls)
  BY DEF TypeOK
<1>2. Bottom(calls[Len(calls)])
  BY DEF Stack
<1>3. at \in {"asleep", "deliver", "read", "trace", "busy"}
  BY <1>2 DEF Bottom
<1>4. Len(calls) \in Nat /\ Len(calls) >= 1 /\ Head(calls) = calls[1]
  BY <1>1, Popped
<1>5. \A i \in 1 .. Len(calls) : calls[i] \in Calls
  BY <1>1
<1> QED BY <1>1, <1>3, <1>4, <1>5

\* The stack with its top replaced and another call put on.
LEMMA Pushed ==
    ASSUME calls \in Seq(Calls), calls # <<>>, NEW e \in Calls, NEW f \in Calls,
           calls' = <<f>> \o (<<e>> \o Tail(calls))
    PROVE  ReplacesAndPushes(e, f)
<1> DEFINE s == <<e>> \o Tail(calls)
<1>1. /\ s \in Seq(Calls) /\ Len(s) = Len(calls) /\ s[1] = e
      /\ \A i \in 2 .. Len(calls) : s[i] = calls[i]
  BY Replaced
<1>2. calls' = <<f>> \o s /\ Len(calls) \in Nat /\ Len(calls) >= 1
  BY Popped
<1> HIDE DEF s
<1>3. /\ calls' \in Seq(Calls) /\ calls' # <<>> /\ Len(calls') = Len(s) + 1 /\ calls'[1] = f
      /\ \A i \in 1 .. Len(s) : calls'[i + 1] = s[i]
  BY <1>1, <1>2, OnTop
<1>4. calls'[2] = e
  BY <1>1, <1>2, <1>3
<1>5. \A i \in 2 .. Len(calls) : calls'[i + 1] = calls[i]
  BY <1>1, <1>2, <1>3
<1> QED BY <1>1, <1>3, <1>4, <1>5 DEF ReplacesAndPushes

\* A call that moves on is still the same Tick or transfer, and no trigger in the
\* middle of a block.
Continues(e) ==
    /\ e.fn = calls[1].fn
    /\ e.fn = "Tick" => e.sync = calls[1].sync
    /\ e.fn = "Dma" => e.when = calls[1].when
    /\ at = "busy" => e.pc # "test"

\* Replacing the top by what it continues as keeps the stack's shape.
LEMMA StackReplaced ==
    ASSUME TypeOK, Stack, calls # <<>>, NEW e, Replaces(e), Continues(e),
           at' = at, inSync' = inSync
    PROVE  Stack'
<1>0. /\ calls \in Seq(Calls) /\ Len(calls) \in Nat /\ Len(calls) >= 1
      /\ \A i \in 1 .. Len(calls) : calls[i].fn \in {"Tick", "Dma"}
  BY StackFacts, CallKinds
<1> USE <1>0
<1>1. /\ Len(calls') = Len(calls) /\ calls'[1] = e
      /\ \A i \in 2 .. Len(calls) : calls'[i] = calls[i]
  BY DEF Replaces
<1>2. Bottom(calls[Len(calls)])'
  <2>1. CASE Len(calls) = 1
    BY <1>1, <2>1 DEF Continues, Stack, Bottom
  <2>2. CASE Len(calls) # 1
    BY <1>1, <2>2 DEF Stack, Bottom
  <2> QED BY <2>1, <2>2
<1>3. \A i \in 1 .. Len(calls) :
         /\ calls'[i].fn = calls[i].fn
         /\ calls[i].fn = "Tick" => calls'[i].sync = calls[i].sync
         /\ at = "busy" => (InBlockCall(calls[i]) => InBlockCall(calls'[i]))
  BY <1>1 DEF Continues, InBlockCall
<1> QED BY <1>1, <1>2, <1>3 DEF Stack

\* So does pushing a transfer or a catch-up,
LEMMA StackPushed ==
    ASSUME TypeOK, Stack, calls # <<>>, NEW e, NEW f, ReplacesAndPushes(e, f), Continues(e),
           at # "read", at = "busy" => e.fn = "Dma" /\ InBlockCall(f),
           f.fn = "Tick" => f.sync /\ ~inSync,
           at' = at, inSync' <=> inSync \/ f.fn = "Tick"
    PROVE  Stack'
<1>0. /\ calls \in Seq(Calls) /\ Len(calls) \in Nat /\ Len(calls) >= 1
      /\ \A i \in 1 .. Len(calls) : calls[i].fn \in {"Tick", "Dma"}
  BY StackFacts, CallKinds
<1> USE <1>0
<1>1. /\ Len(calls') = Len(calls) + 1 /\ calls'[1] = f /\ calls'[2] = e
      /\ \A i \in 2 .. Len(calls) : calls'[i + 1] = calls[i]
  BY DEF ReplacesAndPushes
<1>2. Bottom(calls[Len(calls)])'
  <2>1. CASE Len(calls) = 1
    BY <1>1, <2>1 DEF Continues, Stack, Bottom
  <2>2. CASE Len(calls) # 1
    <3>1. calls'[Len(calls')] = calls[Len(calls)]
      <4>1. Len(calls) \in 2 .. Len(calls)
        BY <2>2, Several
      <4> QED BY <1>1, <4>1
    <3>2. Bottom(calls[Len(calls)])
      BY DEF Stack
    <3> QED BY <3>1, <3>2 DEF Bottom
  <2> QED BY <2>1, <2>2
<1>3. \A i \in 1 .. Len(calls) :
         /\ calls'[i + 1].fn = calls[i].fn
         /\ calls[i].fn = "Tick" => calls'[i + 1].sync = calls[i].sync
         /\ at = "busy" => (InBlockCall(calls[i]) => InBlockCall(calls'[i + 1]))
  BY <1>1 DEF Continues, InBlockCall
<1>4. ASSUME NEW i \in 1 .. Len(calls'), i # 1
      PROVE  /\ i - 1 \in 1 .. Len(calls) /\ calls'[i].fn = calls[i - 1].fn
             /\ calls[i - 1].fn = "Tick" => calls'[i].sync = calls[i - 1].sync
             /\ at = "busy" => (InBlockCall(calls[i - 1]) => InBlockCall(calls'[i]))
  <2>1. i - 1 \in 1 .. Len(calls) /\ (i - 1) + 1 = i
    BY <1>1, <1>4
  <2> QED BY <1>3, <2>1
<1>5. at = "busy" => \A i \in 1 .. Len(calls') :
                       InBlockCall(calls'[i]) /\ (i > 1 => calls'[i].fn = "Dma")
  <2> SUFFICES ASSUME at = "busy", NEW i \in 1 .. Len(calls')
               PROVE  InBlockCall(calls'[i]) /\ (i > 1 => calls'[i].fn = "Dma")
    OBVIOUS
  <2>1. CASE i = 1
    BY <1>1, <2>1
  <2>2. CASE i = 2
    <3>1. InBlockCall(calls[1])
      BY DEF Stack
    <3> QED BY <1>1, <1>4, <2>2, <3>1
  <2>3. CASE i > 2
    BY <1>4, <2>3 DEF Stack
  <2> QED BY <2>1, <2>2, <2>3
<1>6. ASSUME NEW i \in 1 .. Len(calls') - 1, calls'[i].fn = "Tick" PROVE calls'[i].sync
  <2>1. CASE i = 1
    BY <1>1, <1>6, <2>1
  <2>2. CASE i # 1
    <3>1. i - 1 \in 1 .. Len(calls) - 1 /\ calls[i - 1].fn = "Tick" /\ calls'[i].sync = calls[i - 1].sync
      BY <1>1, <1>4, <1>6, <2>2
    <3> QED BY <3>1 DEF Stack
  <2> QED BY <2>1, <2>2
<1>7. inSync' <=> \E i \in 1 .. Len(calls') : calls'[i].fn = "Tick" /\ calls'[i].sync
  <2>1. ASSUME inSync' PROVE \E i \in 1 .. Len(calls') : calls'[i].fn = "Tick" /\ calls'[i].sync
    <3>1. CASE inSync
      <4>1. PICK i \in 1 .. Len(calls) : calls[i].fn = "Tick" /\ calls[i].sync
        BY <3>1 DEF Stack
      <4>2. i + 1 \in 1 .. Len(calls')
        BY <1>1
      <4> WITNESS i + 1 \in 1 .. Len(calls')
      <4> QED BY <1>3, <4>1
    <3>2. CASE f.fn = "Tick"
      BY <1>1, <3>2
    <3> QED BY <2>1, <3>1, <3>2
  <2>2. ASSUME NEW i \in 1 .. Len(calls'), calls'[i].fn = "Tick", calls'[i].sync PROVE inSync'
    <3>1. CASE i = 1
      BY <1>1, <2>2, <3>1
    <3>2. CASE i # 1
      <4>1. i - 1 \in 1 .. Len(calls) /\ calls[i - 1].fn = "Tick" /\ calls[i - 1].sync
        BY <1>4, <2>2, <3>2
      <4> QED BY <4>1 DEF Stack
    <3> QED BY <3>1, <3>2
  <2> QED BY <2>1, <2>2
<1>8. ASSUME NEW i \in 1 .. Len(calls'), NEW j \in 1 .. Len(calls'),
             calls'[i].fn = "Tick", calls'[i].sync, calls'[j].fn = "Tick", calls'[j].sync
      PROVE  i = j
  <2>1. ASSUME NEW k \in 1 .. Len(calls'), k # 1, calls'[k].fn = "Tick", calls'[k].sync
        PROVE  k - 1 \in 1 .. Len(calls) /\ calls[k - 1].fn = "Tick" /\ calls[k - 1].sync /\ inSync
    <3>1. k - 1 \in 1 .. Len(calls) /\ calls[k - 1].fn = "Tick" /\ calls[k - 1].sync
      BY <1>4, <2>1
    <3> QED BY <3>1 DEF Stack
  <2>2. CASE i = 1 \/ j = 1
    <3>1. ~inSync
      BY <1>1, <1>8, <2>2
    <3> QED BY <1>8, <2>1, <2>2, <3>1
  <2>3. CASE i # 1 /\ j # 1
    <3>1. i - 1 = j - 1
      BY <1>8, <2>1, <2>3 DEF Stack
    <3> QED BY <3>1
  <2> QED BY <2>2, <2>3
<1>9. at' = "read" => Len(calls') <= 1
  OBVIOUS
<1> QED BY <1>2, <1>5, <1>6, <1>7, <1>8, <1>9 DEF Stack

\* and so does a return.
LEMMA StackPopped ==
    ASSUME TypeOK, Stack, calls # <<>>, Pops, at' = at,
           inSync' <=> inSync /\ ~(calls[1].fn = "Tick" /\ calls[1].sync)
    PROVE  Stack'
<1>0. /\ calls \in Seq(Calls) /\ Len(calls) \in Nat /\ Len(calls) >= 1
      /\ \A i \in 1 .. Len(calls) : calls[i] \in Calls
  BY StackFacts
<1> USE <1>0
<1>1. /\ Len(calls') = Len(calls) - 1 /\ calls' \in Seq(Calls)
      /\ \A i \in 1 .. Len(calls) - 1 : calls'[i] = calls[i + 1]
  BY DEF Pops
<1>2. calls' # <<>> => Bottom(calls[Len(calls)])'
  <2> SUFFICES ASSUME calls' # <<>> PROVE Bottom(calls[Len(calls)])'
    OBVIOUS
  <2>1. Len(calls') >= 1
    BY <1>1, Empty
  <2>2. calls'[Len(calls')] = calls[Len(calls)]
    BY <1>1, <2>1
  <2> QED BY <2>2 DEF Stack, Bottom
<1>3. ASSUME NEW i \in 1 .. Len(calls')
      PROVE  i + 1 \in 1 .. Len(calls) /\ calls'[i] = calls[i + 1]
  BY <1>1
<1>4. at = "busy" => \A i \in 1 .. Len(calls') :
                       InBlockCall(calls'[i]) /\ (i > 1 => calls'[i].fn = "Dma")
  BY <1>3 DEF Stack
<1>5. \A i \in 1 .. Len(calls') - 1 : calls'[i].fn = "Tick" => calls'[i].sync
  <2> SUFFICES ASSUME NEW i \in 1 .. Len(calls') - 1 PROVE calls'[i].fn = "Tick" => calls'[i].sync
    OBVIOUS
  <2>1. i + 1 \in 1 .. Len(calls) - 1 /\ calls'[i] = calls[i + 1]
    BY <1>1
  <2> QED BY <2>1 DEF Stack
<1>6. inSync' <=> \E i \in 1 .. Len(calls') : calls'[i].fn = "Tick" /\ calls'[i].sync
  <2>1. ASSUME inSync' PROVE \E i \in 1 .. Len(calls') : calls'[i].fn = "Tick" /\ calls'[i].sync
    <3>1. PICK i \in 1 .. Len(calls) : calls[i].fn = "Tick" /\ calls[i].sync
      BY <2>1 DEF Stack
    <3>2. i # 1
      BY <2>1, <3>1
    <3>3. i - 1 \in 1 .. Len(calls') /\ calls'[i - 1] = calls[i]
      <4>1. i - 1 \in 1 .. Len(calls) - 1 /\ (i - 1) + 1 = i
        BY <3>2
      <4> QED BY <1>1, <4>1
    <3> QED BY <3>1, <3>3
  <2>2. ASSUME NEW i \in 1 .. Len(calls'), calls'[i].fn = "Tick", calls'[i].sync PROVE inSync'
    <3>1. i + 1 \in 1 .. Len(calls) /\ calls[i + 1].fn = "Tick" /\ calls[i + 1].sync
      BY <1>3, <2>2
    <3>2. inSync
      BY <3>1 DEF Stack
    <3>3. ~(calls[1].fn = "Tick" /\ calls[1].sync)
      <4>1. i + 1 # 1 /\ 1 \in 1 .. Len(calls)
        OBVIOUS
      <4> QED BY <3>1, <4>1 DEF Stack
    <3> QED BY <3>2, <3>3
  <2> QED BY <2>1, <2>2
<1>7. ASSUME NEW i \in 1 .. Len(calls'), NEW j \in 1 .. Len(calls'),
             calls'[i].fn = "Tick", calls'[i].sync, calls'[j].fn = "Tick", calls'[j].sync
      PROVE  i = j
  <2>1. i + 1 = j + 1
    BY <1>3, <1>7 DEF Stack
  <2> QED BY <2>1
<1>8. at' = "read" => Len(calls') <= 1
  BY <1>1 DEF Stack
<1> QED BY <1>2, <1>4, <1>5, <1>6, <1>7, <1>8 DEF Stack
-----------------------------------------------------------------------------
(* Time modulo a frame. *)

\* The geometry of the display.
LEMMA ConstantFacts ==
    /\ HDraw \in Nat /\ HDraw >= 1 /\ Line \in Nat /\ HDraw < Line
    /\ Visible \in Nat /\ Visible >= 1 /\ Lines \in Nat /\ Visible < Lines
    /\ Cost \subseteq Nat \ {0} /\ Quota \subseteq Nat \ {0}
BY TimeAssumption DEF TimeAssumption

\* Integer division with remainder.
LEMMA DivisionFacts ==
    ASSUME NEW a \in Int, NEW n \in Nat \ {0}
    PROVE  /\ a \div n \in Int /\ a % n \in 0 .. n - 1
           /\ a = n * (a \div n) + (a % n)
OBVIOUS

\* A multiple of n has remainder 0, and is 0 if it is less than n.
LEMMA Multiples ==
    ASSUME NEW k \in Int, NEW n \in Nat \ {0}
    PROVE  /\ (n * k) % n = 0
           /\ \A r \in 0 .. n - 1 : n * k = r => k = 0
OBVIOUS

\* A frame has a length.
LEMMA FrameFacts == Frame \in Nat \ {0} /\ Frame = Line * Lines
<1>1. Line \in Nat \ {0} /\ Lines \in Nat \ {0}
  BY ConstantFacts
<1> QED BY <1>1 DEF Frame

\* A frame more or less is the same time.
LEMMA SameTimeWrap ==
    ASSUME NEW a \in Int, NEW b \in Int, SameTime(a, b)
    PROVE  SameTime(a, b % Frame) /\ SameTime(a - Frame, b)
<1> DEFINE F == Frame
           q == (a - b) \div F
           p == b \div F
<1>1. F \in Nat \ {0}
  BY FrameFacts
<1> HIDE DEF F
<1>2. q \in Int /\ a - b = F * q
  BY <1>1, DivisionFacts DEF SameTime, F
<1>3. p \in Int /\ b = F * p + (b % F) /\ b % F \in Int
  BY <1>1, DivisionFacts
<1> HIDE DEF q, p
<1>4. a - (b % F) = F * (q + p) /\ (a - F) - b = F * (q - 1)
  <2>1. F * (q + p) = F * q + F * p /\ F * (q - 1) = F * q - F
    BY <1>1, <1>2, <1>3
  <2> DEFINE x == F * q
             y == F * p
             r == b % F
  <2>2. x \in Int /\ y \in Int /\ r \in Int /\ a - b = x /\ b = y + r
    BY <1>1, <1>2, <1>3
  <2> HIDE DEF x, y, r
  <2>3. a - r = x + y /\ (a - F) - b = x - F
    BY <1>1, <2>2
  <2> QED BY <2>1, <2>3 DEF x, y, r
<1>5. (F * (q + p)) % F = 0 /\ (F * (q - 1)) % F = 0
  BY <1>1, <1>2, <1>3, Multiples
<1> QED BY <1>4, <1>5 DEF SameTime, F

\* Within one frame, the same time is equal.
LEMMA SameTimeEqual ==
    ASSUME NEW a \in 0 .. Frame - 1, NEW b \in 0 .. Frame - 1, SameTime(a, b)
    PROVE  a = b
<1> DEFINE F == Frame
           q == (a - b) \div F
<1>1. F \in Nat \ {0}
  BY FrameFacts
<1>0. a \in 0 .. F - 1 /\ b \in 0 .. F - 1
  OBVIOUS
<1> HIDE DEF F
<1>2. q \in Int /\ a - b = F * q
  BY <1>0, <1>1, DivisionFacts DEF SameTime, F
<1> HIDE DEF q
<1>3. CASE a >= b
  <2>1. a - b \in 0 .. F - 1
    BY <1>0, <1>1, <1>3
  <2>2. q = 0
    BY <1>1, <1>2, <2>1, Multiples
  <2> QED BY <1>0, <1>1, <1>2, <2>2
<1>4. CASE a < b
  <2>1. b - a \in 0 .. F - 1 /\ F * (-q) = b - a /\ -q \in Int
    BY <1>0, <1>1, <1>2, <1>4
  <2>2. -q = 0
    BY <1>1, <2>1, Multiples
  <2> QED BY <1>0, <1>1, <1>2, <2>2
<1> QED BY <1>0, <1>3, <1>4

\* The beam's position lies in the frame.
LEMMA PositionFacts ==
    ASSUME TypeOK
    PROVE  Position \in Int /\ (cyc < Line => Position \in 0 .. Frame - 1)
<1>1. line \in Nat /\ line <= Lines - 1 /\ cyc \in Nat /\ Line \in Nat /\ Lines \in Nat
  BY ConstantFacts DEF TypeOK
<1>2. line * Line \in Nat /\ line * Line <= (Lines - 1) * Line
  BY <1>1
<1>3. (Lines - 1) * Line = Frame - Line /\ Frame \in Nat
  BY <1>1 DEF Frame
<1> QED BY <1>1, <1>2, <1>3 DEF Position
-----------------------------------------------------------------------------
(* The devices. *)

\* TypeOK after a step of a device.
LEMMA DeviceTypes ==
    ASSUME TypeOK, calls' \in Seq(Calls),
           inSync' \in BOOLEAN, drift' \in BOOLEAN,
           budgetAtStep' \in {budgetAtStep, left},
           cyc' \in 0 .. Line, line' \in 0 .. Lines - 1, hbl' \in BOOLEAN,
           iff' \subseteq Source, dma' \in [Channel -> Transfers \cup {Off}],
           calls' = <<>> => cyc' < Line,
           UNCHANGED <<at, runner, left, regs, elapsed, touched>>
    PROVE  TypeOK'
<1>1. /\ budgetAtStep' \in Int /\ left' \in Int /\ left' <= budgetAtStep'
      /\ at' \in {"cpu", "read", "busy", "stepped"} => budgetAtStep' <= budget'
  BY DEF TypeOK, runner
<1> QED BY <1>1 DEF TypeOK, runner, regs

\* With no call in progress the beam is inside the line.
LEMMA BeamInside ==
    ASSUME Beam', calls' = <<>>, cyc' \in 0 .. Line
    PROVE  cyc' < Line
<1>1. Line \in Nat
  BY ConstantFacts
<1>2. Len(calls') = 0
  BY Empty
<1>3. cyc' # Line
  BY <1>2 DEF Beam
<1> QED BY <1>1, <1>3

\* A step that leaves Position + Behind alone keeps the clock.
LEMMA SameClock ==
    ASSUME Clock, drift' = drift, elapsed' = elapsed,
           ~drift => Position' + Behind' = Position + Behind
    PROVE  Clock'
BY DEF Clock, SameTime, Frame

\* A Tick on top of the stack is what the display is behind by, unless it is a
\* catch-up that counts time again.
LEMMA TopTick ==
    ASSUME TypeOK, Stack, Drifts, calls # <<>>, calls[1].fn = "Tick"
    PROVE  /\ calls[1] \in TickCalls /\ TickRem \in Int
           /\ at \in {"asleep", "deliver", "read", "trace", "busy"}
           /\ at \in {"read", "busy", "trace"} => inSync /\ calls[1].sync
           /\ at \in {"read", "busy"} \/ ~drift => TickRem = calls[1].rem
           /\ Behind = IF at = "asleep" THEN TickRem - 1 ELSE TickRem
<1>1. /\ calls[1] \in TickCalls /\ calls \in Seq(Calls)
      /\ Len(calls) \in Nat /\ Len(calls) >= 1
      /\ at \in {"asleep", "deliver", "read", "trace", "busy"}
      /\ \A i \in 1 .. Len(calls) : calls[i] \in Calls
  BY StackFacts, CallKinds
<1>2. at \in {"read", "busy", "trace"} => calls[1].sync
  <2>1. CASE Len(calls) = 1
    BY <2>1 DEF Stack, Bottom
  <2>2. CASE Len(calls) # 1
    <3>1. 1 \in 1 .. Len(calls) - 1
      BY <1>1, <2>2, Several
    <3>2. \A i \in 1 .. Len(calls) - 1 : calls[i].fn = "Tick" => calls[i].sync
      BY DEF Stack
    <3> QED BY <3>1, <3>2
  <2> QED BY <2>1, <2>2
<1>3. at \in {"read", "busy", "trace"} => inSync
  BY <1>1, <1>2 DEF Stack
<1>4. TickRem = IF at \in {"read", "busy"} THEN calls[1].rem ELSE calls[Len(calls)].rem
  BY <1>1 DEF TickRem, InBlock
<1>5. ~drift /\ at \notin {"read", "busy"} => Len(calls) = 1
  <2> SUFFICES ASSUME ~drift, at \notin {"read", "busy"}, Len(calls) # 1 PROVE FALSE
    OBVIOUS
  <2>1. ~inSync
    BY DEF Drifts
  <2>2. 1 \in 1 .. Len(calls) - 1 /\ 1 \in 1 .. Len(calls)
    BY <1>1, Several
  <2>3. \A i \in 1 .. Len(calls) - 1 : calls[i].fn = "Tick" => calls[i].sync
    BY DEF Stack
  <2>4. ~ \E i \in 1 .. Len(calls) : calls[i].fn = "Tick" /\ calls[i].sync
    BY <2>1 DEF Stack
  <2> QED BY <2>2, <2>3, <2>4
<1>6. TickRem \in Int
  <2>1. CASE at \in {"read", "busy"}
    BY <1>1, <1>4, <2>1, TickFields
  <2>2. CASE at \notin {"read", "busy"}
    <3>1. calls[Len(calls)] \in Calls /\ calls[Len(calls)].fn = "Tick"
      BY <1>1, <2>2 DEF Stack, Bottom
    <3>2. calls[Len(calls)].rem \in Nat
      BY <3>1, CallKinds, TickFields
    <3> QED BY <1>4, <2>2, <3>2
  <2> QED BY <2>1, <2>2
<1>7. Behind = IF at = "asleep" THEN TickRem - 1 ELSE TickRem
  BY <1>1, <1>3 DEF Behind, InBlock
<1> QED BY <1>1, <1>2, <1>3, <1>4, <1>5, <1>6, <1>7

\* A Tick in the middle of a block stays before the next event.
LEMMA ShortTick ==
    ASSUME Inv, calls # <<>>, calls[1].fn = "Tick", at \in {"read", "busy"}
    PROVE  /\ cyc + calls[1].rem < Line
           /\ ~hbl /\ line < Visible => cyc + calls[1].rem < HDraw
<1>1. Behind = calls[1].rem /\ calls[1].rem \in Nat
  BY TopTick, TickFields DEF Inv
<1>2. cyc \in Nat /\ left \in Int /\ Line \in Nat /\ HDraw \in Nat
  BY ConstantFacts DEF Inv, TypeOK
<1>3. left >= 1 /\ cyc + Behind + left <= Line
      /\ (~hbl /\ line < Visible => cyc + Behind + left <= HDraw)
  BY DEF Inv, Budget, InBlock
<1> QED BY <1>1, <1>2, <1>3

\* A round of Tick's loop takes n off what remains.
LEMMA TickRolled ==
    ASSUME NEW c \in TickCalls, NEW n \in Nat, n <= c.rem
    PROVE  LET e == [[c EXCEPT !.pc = "roll"] EXCEPT !.rem = @ - n]
           IN  e \in Calls /\ e.fn = "Tick" /\ e.pc = "roll" /\ e.rem = c.rem - n /\ e.sync = c.sync
<1> DEFINE d == [c EXCEPT !.pc = "roll"]
<1>1. d \in TickCalls /\ d.rem = c.rem /\ d.sync = c.sync
  BY DEF TickCalls
<1> HIDE DEF d
<1>2. [d EXCEPT !.rem = @ - n] = [fn |-> "Tick", pc |-> d.pc, rem |-> d.rem - n, sync |-> d.sync]
  BY <1>1 DEF TickCalls
<1>3. d.pc = "roll"
  BY DEF d, TickCalls
<1>4. d.rem - n \in Nat /\ d.sync \in BOOLEAN
  BY <1>1 DEF TickCalls
<1>5. [d EXCEPT !.rem = @ - n] \in Calls
  BY <1>2, <1>3, <1>4 DEF Calls
<1> QED BY <1>1, <1>2, <1>3, <1>5 DEF d

\* What a step of a Tick call does to the stack: the call moves on, and below an
\* event a transfer starts on top of it.
LEMMA TickMoves ==
    ASSUME Inv, calls # <<>>, calls[1].fn = "Tick",
           NEW e \in Calls, e.fn = "Tick", e.sync = calls[1].sync, e.rem \in Nat,
           NEW w \in {"VBlank", "HBlank"}, NEW fires \in BOOLEAN,
           fires => at \notin {"read", "busy"},
           calls' = (IF fires THEN <<TriggerCall(w, 0)>> ELSE <<>>) \o <<e>> \o Tail(calls),
           UNCHANGED <<at, runner, catchup, regs, dma, history>>
    PROVE  /\ calls' \in Seq(Calls) /\ calls' # <<>>
           /\ Stack' /\ Drifts' /\ Behind \in Int
           /\ at \in {"read", "busy"} \/ ~drift => Behind' = Behind + (e.rem - calls[1].rem)
           /\ \E i \in 1 .. Len(calls') : calls'[i] = e
           /\ \A i \in 2 .. Len(calls) : \E j \in 1 .. Len(calls') : calls'[j] = calls[i]
           /\ ~fires => calls'[1] = e
<1> DEFINE c == calls[1]
<1>0. c \in TickCalls /\ c.rem \in Nat
  BY TopTick, TickFields DEF Inv
<1>1. /\ calls \in Seq(Calls) /\ Len(calls) \in Nat /\ Len(calls) >= 1
      /\ at' = at /\ inSync' = inSync /\ drift' = drift
  BY StackFacts DEF Inv, catchup, history
<1>10. Continues(e)
  BY TickFields, CallKinds DEF Continues
<1>11. Drifts'
  BY DEF Inv, Drifts, runner, catchup, history
<1>12. /\ TickRem \in Int /\ Behind = IF at = "asleep" THEN TickRem - 1 ELSE TickRem
       /\ at \in {"asleep", "deliver", "read", "trace", "busy"}
       /\ at \in {"read", "busy", "trace"} => inSync
       /\ at \in {"read", "busy"} \/ ~drift => TickRem = c.rem
  BY TopTick DEF Inv
<1>13. ~drift /\ at \notin {"read", "busy"} => Len(calls) = 1
  <2> SUFFICES ASSUME ~drift, at \notin {"read", "busy"}, Len(calls) # 1 PROVE FALSE
    OBVIOUS
  <2>1. ~inSync
    BY DEF Inv, Drifts
  <2>2. 1 \in 1 .. Len(calls) - 1 /\ 1 \in 1 .. Len(calls)
    BY <1>1, Several
  <2>3. \A i \in 1 .. Len(calls) - 1 : calls[i].fn = "Tick" => calls[i].sync
    BY DEF Inv, Stack
  <2>4. ~ \E i \in 1 .. Len(calls) : calls[i].fn = "Tick" /\ calls[i].sync
    BY <2>1 DEF Inv, Stack
  <2> QED BY <2>2, <2>3, <2>4
<1>2. /\ calls' \in Seq(Calls) /\ calls' # <<>> /\ Stack'
      /\ at \in {"read", "busy"} \/ ~drift => TickRem' = e.rem
      /\ \E i \in 1 .. Len(calls') : calls'[i] = e
      /\ \A i \in 2 .. Len(calls) : \E j \in 1 .. Len(calls') : calls'[j] = calls[i]
      /\ ~fires => calls'[1] = e
  <2>1. CASE ~fires
    <3>1. calls' = <<e>> \o Tail(calls)
      BY <1>1, <2>1, NothingOnTop, Popped
    <3>2. Replaces(e)
      BY <1>1, <3>1, Replaced DEF Replaces
    <3>3. Stack'
      BY <1>1, <1>10, <3>2, StackReplaced DEF Inv
    <3>4. Len(calls') \in Nat /\ Len(calls') >= 1 /\ Len(calls') = Len(calls)
      BY <1>1, <3>2 DEF Replaces
    <3>5. \E i \in 1 .. Len(calls') : calls'[i] = e
      BY <3>2, <3>4 DEF Replaces
    <3>6. ASSUME NEW i \in 2 .. Len(calls) PROVE \E j \in 1 .. Len(calls') : calls'[j] = calls[i]
      BY <1>1, <3>2, <3>4 DEF Replaces
    <3>7. at \in {"read", "busy"} \/ ~drift => TickRem' = e.rem
      BY <1>1, <1>13, <3>2, <3>4 DEF Replaces, TickRem, InBlock
    <3> QED BY <3>2, <3>3, <3>5, <3>6, <3>7 DEF Replaces
  <2>2. CASE fires
    <3> DEFINE f == TriggerCall(w, 0)
    <3>1. calls' = <<f>> \o <<e>> \o Tail(calls)
      BY <2>2
    <3>2. f \in Calls /\ f.fn = "Dma"
      BY NewTrigger
    <3> HIDE DEF f
    <3>3. ReplacesAndPushes(e, f)
      BY <1>1, <3>1, <3>2, ReplacedAndOnTop DEF ReplacesAndPushes
    <3>6. Stack'
      BY <1>1, <1>10, <2>2, <3>2, <3>3, StackPushed DEF Inv
    <3>7. Len(calls') \in Nat /\ Len(calls') = Len(calls) + 1 /\ Len(calls') >= 2
      BY <1>1, <3>3 DEF ReplacesAndPushes
    <3>8. ~drift => TickRem' = e.rem
      <4> SUFFICES ASSUME ~drift PROVE TickRem' = e.rem
        OBVIOUS
      <4>0. Len(calls) = 1
        BY <1>13, <2>2
      <4>1. Len(calls') = 2 /\ calls'[2] = e /\ calls' # <<>>
        BY <3>3, <3>7, <4>0 DEF ReplacesAndPushes
      <4>2. at' \notin {"read", "busy", "cpu"}
        BY <1>1, <1>12, <2>2
      <4>3. ~InBlock'
        BY <4>2 DEF InBlock
      <4>4. TickRem' = calls'[Len(calls')].rem
        BY <4>1, <4>3 DEF TickRem
      <4> QED BY <4>1, <4>4
    <3>9. \E i \in 1 .. Len(calls') : calls'[i] = e
      BY <3>3, <3>7 DEF ReplacesAndPushes
    <3>10. ASSUME NEW i \in 2 .. Len(calls) PROVE \E j \in 1 .. Len(calls') : calls'[j] = calls[i]
      <4>1. i + 1 \in 1 .. Len(calls') /\ calls'[i + 1] = calls[i]
        BY <1>1, <3>3, <3>7 DEF ReplacesAndPushes
      <4> QED BY <4>1
    <3> QED BY <2>2, <3>3, <3>6, <3>8, <3>9, <3>10 DEF ReplacesAndPushes
  <2> QED BY <2>1, <2>2
<1>3. Behind \in Int /\ (at \in {"read", "busy"} \/ ~drift => Behind' = Behind + (e.rem - c.rem))
  <2>1. Behind' = IF at = "asleep" THEN TickRem' - 1 ELSE TickRem'
    BY <1>1, <1>12 DEF Behind, InBlock
  <2> HIDE DEF c
  <2> QED BY <1>0, <1>2, <1>12, <2>1
<1> QED BY <1>2, <1>3, <1>11

\* ... and to the types, given where it leaves the display.
LEMMA TickTypes ==
    ASSUME TypeOK, calls' \in Seq(Calls), calls' # <<>>,
           cyc' \in 0 .. Line, line' \in 0 .. Lines - 1, hbl' \in BOOLEAN,
           NEW s \in Source, iff' \in {iff, iff \cup {s}},
           UNCHANGED <<at, runner, catchup, regs, dma, history>>
    PROVE  TypeOK'
<1>1. iff' \subseteq Source /\ dma' \in [Channel -> Transfers \cup {Off}]
  BY DEF TypeOK
<1>2. inSync' \in BOOLEAN /\ drift' \in BOOLEAN /\ budgetAtStep' = budgetAtStep /\ left' = left
      /\ elapsed' = elapsed /\ touched' = touched
  BY DEF TypeOK, catchup, history
<1> QED BY <1>1, <1>2, DeviceTypes

\* Interrupts raised by a Tick are raised outside a block, or in one the frame
\* trace caused, which drifts.
LEMMA TickPrompt ==
    ASSUME Inv, calls # <<>>, calls[1].fn = "Tick",
           at \in {"read", "busy"} => iff' = iff /\ calls'[1].pc # "match",
           UNCHANGED <<at, runner, catchup, regs, dma, history>>
    PROVE  Prompt'
<1>1. at' = at /\ touched' = touched /\ drift' = drift /\ UNCHANGED <<ime, ie, irqOff>>
  BY DEF history, regs
<1>2. at = "trace" => drift
  BY TopTick DEF Inv, Drifts
<1>3. at \in {"asleep", "deliver", "read", "trace", "busy"}
  BY StackFacts DEF Inv
<1> QED BY <1>1, <1>2, <1>3 DEF Inv, Prompt, Deliverable

\* A Tick on top of the stack.
LEMMA TickTop ==
    ASSUME Inv, NEW p, Top("Tick", p)
    PROVE  /\ calls # <<>> /\ Head(calls) = calls[1] /\ calls[1] \in TickCalls
           /\ calls[1].fn = "Tick" /\ calls[1].pc = p /\ calls[1].rem \in Nat
<1>1. calls # <<>> /\ Head(calls).fn = "Tick" /\ Head(calls).pc = p
  BY DEF Top
<1>2. Head(calls) = calls[1]
  BY <1>1, StackFacts DEF Inv
<1> QED BY <1>1, <1>2, TopTick, TickFields DEF Inv

\* The types of the display's counters.
LEMMA DisplayFacts ==
    ASSUME TypeOK
    PROVE  /\ cyc \in Nat /\ cyc <= Line /\ Line \in Nat /\ HDraw \in Nat /\ HDraw >= 1 /\ HDraw < Line
           /\ hbl \in BOOLEAN /\ line \in 0 .. Lines - 1 /\ Lines \in Nat /\ Lines >= 1
           /\ Visible \in Nat /\ Visible >= 1 /\ line * Line \in Int
<1>1. line \in Int /\ Line \in Int
  BY ConstantFacts DEF TypeOK
<1>2. line * Line \in Int
  BY <1>1
<1> QED BY <1>2, ConstantFacts DEF TypeOK

\* A round of Tick: the beam moves on by what the Tick has less to do, and only
\* outside a block can it reach HBlank.
LEMMA TickStepInv ==
    ASSUME Inv, TickStep
    PROVE  Inv'
<1> DEFINE c == calls[1]
           n == Least(c.rem, Line - cyc)
           e == [Goto("roll") EXCEPT !.rem = @ - n]
           enters == ~hbl /\ line < Visible /\ cyc + n >= HDraw
<1>1. /\ calls # <<>> /\ Head(calls) = c /\ c \in TickCalls /\ c.fn = "Tick" /\ c.rem \in Nat
  BY TickTop DEF TickStep
<1>2. /\ cyc \in Nat /\ cyc <= Line /\ Line \in Nat /\ HDraw \in Nat /\ hbl \in BOOLEAN
      /\ line \in 0 .. Lines - 1 /\ line * Line \in Int /\ Lines \in Nat /\ Visible \in Nat
  BY DisplayFacts DEF Inv
<1>3. n \in Nat /\ n <= c.rem /\ n <= Line - cyc
  BY <1>1, <1>2 DEF Least
<1>4. e \in Calls /\ e.fn = "Tick" /\ e.pc = "roll" /\ e.rem = c.rem - n /\ e.sync = c.sync
  <2>1. e = [[Head(calls) EXCEPT !.pc = "roll"] EXCEPT !.rem = @ - n]
    BY DEF Goto
  <2> HIDE DEF e, n
  <2>2. Head(calls) \in TickCalls /\ Head(calls).rem = c.rem /\ Head(calls).sync = c.sync
    BY <1>1
  <2> HIDE DEF c
  <2> QED BY <1>3, <2>1, <2>2, TickRolled
<1>5. /\ cyc' = cyc + n /\ hbl' = (hbl \/ enters) /\ line' = line
      /\ iff' = (IF enters /\ "HBlank" \in enabled THEN iff \cup {"HBlank"} ELSE iff)
      /\ calls' = (IF enters THEN <<TriggerCall("HBlank", 0)>> ELSE <<>>) \o <<e>> \o Tail(calls)
      /\ UNCHANGED <<at, runner, catchup, regs, dma, history>>
  BY <1>1 DEF TickStep, Raise
<1> HIDE DEF n, e, c
<1>6. at \in {"read", "busy"} => ~enters
  <2>1. at \in {"read", "busy"} => (~hbl /\ line < Visible => cyc + c.rem < HDraw)
    BY <1>1, ShortTick DEF c
  <2> QED BY <1>1, <1>2, <1>3, <2>1
<1>7. /\ calls' \in Seq(Calls) /\ calls' # <<>> /\ Stack' /\ Drifts'
      /\ Behind \in Int /\ (at \in {"read", "busy"} \/ ~drift => Behind' = Behind - n)
      /\ \E i \in 1 .. Len(calls') : calls'[i] = e
      /\ ~enters => calls'[1] = e
  <2> DEFINE fires == enters
  <2>1. fires \in BOOLEAN /\ (fires => at \notin {"read", "busy"})
        /\ calls' = (IF fires THEN <<TriggerCall("HBlank", 0)>> ELSE <<>>) \o <<e>> \o Tail(calls)
    BY <1>5, <1>6
  <2>2. e.rem \in Nat
    BY <1>1, <1>3, <1>4
  <2> HIDE DEF fires
  <2>3. /\ calls' \in Seq(Calls) /\ calls' # <<>> /\ Stack' /\ Drifts'
        /\ Behind \in Int /\ (at \in {"read", "busy"} \/ ~drift => Behind' = Behind + (e.rem - c.rem))
        /\ \E i \in 1 .. Len(calls') : calls'[i] = e
        /\ ~fires => calls'[1] = e
    BY <1>1, <1>4, <1>5, <2>1, <2>2, TickMoves DEF c
  <2>4. at \in {"read", "busy"} \/ ~drift => Behind' = Behind - n
    BY <1>1, <1>3, <1>4, <2>3
  <2> QED BY <2>3, <2>4 DEF fires
<1>9. TypeOK'
  <2>1. cyc' \in 0 .. Line /\ line' \in 0 .. Lines - 1 /\ hbl' \in BOOLEAN
    BY <1>2, <1>3, <1>5
  <2>2. iff' \in {iff, iff \cup {"HBlank"}} /\ "HBlank" \in Source
    BY <1>5 DEF Source
  <2> QED BY <1>5, <1>7, <2>1, <2>2, TickTypes DEF Inv
<1>11. Beam'
  <2>1. ~hbl' => ~hbl /\ ~enters
    BY <1>5
  <2>2. ~hbl' /\ line' < Visible => cyc' < HDraw
    BY <1>2, <1>3, <1>5, <2>1
  <2> QED BY <1>4, <1>7, <2>2 DEF Beam
<1>12. Budget'
  <2>1. UNCHANGED <<at, left, inSync, line, budgetAtStep>>
    BY <1>5 DEF catchup
  <2>2. at \in {"asleep", "deliver", "read", "trace", "busy"}
    BY <1>1, StackFacts DEF Inv
  <2>3. left \in Int
    BY DEF Inv, TypeOK
  <2>4. at \in {"read", "busy"} => cyc' + Behind' + left' = cyc + Behind + left
    BY <1>2, <1>3, <1>5, <1>7, <2>1, <2>3
  <2>5. ~hbl' /\ line' < Visible => ~hbl /\ line < Visible
    BY <1>5
  <2> QED BY <2>1, <2>2, <2>4, <2>5 DEF Inv, Budget, InBlock
<1>13. Clock'
  <2>1. Position' = Position + n /\ Position \in Int
    BY <1>2, <1>3, <1>5 DEF Position
  <2>2. ~drift => Position' + Behind' = Position + Behind
    BY <1>3, <1>7, <2>1
  <2> QED BY <1>5, <2>2, SameClock DEF Inv, history
<1>14. Prompt'
  <2>1. at \in {"read", "busy"} => iff' = iff /\ calls'[1].pc # "match"
    BY <1>4, <1>5, <1>6, <1>7
  <2> QED BY <1>1, <1>5, <2>1, TickPrompt DEF c
<1> QED BY <1>7, <1>9, <1>11, <1>12, <1>13, <1>14 DEF Inv

\* AdvanceScanline wraps the beam by a line, and the frame by Lines of them.
LEMMA TickRollInv ==
    ASSUME Inv, TickRoll
    PROVE  Inv'
<1> DEFINE c == calls[1]
           e == Goto("match")
           fires == (line + 1) % Lines = Visible
<1>1. /\ calls # <<>> /\ Head(calls) = c /\ c \in TickCalls /\ c.fn = "Tick" /\ c.rem \in Nat
  BY TickTop DEF TickRoll
<1>2. /\ cyc = Line /\ Line \in Nat /\ HDraw \in Nat /\ HDraw >= 1 /\ Line >= 1
      /\ line \in 0 .. Lines - 1 /\ line * Line \in Int /\ Lines \in Nat /\ Lines >= 1 /\ Visible \in Nat
  BY DisplayFacts DEF Inv, TickRoll
<1>3. e \in Calls /\ e.fn = "Tick" /\ e.pc = "match" /\ e.rem = c.rem /\ e.sync = c.sync
  <2>1. e = [Head(calls) EXCEPT !.pc = "match"]
    BY DEF Goto
  <2> HIDE DEF e
  <2>2. Head(calls) \in TickCalls /\ Head(calls).rem = c.rem /\ Head(calls).sync = c.sync
    BY <1>1
  <2> HIDE DEF c
  <2> QED BY <2>1, <2>2, TickGoto
<1>4. /\ cyc' = 0 /\ hbl' = FALSE /\ line' = (line + 1) % Lines
      /\ iff' = (IF fires /\ "VBlank" \in enabled THEN iff \cup {"VBlank"} ELSE iff)
      /\ calls' = (IF fires THEN <<TriggerCall("VBlank", 0)>> ELSE <<>>) \o <<e>> \o Tail(calls)
      /\ UNCHANGED <<at, runner, catchup, regs, dma, history>>
  BY DEF TickRoll, Raise
<1>5. fires \in BOOLEAN
  OBVIOUS
<1> HIDE DEF e, c, fires
<1>6. at \notin {"read", "busy"}
  <2>1. at \in {"read", "busy"} => cyc + c.rem < Line
    BY <1>1, ShortTick DEF c
  <2> QED BY <1>1, <1>2, <2>1
<1>7. /\ calls' \in Seq(Calls) /\ calls' # <<>> /\ Stack' /\ Drifts'
      /\ Behind \in Int /\ (~drift => Behind' = Behind)
  <2>1. /\ calls' \in Seq(Calls) /\ calls' # <<>> /\ Stack' /\ Drifts'
        /\ Behind \in Int /\ (at \in {"read", "busy"} \/ ~drift => Behind' = Behind + (e.rem - c.rem))
    BY <1>1, <1>3, <1>4, <1>5, <1>6, TickMoves DEF c
  <2> QED BY <1>1, <1>3, <2>1
<1>8. \/ line' = line + 1 /\ line' \in 0 .. Lines - 1
      \/ line = Lines - 1 /\ line' = 0
  BY <1>2, <1>4
<1>9. TypeOK'
  <2>1. cyc' = 0 /\ hbl' \in BOOLEAN
    BY <1>4
  <2>3. cyc' \in 0 .. Line
    BY <1>2, <2>1
  <2>4. line' \in 0 .. Lines - 1
    BY <1>2, <1>8
  <2>2. iff' \in {iff, iff \cup {"VBlank"}} /\ "VBlank" \in Source
    BY <1>4 DEF Source
  <2> QED BY <1>4, <1>7, <2>1, <2>2, <2>3, <2>4, TickTypes DEF Inv
<1>11. Beam'
  <2>1. cyc' = 0
    BY <1>4
  <2>2. cyc' < HDraw /\ cyc' # Line
    BY <1>2, <2>1
  <2> QED BY <2>2 DEF Beam
<1>12. Budget'
  <2>1. at' = at /\ at \in {"asleep", "deliver", "trace"}
    BY <1>1, <1>4, <1>6, StackFacts DEF Inv
  <2> QED BY <2>1 DEF Budget, InBlock
<1>13. Clock'
  <2>1. CASE line' = line + 1
    <3>1. Position' = Position /\ Position \in Int
      <4>1. (line + 1) * Line = line * Line + Line
        BY <1>2
      <4> QED BY <1>2, <1>4, <2>1, <4>1 DEF Position
    <3> QED BY <1>4, <1>7, <3>1, SameClock DEF Inv, history
  <2>2. CASE line = Lines - 1 /\ line' = 0
    <3>1. Position = Frame /\ Position' = 0 /\ Frame \in Int
      <4>1. (Lines - 1) * Line + Line = Line * Lines /\ 0 * Line = 0 /\ Line * Lines \in Int
        BY <1>2
      <4> QED BY <1>2, <1>4, <2>2, <4>1 DEF Position, Frame
    <3>2. elapsed \in Int /\ elapsed' = elapsed /\ drift' = drift
      BY <1>4 DEF Inv, TypeOK, history
    <3>3. ~drift => SameTime((Position + Behind) - Frame, elapsed)
      BY <1>7, <3>1, <3>2, SameTimeWrap DEF Inv, Clock
    <3>4. ~drift => (Position + Behind) - Frame = Position' + Behind'
      BY <1>7, <3>1
    <3> QED BY <3>2, <3>3, <3>4 DEF Clock, SameTime, Frame
  <2> QED BY <1>8, <2>1, <2>2
<1>14. Prompt'
  BY <1>1, <1>4, <1>6, TickPrompt DEF c
<1> QED BY <1>7, <1>9, <1>11, <1>12, <1>13, <1>14 DEF Inv

\* The call goes on to its next round.
LEMMA TickNextInv ==
    ASSUME Inv, TickNoRoll \/ TickMatch
    PROVE  Inv'
<1> DEFINE c == calls[1]
           e == Goto("step")
<1>1. /\ calls # <<>> /\ Head(calls) = c /\ c \in TickCalls /\ c.fn = "Tick" /\ c.rem \in Nat
      /\ TickMatch => c.pc = "match"
  BY TickTop DEF TickNoRoll, TickMatch
<1>3. e \in Calls /\ e.fn = "Tick" /\ e.pc = "step" /\ e.rem = c.rem /\ e.sync = c.sync
  <2>1. e = [Head(calls) EXCEPT !.pc = "step"]
    BY DEF Goto
  <2> HIDE DEF e
  <2>2. Head(calls) \in TickCalls /\ Head(calls).rem = c.rem /\ Head(calls).sync = c.sync
    BY <1>1
  <2> HIDE DEF c
  <2> QED BY <2>1, <2>2, TickGoto
<1>4. /\ UNCHANGED <<cyc, hbl, line>>
      /\ iff' \in {iff, iff \cup {"VCount"}} /\ (TickNoRoll => iff' = iff)
      /\ calls' = <<e>> \o Tail(calls)
      /\ UNCHANGED <<at, runner, catchup, regs, dma, history>>
  BY DEF TickNoRoll, TickMatch, Raise, display
<1> HIDE DEF e, c
<1>6. at \in {"read", "busy"} => iff' = iff
  BY <1>1, <1>4 DEF Inv, Prompt, c
<1>7. /\ calls' \in Seq(Calls) /\ calls' # <<>> /\ Stack' /\ Drifts'
      /\ Behind \in Int /\ calls'[1] = e /\ (at \in {"read", "busy"} \/ ~drift => Behind' = Behind)
      /\ \A i \in 2 .. Len(calls) : \E j \in 1 .. Len(calls') : calls'[j] = calls[i]
  <2> DEFINE fires == FALSE
  <2>1. calls' = (IF fires THEN <<TriggerCall("VBlank", 0)>> ELSE <<>>) \o <<e>> \o Tail(calls)
    BY <1>1, <1>3, <1>4, NothingOnTop, Popped, StackFacts DEF Inv
  <2>2. fires \in BOOLEAN /\ ~fires
    OBVIOUS
  <2> HIDE DEF fires
  <2>3. /\ calls' \in Seq(Calls) /\ calls' # <<>> /\ Stack' /\ Drifts'
        /\ Behind \in Int /\ calls'[1] = e
        /\ at \in {"read", "busy"} \/ ~drift => Behind' = Behind + (e.rem - c.rem)
        /\ \A i \in 2 .. Len(calls) : \E j \in 1 .. Len(calls') : calls'[j] = calls[i]
    BY <1>1, <1>3, <1>4, <2>1, <2>2, TickMoves DEF c
  <2> QED BY <1>1, <1>3, <2>3
<1>9. TypeOK'
  <2>1. cyc' \in 0 .. Line /\ line' \in 0 .. Lines - 1 /\ hbl' \in BOOLEAN /\ "VCount" \in Source
    BY <1>4 DEF Inv, TypeOK, Source
  <2> QED BY <1>4, <1>7, <2>1, TickTypes DEF Inv
<1>11. Beam'
  <2>1. cyc' = Line => \E i \in 1 .. Len(calls') : calls'[i].fn = "Tick" /\ calls'[i].pc = "roll"
    <3> SUFFICES ASSUME cyc = Line PROVE \E i \in 1 .. Len(calls') : calls'[i].fn = "Tick" /\ calls'[i].pc = "roll"
      BY <1>4
    <3>1. c.pc = "match"
      BY <1>1, DisplayFacts DEF Inv, TickNoRoll
    <3>2. PICK i \in 1 .. Len(calls) : calls[i].fn = "Tick" /\ calls[i].pc = "roll"
      BY DEF Inv, Beam
    <3>3. i \in 2 .. Len(calls)
      BY <3>1, <3>2 DEF c
    <3> QED BY <1>7, <3>2, <3>3
  <2> QED BY <1>4, <2>1 DEF Inv, Beam
<1>12. Budget'
  <2>2. at \in {"asleep", "deliver", "read", "trace", "busy"}
    BY <1>1, StackFacts DEF Inv
  <2> QED BY <1>4, <1>7, <2>2 DEF Inv, Budget, InBlock, catchup
<1>13. Clock'
  <2>1. Position' = Position
    BY <1>4 DEF Position
  <2> QED BY <1>4, <1>7, <2>1, SameClock DEF Inv, history
<1>14. Prompt'
  <2>1. at \in {"read", "busy"} => iff' = iff /\ calls'[1].pc # "match"
    BY <1>3, <1>6, <1>7
  <2> QED BY <1>1, <1>4, <2>1, TickPrompt DEF c
<1> QED BY <1>7, <1>9, <1>11, <1>12, <1>13, <1>14 DEF Inv

\* Tick returns; a catch-up also moves the start of the budget up to now.
LEMMA TickReturnInv ==
    ASSUME Inv, TickReturn
    PROVE  Inv'
<1> DEFINE c == calls[1]
<1>1. /\ calls # <<>> /\ Head(calls) = c /\ c \in TickCalls /\ c.fn = "Tick" /\ c.pc = "step"
      /\ c.rem = 0 /\ c.sync \in BOOLEAN
  BY TickTop, TickFields DEF TickReturn
<1>2. /\ calls' = Tail(calls)
      /\ budgetAtStep' = (IF c.sync THEN left ELSE budgetAtStep)
      /\ inSync' = (inSync /\ ~c.sync)
      /\ UNCHANGED <<at, runner, left, display, iff, regs, dma, history>>
  BY <1>1 DEF TickReturn
<1>3. calls \in Seq(Calls) /\ Len(calls) \in Nat /\ Len(calls) >= 1 /\ \A i \in 1 .. Len(calls) : calls[i] \in Calls
  BY <1>1, StackFacts DEF Inv
<1>4. Pops /\ calls' \in Seq(Calls)
  BY <1>1, <1>2, <1>3, Popped DEF Pops
<1>5. Stack'
  BY <1>1, <1>2, <1>4, StackPopped DEF Inv
<1>6. /\ at \in {"asleep", "deliver", "read", "trace", "busy"}
      /\ at \in {"read", "busy", "trace"} => inSync /\ c.sync
      /\ at \in {"read", "busy"} \/ ~drift => Behind = IF at = "asleep" THEN -1 ELSE 0
  <2>1. /\ at \in {"asleep", "deliver", "read", "trace", "busy"}
        /\ at \in {"read", "busy", "trace"} => inSync /\ c.sync
        /\ at \in {"read", "busy"} \/ ~drift => TickRem = c.rem
        /\ Behind = IF at = "asleep" THEN TickRem - 1 ELSE TickRem
    BY <1>1, TopTick DEF Inv
  <2> QED BY <1>1, <2>1
<1> HIDE DEF c
<1>7. ~drift => Behind' = Behind
  <2>1. CASE at \in {"read", "busy"}
    <3>1. budgetAtStep' = left /\ left' = left /\ ~inSync' /\ at' = at /\ left \in Int
      BY <1>2, <1>6, <2>1 DEF Inv, TypeOK
    <3> QED BY <1>6, <2>1, <3>1 DEF Behind, InBlock
  <2>2. CASE at \in {"asleep", "deliver"} /\ ~drift
    <3>1. ~inSync
      BY <2>2 DEF Inv, Drifts
    <3>2. ~c.sync
      BY <1>1, <1>3, <3>1 DEF Inv, Stack, c
    <3>3. Len(calls) = 1
      <4> SUFFICES ASSUME Len(calls) # 1 PROVE FALSE
        OBVIOUS
      <4>1. 1 \in 1 .. Len(calls) - 1
        BY <1>3, Several
      <4>2. \A i \in 1 .. Len(calls) - 1 : calls[i].fn = "Tick" => calls[i].sync
        BY DEF Inv, Stack
      <4> QED BY <1>1, <3>2, <4>1, <4>2 DEF c
    <3>4. Len(calls') = 0
      BY <1>4, <3>3 DEF Pops
    <3>5. calls' = <<>> /\ at' = at
      BY <1>2, <1>4, <3>4, Empty
    <3>6. TickRem' = 0
      BY <3>5 DEF TickRem
    <3> QED BY <1>6, <2>2, <3>5, <3>6 DEF Behind, InBlock
  <2>3. CASE at = "trace"
    BY <1>6, <2>3 DEF Inv, Drifts
  <2> QED BY <1>6, <2>1, <2>2, <2>3
<1>8. Drifts'
  BY <1>2 DEF Inv, Drifts, runner, history
<1>9. Beam'
  <2>1. cyc' = Line => \E i \in 1 .. Len(calls') : calls'[i].fn = "Tick" /\ calls'[i].pc = "roll"
    <3> SUFFICES ASSUME cyc = Line PROVE \E i \in 1 .. Len(calls') : calls'[i].fn = "Tick" /\ calls'[i].pc = "roll"
      BY <1>2 DEF display
    <3>1. PICK i \in 1 .. Len(calls) : calls[i].fn = "Tick" /\ calls[i].pc = "roll"
      BY DEF Inv, Beam
    <3>2. i \in 2 .. Len(calls)
      BY <1>1, <3>1 DEF c
    <3>3. i - 1 \in 1 .. Len(calls') /\ calls'[i - 1] = calls[i]
      BY <1>3, <1>4, <3>2 DEF Pops
    <3> QED BY <3>1, <3>3
  <2> QED BY <1>2, <2>1 DEF Inv, Beam, display
<1>10. TypeOK'
  <2>2. /\ cyc' \in 0 .. Line /\ line' \in 0 .. Lines - 1 /\ hbl' \in BOOLEAN
        /\ iff' \subseteq Source /\ dma' \in [Channel -> Transfers \cup {Off}]
    BY <1>2 DEF Inv, TypeOK, display
  <2>3. calls' = <<>> => cyc' < Line
    BY <1>9, <2>2, BeamInside
  <2>4. inSync' \in BOOLEAN /\ budgetAtStep' \in {budgetAtStep, left}
    BY <1>1, <1>2 DEF Inv, TypeOK
  <2>5. drift' \in BOOLEAN /\ elapsed' = elapsed /\ touched' = touched
    BY <1>2 DEF Inv, TypeOK, history
  <2> QED BY <1>2, <1>4, <2>2, <2>3, <2>4, <2>5, DeviceTypes DEF Inv
<1>11. Budget'
  <2>1. at \in {"read", "busy"} => Behind' = Behind /\ budgetAtStep' = left'
    <3> SUFFICES ASSUME at \in {"read", "busy"} PROVE Behind' = Behind /\ budgetAtStep' = left'
      OBVIOUS
    <3>1. budgetAtStep' = left /\ left' = left /\ ~inSync' /\ at' = at /\ left \in Int
      BY <1>2, <1>6 DEF Inv, TypeOK
    <3> QED BY <1>6, <3>1 DEF Behind, InBlock
  <2> QED BY <1>2, <1>6, <2>1 DEF Inv, Budget, InBlock, display
<1>12. Clock'
  <2>1. Position' = Position
    BY <1>2 DEF Position, display
  <2>2. CASE drift
    BY <1>2, <2>2 DEF Clock, history
  <2>3. CASE ~drift
    BY <1>2, <1>7, <2>1, <2>3, SameClock DEF Inv, history
  <2> QED BY <2>2, <2>3
<1>13. Prompt'
  <2>1. at \in {"read", "busy"} /\ calls' # <<>> => calls'[1].pc # "match"
    <3> SUFFICES ASSUME at \in {"read", "busy"}, calls' # <<>> PROVE calls'[1].pc # "match"
      OBVIOUS
    <3>1. Len(calls') \in Nat /\ Len(calls') # 0 /\ Len(calls') = Len(calls) - 1
      BY <1>4, Empty DEF Pops
    <3>2. 2 \in 1 .. Len(calls) /\ calls'[1] = calls[2]
      BY <1>3, <1>4, <3>1 DEF Pops
    <3>3. at = "busy" /\ calls[2].fn = "Dma"
      BY <1>3, <3>1, <3>2 DEF Inv, Stack
    <3>4. calls[2].pc # "match"
      BY <1>3, <3>2, <3>3, CallKinds, DmaFields
    <3> QED BY <3>2, <3>4
  <2> QED BY <1>1, <1>2, <2>1 DEF Inv, Prompt, Deliverable, regs, history
<1> QED BY <1>5, <1>8, <1>9, <1>10, <1>11, <1>12, <1>13 DEF Inv

-----------------------------------------------------------------------------
(* Transfers. *)

\* A transfer on top of the stack belongs to a CNT_H write of a block, or lies
\* over the Tick of an event.
LEMMA DmaTop ==
    ASSUME Inv, NEW p, Top("Dma", p)
    PROVE  /\ calls # <<>> /\ Head(calls) = calls[1] /\ calls[1] \in DmaCalls
           /\ calls[1].fn = "Dma" /\ calls[1].pc = p
           /\ calls \in Seq(Calls) /\ Len(calls) \in Nat /\ Len(calls) >= 1
           /\ \/ at = "busy" /\ p # "test" /\ touched /\ ~inSync
              \/ at \in {"asleep", "deliver", "trace"} /\ Len(calls) >= 2
                 /\ (at = "trace" => inSync)
<1>1. calls # <<>> /\ Head(calls).fn = "Dma" /\ Head(calls).pc = p
  BY DEF Top
<1>2. /\ Head(calls) = calls[1] /\ calls \in Seq(Calls) /\ Len(calls) \in Nat /\ Len(calls) >= 1
      /\ at \in {"asleep", "deliver", "read", "trace", "busy"}
      /\ \A i \in 1 .. Len(calls) : calls[i] \in Calls
      /\ 1 \in 1 .. Len(calls) /\ Len(calls) \in 1 .. Len(calls)
  <2>1. /\ Head(calls) = calls[1] /\ calls \in Seq(Calls) /\ Len(calls) \in Nat /\ Len(calls) >= 1
        /\ at \in {"asleep", "deliver", "read", "trace", "busy"}
        /\ \A i \in 1 .. Len(calls) : calls[i] \in Calls
    BY <1>1, StackFacts DEF Inv
  <2> QED BY <2>1
<1>3. calls[1] \in DmaCalls
  BY <1>1, <1>2, CallKinds
<1>4. CASE at = "busy"
  <2>1. p # "test"
    BY <1>1, <1>2, <1>4 DEF Inv, Stack, InBlockCall
  <2>2. ~inSync
    <3> SUFFICES ASSUME inSync PROVE FALSE
      OBVIOUS
    <3>1. PICK i \in 1 .. Len(calls) : calls[i].fn = "Tick" /\ calls[i].sync
      BY DEF Inv, Stack
    <3>2. i > 1
      BY <1>1, <1>2, <3>1
    <3> QED BY <1>4, <3>1, <3>2 DEF Inv, Stack
  <2>3. touched
    BY <1>1, <1>4 DEF Inv, Prompt
  <2> QED BY <1>1, <1>2, <1>3, <1>4, <2>1, <2>2, <2>3
<1>5. CASE at # "busy"
  <2>0. Bottom(calls[Len(calls)])
    BY <1>1 DEF Inv, Stack
  <2>1. Len(calls) # 1
    BY <1>1, <1>2, <1>5, <2>0 DEF Bottom
  <2>2. Len(calls) >= 2
    BY <1>2, <2>1, Several
  <2>3. at # "read"
    BY <1>2, <2>2 DEF Inv, Stack
  <2>4. at = "trace" => inSync
    BY <1>1, <1>2 DEF Inv, Stack, Bottom
  <2> QED BY <1>1, <1>2, <1>3, <1>5, <2>2, <2>3, <2>4
<1> QED BY <1>4, <1>5

\* What a transfer does to the stack: it returns, moves on, or starts another.
Moves ==
    \/ Pops
    \/ \E e \in DmaCalls : Replaces(e) /\ Continues(e)
    \/ \E e, f \in DmaCalls : ReplacesAndPushes(e, f) /\ Continues(e) /\ (at = "busy" => InBlockCall(f))

\* It leaves the time as it is.
LEMMA DmaMoves ==
    ASSUME Inv, NEW p, Top("Dma", p), Moves,
           UNCHANGED <<at, runner, catchup, display, elapsed, drift>>
    PROVE  /\ calls' \in Seq(Calls) /\ Stack' /\ Drifts' /\ Beam' /\ Budget' /\ Clock'
           /\ at = "busy" /\ calls' # <<>> => calls'[1].pc # "match"
<1>1. /\ calls # <<>> /\ calls[1].fn = "Dma" /\ calls[1] \in DmaCalls
      /\ calls \in Seq(Calls) /\ Len(calls) \in Nat /\ Len(calls) >= 1
      /\ \/ at = "busy" /\ ~inSync
         \/ at \in {"asleep", "deliver", "trace"} /\ Len(calls) >= 2
  BY DmaTop
<1>2. at' = at /\ inSync' = inSync /\ budgetAtStep' = budgetAtStep /\ left' = left
  BY DEF catchup
<1>3. /\ calls' \in Seq(Calls) /\ Stack'
      /\ at = "busy" /\ calls' # <<>> => calls'[1].pc # "match"
      /\ at # "busy" => calls' # <<>> /\ calls'[Len(calls')] = calls[Len(calls)]
      /\ \A i \in 2 .. Len(calls) : \E j \in 1 .. Len(calls') : calls'[j] = calls[i]
  <2>1. CASE Pops
    <3>1. Stack'
      BY <1>1, <1>2, <2>1, StackPopped DEF Inv
    <3>2. calls' \in Seq(Calls) /\ Len(calls') = Len(calls) - 1 /\ Len(calls') \in Nat
          /\ \A i \in 1 .. Len(calls) - 1 : calls'[i] = calls[i + 1]
      BY <1>1, <2>1 DEF Pops
    <3>3. at = "busy" /\ calls' # <<>> => calls'[1].pc # "match"
      <4> SUFFICES ASSUME at = "busy", calls' # <<>> PROVE calls'[1].pc # "match"
        OBVIOUS
      <4>1. Len(calls') # 0
        BY <3>2, Empty
      <4>2. 2 \in 1 .. Len(calls) /\ calls'[1] = calls[2]
        BY <1>1, <3>2, <4>1
      <4>3. calls[2].fn = "Dma" /\ calls[2] \in Calls
        BY <1>1, <4>2 DEF Inv, Stack
      <4> QED BY <4>2, <4>3, CallKinds, DmaFields
    <3>4. at # "busy" => calls' # <<>> /\ calls'[Len(calls')] = calls[Len(calls)]
      <4> SUFFICES ASSUME at # "busy" PROVE calls' # <<>> /\ calls'[Len(calls')] = calls[Len(calls)]
        OBVIOUS
      <4>1. Len(calls') \in 1 .. Len(calls) - 1 /\ Len(calls') + 1 = Len(calls)
        BY <1>1, <3>2
      <4>2. calls' # <<>>
        BY <3>2, <4>1, Empty
      <4> QED BY <3>2, <4>1, <4>2
    <3>5. ASSUME NEW i \in 2 .. Len(calls) PROVE \E j \in 1 .. Len(calls') : calls'[j] = calls[i]
      <4>1. i - 1 \in 1 .. Len(calls) - 1 /\ (i - 1) + 1 = i
        BY <1>1
      <4>2. i - 1 \in 1 .. Len(calls') /\ calls'[i - 1] = calls[i]
        BY <3>2, <4>1
      <4> QED BY <4>2
    <3> QED BY <3>1, <3>2, <3>3, <3>4, <3>5
  <2>2. CASE \E e \in DmaCalls : Replaces(e) /\ Continues(e)
    <3>1. PICK e \in DmaCalls : Replaces(e) /\ Continues(e)
      BY <2>2
    <3>2. Stack'
      BY <1>1, <1>2, <3>1, StackReplaced DEF Inv
    <3>3. calls' \in Seq(Calls) /\ Len(calls') = Len(calls) /\ calls' # <<>>
          /\ calls'[1] = e /\ \A i \in 2 .. Len(calls) : calls'[i] = calls[i]
      BY <3>1 DEF Replaces
    <3>4. at # "busy" => calls'[Len(calls')] = calls[Len(calls)]
      BY <1>1, <3>3
    <3>5. ASSUME NEW i \in 2 .. Len(calls) PROVE \E j \in 1 .. Len(calls') : calls'[j] = calls[i]
      BY <1>1, <3>3
    <3>6. calls'[1].pc # "match"
      BY <3>3, DmaFields
    <3> QED BY <3>2, <3>3, <3>4, <3>5, <3>6
  <2>3. CASE \E e, f \in DmaCalls : ReplacesAndPushes(e, f) /\ Continues(e) /\ (at = "busy" => InBlockCall(f))
    <3>1. PICK e \in DmaCalls, f \in DmaCalls :
               ReplacesAndPushes(e, f) /\ Continues(e) /\ (at = "busy" => InBlockCall(f))
      BY <2>3
    <3>0. e.fn = "Dma" /\ f.fn = "Dma" /\ f.pc # "match"
      BY DmaFields
    <3>2. Stack'
      BY <1>1, <1>2, <3>0, <3>1, StackPushed DEF Inv
    <3>3. calls' \in Seq(Calls) /\ Len(calls') = Len(calls) + 1 /\ calls' # <<>>
          /\ calls'[1] = f /\ \A i \in 2 .. Len(calls) : calls'[i + 1] = calls[i]
      BY <3>1 DEF ReplacesAndPushes
    <3>4. at # "busy" => calls'[Len(calls')] = calls[Len(calls)]
      BY <1>1, <3>3
    <3>5. ASSUME NEW i \in 2 .. Len(calls) PROVE \E j \in 1 .. Len(calls') : calls'[j] = calls[i]
      <4>1. i + 1 \in 1 .. Len(calls') /\ calls'[i + 1] = calls[i]
        BY <1>1, <3>3
      <4> QED BY <4>1
    <3> QED BY <3>0, <3>2, <3>3, <3>4, <3>5
  <2> QED BY <2>1, <2>2, <2>3 DEF Moves
<1>4. Behind' = Behind
  <2>1. CASE at = "busy"
    BY <1>1, <1>2, <2>1 DEF Behind, InBlock
  <2>2. CASE at # "busy"
    <3>1. TickRem' = TickRem
      BY <1>1, <1>2, <1>3, <2>2 DEF TickRem, InBlock
    <3> QED BY <1>1, <1>2, <2>2, <3>1 DEF Behind, InBlock
  <2> QED BY <2>1, <2>2
<1>5. Drifts'
  BY DEF Inv, Drifts, runner, catchup
<1>6. Beam'
  <2>1. cyc' = Line => \E i \in 1 .. Len(calls') : calls'[i].fn = "Tick" /\ calls'[i].pc = "roll"
    <3> SUFFICES ASSUME cyc = Line PROVE \E i \in 1 .. Len(calls') : calls'[i].fn = "Tick" /\ calls'[i].pc = "roll"
      BY DEF display
    <3>1. PICK i \in 1 .. Len(calls) : calls[i].fn = "Tick" /\ calls[i].pc = "roll"
      BY DEF Inv, Beam
    <3>2. i \in 2 .. Len(calls)
      BY <1>1, <3>1
    <3> QED BY <1>3, <3>1, <3>2
  <2> QED BY <2>1 DEF Inv, Beam, display
<1>7. Budget'
  BY <1>1, <1>2, <1>4 DEF Inv, Budget, InBlock, display
<1>8. Clock'
  <2>1. Position' = Position
    BY DEF Position, display
  <2> QED BY <1>4, <2>1, SameClock DEF Inv
<1> QED BY <1>3, <1>5, <1>6, <1>7, <1>8

\* Whatever it writes to the interrupt registers and the channels, the runner
\* polls afterwards, or the block has touched them.
LEMMA DmaKeeps ==
    ASSUME Inv, NEW p, Top("Dma", p), Moves,
           UNCHANGED <<at, runner, catchup, display, irqOff, halted, history>>,
           enabled' \in Enables \cup {{}}, target' \in Targets \cup {0},
           ime' \in BOOLEAN, ie' \in IeWords \cup {{}}, iff' \subseteq Source,
           dma' \in [Channel -> Transfers \cup {Off}]
    PROVE  Inv'
<1>1. /\ \/ at = "busy" /\ touched
         \/ at \in {"asleep", "deliver", "trace"} /\ (at = "trace" => inSync)
  BY DmaTop
<1>2. elapsed' = elapsed /\ drift' = drift /\ touched' = touched
  BY DEF history
<1>3. /\ calls' \in Seq(Calls) /\ Stack' /\ Drifts' /\ Beam' /\ Budget' /\ Clock'
      /\ at = "busy" /\ calls' # <<>> => calls'[1].pc # "match"
  BY <1>2, DmaMoves
<1>4. TypeOK'
  <2>1. /\ cyc' \in 0 .. Line /\ line' \in 0 .. Lines - 1 /\ hbl' \in BOOLEAN
    BY DEF Inv, TypeOK, display
  <2>2. calls' = <<>> => cyc' < Line
    BY <1>3, <2>1, BeamInside
  <2> QED BY <1>2, <1>3, <2>1, <2>2 DEF Inv, TypeOK, runner, catchup
<1>5. Prompt'
  <2>1. at = "trace" => drift
    BY <1>1 DEF Inv, Drifts
  <2> QED BY <1>1, <1>2, <1>3, <2>1 DEF Prompt
<1> QED BY <1>3, <1>4, <1>5 DEF Inv

\* Registers that a step leaves alone keep their types.
LEMMA RegisterTypes ==
    ASSUME Inv
    PROVE  /\ UNCHANGED regs => /\ enabled' \in Enables \cup {{}} /\ target' \in Targets \cup {0}
                                /\ ime' \in BOOLEAN /\ ie' \in IeWords \cup {{}}
                                /\ UNCHANGED <<irqOff, halted>>
           /\ iff' = iff => iff' \subseteq Source
           /\ dma' = dma => dma' \in [Channel -> Transfers \cup {Off}]
BY DEF Inv, TypeOK, regs

\* A call that continues the one on top.
LEMMA Continuing ==
    ASSUME Inv, NEW p, Top("Dma", p), NEW e \in DmaCalls, e.when = Head(calls).when,
           e.pc # "test" \/ at # "busy"
    PROVE  /\ Continues(e)
           /\ calls' = <<e>> \o Tail(calls) => Moves
           /\ calls' = Tail(calls) => Moves
           /\ \A f \in DmaCalls :
                 (at = "busy" => InBlockCall(f)) /\ calls' = <<f>> \o (<<e>> \o Tail(calls)) => Moves
<1>1. /\ calls # <<>> /\ Head(calls) = calls[1] /\ calls[1] \in DmaCalls /\ calls \in Seq(Calls)
      /\ calls[1].fn = "Dma" /\ Len(calls) \in Nat /\ Len(calls) >= 1
  BY DmaTop
<1>2. e \in Calls /\ e.fn = "Dma"
  BY DmaFields
<1>3. Continues(e)
  BY <1>1, <1>2 DEF Continues
<1>4. ASSUME calls' = <<e>> \o Tail(calls) PROVE Moves
  <2>1. Replaces(e)
    BY <1>1, <1>2, <1>4, Replaced DEF Replaces
  <2> QED BY <1>3, <2>1 DEF Moves
<1>5. ASSUME calls' = Tail(calls) PROVE Moves
  <2>1. Pops
    BY <1>1, <1>5, Popped DEF Pops
  <2> QED BY <2>1 DEF Moves
<1>6. ASSUME NEW f \in DmaCalls, at = "busy" => InBlockCall(f),
             calls' = <<f>> \o (<<e>> \o Tail(calls))
      PROVE  Moves
  <2>1. f \in Calls
    BY DmaFields
  <2>2. ReplacesAndPushes(e, f)
    BY <1>1, <1>2, <1>6, <2>1, Pushed
  <2> QED BY <1>3, <1>6, <2>2 DEF Moves
<1> QED BY <1>3, <1>4, <1>5, <1>6

\* A trigger passes over a channel, or returns after the last.
LEMMA DmaSkipInv ==
    ASSUME Inv, DmaSkip
    PROVE  Inv'
<1> DEFINE c == Head(calls)
           e == TriggerCall(c.when, c.ch + 1)
<1>1. c \in DmaCalls /\ at # "busy" /\ Top("Dma", "test")
  BY DmaTop DEF DmaSkip
<1>2. /\ calls' = (IF c.ch \in Channel THEN <<e>> \o Tail(calls) ELSE Tail(calls))
      /\ UNCHANGED <<at, runner, catchup, display, iff, regs, dma, history>>
  BY DEF DmaSkip
<1>3. e \in DmaCalls /\ e.when = c.when
  <2>1. c.when \in {"Now", "VBlank", "HBlank"} /\ c.ch + 1 \in Nat
    BY <1>1, DmaFields
  <2> HIDE DEF c
  <2> QED BY <2>1, NewTriggerCall
<1> HIDE DEF e
<1>4. Moves
  BY <1>1, <1>2, <1>3, Continuing
<1> QED BY <1>1, <1>2, <1>4, RegisterTypes, DmaKeeps

\* A trigger starts the transfer of a channel.
LEMMA DmaStartInv ==
    ASSUME Inv, NEW k \in Copies, DmaStart(k)
    PROVE  Inv'
<1> DEFINE c == Head(calls)
           e == TransferCall(c.when, c.ch, dma[c.ch], k)
<1>1. c \in DmaCalls /\ Top("Dma", "test")
  BY DmaTop DEF DmaStart
<1>2. /\ calls' = <<e>> \o Tail(calls) /\ c.ch \in Channel
      /\ UNCHANGED <<at, runner, catchup, display, iff, regs, dma, history>>
  BY DEF DmaStart
<1>3. e \in DmaCalls /\ e.when = c.when /\ e.pc = "read"
  <2>1. c.when \in {"Now", "VBlank", "HBlank"} /\ c.ch \in Nat
    BY <1>1, DmaFields
  <2>2. dma[c.ch] \in Transfers \cup {Off}
    BY <1>2 DEF Inv, TypeOK
  <2> HIDE DEF c
  <2> QED BY <2>1, <2>2, DmaNew
<1> HIDE DEF e
<1>4. Moves
  BY <1>1, <1>2, <1>3, Continuing
<1> QED BY <1>1, <1>2, <1>4, RegisterTypes, DmaKeeps

\* The end of a transfer may raise its interrupt.
LEMMA DmaEndInv ==
    ASSUME Inv, DmaEnd
    PROVE  Inv'
<1> DEFINE c == Head(calls)
           e == TriggerCall(c.when, c.ch + 1)
<1>1. c \in DmaCalls /\ Top("Dma", "read") /\ (at = "busy" => c.when = "Now")
  <2>1. c \in DmaCalls /\ Top("Dma", "read")
    BY DmaTop DEF DmaEnd
  <2>2. at = "busy" => c.when = "Now"
    <3>1. calls \in Seq(Calls) /\ 1 \in 1 .. Len(calls) /\ c = calls[1] /\ c.fn = "Dma"
      BY <2>1, DmaTop
    <3> QED BY <3>1 DEF Inv, Stack, InBlockCall
  <2> QED BY <2>1, <2>2
<1>2. /\ dma' = [dma EXCEPT ![c.ch] = Off]
      /\ iff' = (IF c.irq THEN iff \cup {"Dma"} ELSE iff)
      /\ calls' = (IF c.when = "Now" THEN Tail(calls) ELSE <<e>> \o Tail(calls))
      /\ UNCHANGED <<at, runner, catchup, display, regs, history>>
  BY DEF DmaEnd
<1>3. e \in DmaCalls /\ e.when = c.when
  <2>1. c.when \in {"Now", "VBlank", "HBlank"} /\ c.ch + 1 \in Nat
    BY <1>1, DmaFields
  <2> HIDE DEF c
  <2> QED BY <2>1, NewTriggerCall
<1> HIDE DEF e
<1>4. Moves
  <2>1. CASE c.when = "Now"
    <3>1. c.when = c.when /\ c.pc = "read"
      BY <1>1 DEF Top
    <3> QED BY <1>1, <1>2, <2>1, <3>1, Continuing
  <2>2. CASE c.when # "Now"
    BY <1>1, <1>2, <1>3, <2>2, Continuing
  <2> QED BY <2>1, <2>2
<1>5. iff' \subseteq Source
  BY <1>2 DEF Inv, TypeOK, Source
<1>6. dma' \in [Channel -> Transfers \cup {Off}]
  BY <1>2 DEF Inv, TypeOK
<1> QED BY <1>1, <1>2, <1>4, <1>5, <1>6, RegisterTypes, DmaKeeps

\* A unit written, to memory or to a register; to a CNT_H it may start another
\* transfer on top.
LEMMA DmaWritesInv ==
    ASSUME Inv, DmaWrites
    PROVE  Inv'
<1> DEFINE c == Head(calls)
           e == [c EXCEPT !.pc = "read"]
<1>1. c \in DmaCalls /\ Top("Dma", "write")
  <2>1. Top("Dma", "write")
    BY DEF DmaWrites, DmaWrite, DmaWriteIf, DmaWriteDispstat, DmaWriteIe, DmaWriteIme,
           DmaWriteCntH, DmaWriteIo
  <2> QED BY <2>1, DmaTop
<1>2. e \in DmaCalls /\ e.when = c.when /\ e.pc = "read" /\ UnitWritten = <<e>> \o Tail(calls)
  BY <1>1, DmaUnit DEF UnitWritten, Goto
<1> HIDE DEF e, c
<1>3. calls' = UnitWritten => Moves
  BY <1>1, <1>2, Continuing DEF c
<1>4. CASE DmaWrite
  BY <1>1, <1>3, <1>4, RegisterTypes, DmaKeeps DEF DmaWrite
<1>5. CASE \E w \in IfWords : DmaWriteIf(w)
  <2>1. iff' \subseteq Source
    BY <1>5 DEF DmaWriteIf, Inv, TypeOK
  <2>2. /\ calls' = UnitWritten
        /\ UNCHANGED <<at, runner, catchup, display, regs, dma, history>>
    BY <1>5 DEF DmaWriteIf
  <2> QED BY <1>1, <1>3, <2>1, <2>2, RegisterTypes, DmaKeeps
<1>6. CASE \E x \in Enables, t \in Targets : DmaWriteDispstat(x, t)
  <2>1. /\ enabled' \in Enables \cup {{}} /\ target' \in Targets \cup {0}
        /\ ime' \in BOOLEAN /\ ie' \in IeWords \cup {{}}
    BY <1>6 DEF DmaWriteDispstat, Inv, TypeOK
  <2>2. /\ calls' = UnitWritten
        /\ UNCHANGED <<at, runner, catchup, display, irqOff, halted, iff, dma, history>>
    BY <1>6 DEF DmaWriteDispstat
  <2> QED BY <1>1, <1>3, <2>1, <2>2, RegisterTypes, DmaKeeps
<1>7. CASE \E x \in IeWords : DmaWriteIe(x)
  <2>1. /\ enabled' \in Enables \cup {{}} /\ target' \in Targets \cup {0}
        /\ ime' \in BOOLEAN /\ ie' \in IeWords \cup {{}}
    BY <1>7 DEF DmaWriteIe, Inv, TypeOK
  <2>2. /\ calls' = UnitWritten
        /\ UNCHANGED <<at, runner, catchup, display, irqOff, halted, iff, dma, history>>
    BY <1>7 DEF DmaWriteIe
  <2> QED BY <1>1, <1>3, <2>1, <2>2, RegisterTypes, DmaKeeps
<1>8. CASE \E m \in BOOLEAN : DmaWriteIme(m)
  <2>1. /\ enabled' \in Enables \cup {{}} /\ target' \in Targets \cup {0}
        /\ ime' \in BOOLEAN /\ ie' \in IeWords \cup {{}}
    BY <1>8 DEF DmaWriteIme, Inv, TypeOK
  <2>2. /\ calls' = UnitWritten
        /\ UNCHANGED <<at, runner, catchup, display, irqOff, halted, iff, dma, history>>
    BY <1>8 DEF DmaWriteIme
  <2> QED BY <1>1, <1>3, <2>1, <2>2, RegisterTypes, DmaKeeps
<1>9. CASE \E ch \in Channel, w \in Transfers \cup {Off}, k \in Copies : DmaWriteCntH(ch, w, k)
  <2>1. PICK ch \in Channel, w \in Transfers \cup {Off}, k \in Copies : DmaWriteCntH(ch, w, k)
    BY <1>9
  <2> DEFINE f == TransferCall("Now", ch, w, k)
  <2>2. /\ dma' = [dma EXCEPT ![ch] = w]
        /\ calls' = UnitWritten \/ calls' = <<f>> \o UnitWritten
        /\ UNCHANGED <<at, runner, catchup, display, iff, regs, history>>
    BY <2>1 DEF DmaWriteCntH
  <2>3. f \in DmaCalls /\ InBlockCall(f)
    <3>1. ch \in Nat
      BY DeviceAssumption DEF Channel
    <3>2. f \in DmaCalls /\ f.pc = "read" /\ f.when = "Now"
      BY <3>1, DmaNew
    <3> QED BY <3>2 DEF InBlockCall
  <2> HIDE DEF f
  <2>4. Moves
    <3>1. CASE calls' = UnitWritten
      BY <1>3, <3>1
    <3>2. CASE calls' = <<f>> \o UnitWritten
      BY <1>1, <1>2, <2>3, <3>2, Continuing DEF c
    <3> QED BY <2>2, <3>1, <3>2
  <2>5. dma' \in [Channel -> Transfers \cup {Off}]
    BY <2>2 DEF Inv, TypeOK
  <2> QED BY <1>1, <2>2, <2>4, <2>5, RegisterTypes, DmaKeeps
<1> QED BY <1>4, <1>5, <1>6, <1>7, <1>8, <1>9 DEF DmaWrites

\* A unit read from I/O catches up: in a block with the time executed so far,
\* after the step has ended with time that is counted again.
LEMMA DmaReadInv ==
    ASSUME Inv, DmaRead
    PROVE  Inv'
<1> DEFINE c == Head(calls)
           e == [[c EXCEPT !.pc = "write"] EXCEPT !.units = @ - 1]
           n == budgetAtStep - left
           f == TickCall(n, TRUE)
<1>1. /\ calls # <<>> /\ c = calls[1] /\ c \in DmaCalls /\ calls \in Seq(Calls)
      /\ Len(calls) \in Nat /\ Len(calls) >= 1 /\ c.fn = "Dma"
      /\ \/ at = "busy" /\ touched /\ ~inSync
         \/ at \in {"asleep", "deliver", "trace"} /\ (at = "trace" => inSync)
      /\ Top("Dma", "read")
  BY DmaTop DEF DmaRead
<1>2. e \in DmaCalls /\ e.when = c.when /\ e.pc = "write"
  <2>1. c.units > 0
    BY DEF DmaRead
  <2> HIDE DEF c
  <2> QED BY <1>1, <2>1, DmaUnit
<1>3. /\ calls' = <<e>> \o Tail(calls) /\ UNCHANGED <<inSync, drift>>
      \/ /\ ~inSync /\ ~(budgetAtStep <= left)
         /\ calls' = <<f>> \o (<<e>> \o Tail(calls))
         /\ inSync' = TRUE /\ drift' = (drift \/ at \notin {"read", "busy"})
  BY DEF DmaRead, Sync, Goto
<1>4. UNCHANGED <<at, runner, budgetAtStep, left, display, iff, regs, dma, elapsed, touched>>
  BY DEF DmaRead
<1>5. e \in Calls /\ e.fn = "Dma"
  <2> HIDE DEF e
  <2> QED BY <1>2, DmaFields
<1>6. budgetAtStep \in Int /\ left \in Int /\ left <= budgetAtStep /\ drift \in BOOLEAN
  BY DEF Inv, TypeOK
<1> HIDE DEF e, c
<1>7. CASE calls' = <<e>> \o Tail(calls) /\ UNCHANGED <<inSync, drift>>
  <2>1. Moves
    BY <1>1, <1>2, <1>7, Continuing DEF c
  <2>2. UNCHANGED <<at, runner, catchup, display, iff, regs, dma, history>>
    BY <1>4, <1>7 DEF catchup, history
  <2> QED BY <1>1, <2>1, <2>2, RegisterTypes, DmaKeeps
<1>8. CASE /\ ~inSync /\ ~(budgetAtStep <= left)
           /\ calls' = <<f>> \o (<<e>> \o Tail(calls))
           /\ inSync' = TRUE /\ drift' = (drift \/ at \notin {"read", "busy"})
  <2>0. n \in Nat
    BY <1>6, <1>8
  <2>1. f \in Calls /\ f.fn = "Tick" /\ f.sync /\ f.rem = n /\ f.pc = "step"
    <3> HIDE DEF n
    <3> QED BY <2>0, NewTick
  <2> HIDE DEF f
  <2>2. ReplacesAndPushes(e, f)
    BY <1>1, <1>5, <1>8, <2>1, Pushed
  <2>3. at \in {"busy", "asleep", "deliver"} /\ at' = at
    BY <1>1, <1>4, <1>8
  <2>4. Continues(e)
    BY <1>1, <1>2, <1>5 DEF Continues
  <2>5. Stack'
    <3>1. InBlockCall(f)
      BY <2>1 DEF InBlockCall
    <3> QED BY <1>1, <1>5, <1>8, <2>1, <2>2, <2>3, <2>4, <3>1, StackPushed DEF Inv
  <2>6. calls' \in Seq(Calls) /\ calls' # <<>> /\ calls'[1] = f
    BY <2>2 DEF ReplacesAndPushes
  <2>7. TypeOK'
    <3>1. /\ cyc' \in 0 .. Line /\ line' \in 0 .. Lines - 1 /\ hbl' \in BOOLEAN
          /\ iff' \subseteq Source /\ dma' \in [Channel -> Transfers \cup {Off}]
      BY <1>4 DEF Inv, TypeOK, display
    <3>2. inSync' \in BOOLEAN /\ drift' \in BOOLEAN
      BY <1>6, <1>8
    <3> QED BY <1>4, <2>6, <3>1, <3>2, DeviceTypes DEF Inv
  <2>8. Drifts'
    <3>1. jit
      BY <1>6, <1>8 DEF Inv, Drifts
    <3> QED BY <1>4, <1>8, <2>3, <3>1 DEF Drifts, runner
  <2>9. Beam'
    <3>1. cyc' = Line => \E i \in 1 .. Len(calls') : calls'[i].fn = "Tick" /\ calls'[i].pc = "roll"
      <4> SUFFICES ASSUME cyc = Line PROVE \E i \in 1 .. Len(calls') : calls'[i].fn = "Tick" /\ calls'[i].pc = "roll"
        BY <1>4 DEF display
      <4>1. PICK i \in 1 .. Len(calls) : calls[i].fn = "Tick" /\ calls[i].pc = "roll"
        BY DEF Inv, Beam
      <4>2. i \in 2 .. Len(calls)
        BY <1>1, <4>1
      <4>3. i + 1 \in 1 .. Len(calls') /\ calls'[i + 1] = calls[i]
        BY <1>1, <2>2, <4>2 DEF ReplacesAndPushes
      <4> QED BY <4>1, <4>3
    <3> QED BY <1>4, <3>1 DEF Inv, Beam, display
  <2>10. at = "busy" => Behind' = Behind
    <3> SUFFICES ASSUME at = "busy" PROVE Behind' = Behind
      OBVIOUS
    <3>1. Behind = n
      BY <1>8 DEF Behind, InBlock
    <3>2. TickRem' = n
      BY <2>1, <2>3, <2>6 DEF TickRem, InBlock
    <3> HIDE DEF n
    <3> QED BY <1>8, <2>3, <3>1, <3>2 DEF Behind, InBlock
  <2>11. Budget'
    <3>1. UNCHANGED <<left, cyc, hbl, line>>
      BY <1>4 DEF display
    <3> QED BY <2>3, <2>10, <3>1 DEF Inv, Budget, InBlock
  <2>12. Clock'
    <3>1. CASE at = "busy"
      <4>1. Position' = Position /\ elapsed' = elapsed
        BY <1>4 DEF Position, display
      <4>2. drift' = drift
        BY <1>6, <1>8, <3>1
      <4> QED BY <2>10, <3>1, <4>1, <4>2, SameClock DEF Inv
    <3>2. CASE at # "busy"
      BY <1>8, <2>3, <3>2 DEF Clock
    <3> QED BY <3>1, <3>2
  <2>13. Prompt'
    BY <1>1, <1>4, <1>8, <2>1, <2>3, <2>6 DEF Prompt
  <2> QED BY <2>5, <2>7, <2>8, <2>9, <2>11, <2>12, <2>13 DEF Inv
<1> QED BY <1>3, <1>7, <1>8

-----------------------------------------------------------------------------
(* The guest. *)

\* Between instructions and between steps no call is in progress.
LEMMA NoCalls ==
    ASSUME Inv, at \in {"idle", "done", "loop", "cpu", "stepped"}
    PROVE  calls = <<>>
<1> SUFFICES ASSUME calls # <<>> PROVE FALSE
  OBVIOUS
<1>1. at \in {"asleep", "deliver", "read", "trace", "busy"}
  BY StackFacts DEF Inv
<1> QED BY <1>1

\* With no call in progress nothing is owed by a Tick.
LEMMA AtRest ==
    ASSUME Inv, calls = <<>>
    PROVE  ~inSync /\ TickRem = 0 /\ cyc < Line
<1>1. ~inSync
  BY DEF Inv, Stack
<1> QED BY <1>1 DEF Inv, TypeOK, TickRem

\* The empty stack has the right shape.
LEMMA EmptyStack ==
    ASSUME calls' = <<>>, inSync' = FALSE
    PROVE  Stack' /\ TickRem' = 0 /\ calls' \in Seq(Calls)
<1>1. Len(calls') = 0 /\ calls' \in Seq(Calls)
  OBVIOUS
<1>3. TickRem' = 0
  BY DEF TickRem
<1> QED BY <1>1, <1>3 DEF Stack

\* A single Tick: the runner's own, or the catch-up of a read.
LEMMA OneTick ==
    ASSUME NEW n \in Nat, NEW y \in BOOLEAN, calls' = <<TickCall(n, y)>>, inSync' = y,
           at' \in (IF y THEN {"read", "trace"} ELSE {"asleep", "deliver"})
    PROVE  /\ Stack' /\ TickRem' = n /\ calls' # <<>>
           /\ calls' \in Seq(Calls)
           /\ calls'[1].pc # "match"
<1> DEFINE c == TickCall(n, y)
<1>1. c \in Calls /\ c.fn = "Tick" /\ c.rem = n /\ c.sync = y /\ c.pc = "step"
  BY NewTick
<1>2. calls' = <<c>>
  OBVIOUS
<1> HIDE DEF c
<1>3. calls' \in Seq(Calls) /\ Len(calls') = 1 /\ calls'[1] = c /\ calls' # <<>>
  BY <1>1, <1>2
<1>4. Stack'
  <2>1. at' # "busy"
    OBVIOUS
  <2>2. Bottom(calls[Len(calls)])'
    BY <1>1, <1>3 DEF Bottom
  <2>3. inSync' <=> \E i \in 1 .. Len(calls') : calls'[i].fn = "Tick" /\ calls'[i].sync
    BY <1>1, <1>3
  <2> QED BY <1>3, <2>1, <2>2, <2>3 DEF Stack
<1>5. TickRem' = n
  BY <1>1, <1>3 DEF TickRem, InBlock
<1> QED BY <1>1, <1>3, <1>4, <1>5

\* An instruction that calls nothing leaves the stack empty and time alone.
LEMMA QuietInstruction ==
    ASSUME Inv, Quiet("cpu"), at' = "busy",
           UNCHANGED <<runner, catchup, calls, display, elapsed, drift>>
    PROVE  Stack' /\ Drifts' /\ Beam' /\ Budget' /\ Clock'
<1>1. at = "cpu" /\ calls = <<>> /\ calls' = <<>> /\ ~inSync /\ inSync' = FALSE
  BY AtRest DEF Quiet, catchup, Inv, TypeOK
<1>2. Stack'
  BY <1>1, EmptyStack
<1>3. Drifts'
  BY <1>1 DEF Inv, Drifts, runner, catchup
<1>4. Beam'
  BY <1>1 DEF Inv, Beam, display
<1>5. Behind' = Behind
  BY <1>1 DEF Behind, InBlock, catchup
<1>6. Budget'
  BY <1>1, <1>5 DEF Inv, Budget, InBlock, catchup, display
<1>7. Position' = Position
  BY DEF Position, display
<1>8. Clock'
  BY <1>5, <1>7, SameClock DEF Inv
<1> QED BY <1>2, <1>3, <1>4, <1>6, <1>8

\* Plain, and the writes to IF, DISPSTAT, IE, IME, CPSR and HALTCNT.
LEMMA QuietInv ==
    ASSUME Inv,
           \/ Plain \/ WriteHaltcnt
           \/ \E w \in IfWords : WriteIf(w)
           \/ \E e \in Enables, t \in Targets : WriteDispstat(e, t)
           \/ \E e \in IeWords, m, i \in BOOLEAN : WriteInterruptControl(e, m, i)
    PROVE  Inv'
<1>1. Quiet("cpu") /\ at' = "busy" /\ UNCHANGED <<runner, catchup, calls, display, elapsed, drift>>
  BY DEF Plain, WriteHaltcnt, WriteIf, WriteDispstat, WriteInterruptControl, history
<1>2. Stack' /\ Drifts' /\ Beam' /\ Budget' /\ Clock'
  BY <1>1, QuietInstruction
<1>3. /\ enabled' \in Enables \cup {{}} /\ target' \in Targets \cup {0}
      /\ ime' \in BOOLEAN /\ ie' \in IeWords \cup {{}} /\ iff' \subseteq Source
      /\ irqOff' \in BOOLEAN /\ halted' \in BOOLEAN /\ touched' \in BOOLEAN
      /\ dma' = dma
  <2>1. CASE Plain
    BY <2>1 DEF Inv, TypeOK, Plain, regs, history
  <2>2. CASE WriteHaltcnt
    BY <2>2 DEF Inv, TypeOK, WriteHaltcnt, history
  <2>3. CASE \E w \in IfWords : WriteIf(w)
    BY <2>3 DEF Inv, TypeOK, WriteIf, regs, history
  <2>4. CASE \E e \in Enables, t \in Targets : WriteDispstat(e, t)
    BY <2>4 DEF Inv, TypeOK, WriteDispstat, history
  <2>5. CASE \E e \in IeWords, m, i \in BOOLEAN : WriteInterruptControl(e, m, i)
    BY <2>5 DEF Inv, TypeOK, WriteInterruptControl
  <2> QED BY <2>1, <2>2, <2>3, <2>4, <2>5
<1>4. TypeOK'
  BY <1>1, <1>3 DEF Inv, TypeOK, Quiet, runner, catchup, display
<1>5. Prompt'
  <2>1. calls' = <<>> /\ at' = "busy" /\ drift' = drift
    BY <1>1 DEF Quiet
  <2>2. ~Deliverable \/ touched \/ drift
    BY <1>1 DEF Inv, Prompt, Quiet
  <2>3. ~Deliverable' \/ touched' \/ drift'
    <3>1. CASE Plain
      BY <2>1, <2>2, <3>1 DEF Plain, regs, history, Deliverable
    <3>2. CASE WriteHaltcnt
      BY <2>1, <2>2, <3>2 DEF WriteHaltcnt, history, Deliverable
    <3>3. CASE \E w \in IfWords : WriteIf(w)
      BY <2>1, <2>2, <3>3 DEF WriteIf, regs, history, Deliverable
    <3>4. CASE \E e \in Enables, t \in Targets : WriteDispstat(e, t)
      BY <2>1, <2>2, <3>4 DEF WriteDispstat, history, Deliverable
    <3>5. CASE \E e \in IeWords, m, i \in BOOLEAN : WriteInterruptControl(e, m, i)
      BY <3>5 DEF WriteInterruptControl
    <3> QED BY <3>1, <3>2, <3>3, <3>4, <3>5
  <2> QED BY <2>1, <2>3 DEF Prompt
<1> QED BY <1>2, <1>4, <1>5 DEF Inv

\* A read of I/O: the catch-up takes over the time the block is ahead.
LEMMA ReadIoInv ==
    ASSUME Inv, ReadIo
    PROVE  Inv'
<1>1. /\ at = "cpu" /\ calls = <<>> /\ at' = "read" /\ inSync = FALSE /\ cyc < Line
      /\ UNCHANGED <<runner, budgetAtStep, left, display, regs, iff, dma, elapsed, touched>>
      /\ budgetAtStep \in Int /\ left \in Int /\ left <= budgetAtStep
  BY AtRest DEF ReadIo, Quiet, Inv, TypeOK
<1>2. Behind = budgetAtStep - left
  BY <1>1 DEF Behind, InBlock
<1>3. /\ Stack' /\ calls' \in Seq(Calls) /\ drift' = drift /\ inSync' \in BOOLEAN
      /\ Behind' = Behind /\ (~inSync' => budgetAtStep = left)
      /\ calls' # <<>> => calls'[1].pc # "match"
      /\ inSync' => jit
  <2>1. CASE budgetAtStep <= left
    <3>1. calls' = <<>> /\ inSync' = FALSE /\ drift' = drift /\ budgetAtStep = left
      BY <1>1, <2>1 DEF ReadIo, Sync
    <3>2. Stack' /\ calls' \in Seq(Calls)
      BY <3>1, EmptyStack
    <3>3. Behind' = Behind
      BY <1>1, <1>2, <3>1 DEF Behind, InBlock
    <3> QED BY <3>1, <3>2, <3>3
  <2>2. CASE ~(budgetAtStep <= left)
    <3> DEFINE n == budgetAtStep - left
    <3>1. calls' = <<TickCall(n, TRUE)>> \o <<>> /\ inSync' = TRUE /\ drift' = (drift \/ FALSE)
      BY <1>1, <2>2 DEF ReadIo, Sync
    <3>2. n \in Nat
      BY <1>1, <2>2
    <3>3. calls' = <<TickCall(n, TRUE)>> /\ drift' = drift
      BY <3>1 DEF Inv, TypeOK
    <3>4. /\ Stack' /\ calls' \in Seq(Calls) /\ calls'[1].pc # "match"
          /\ TickRem' = n
      <4> HIDE DEF n
      <4> QED BY <1>1, <3>1, <3>2, <3>3, OneTick
    <3>5. Behind' = n
      BY <1>1, <3>1, <3>4 DEF Behind, InBlock
    <3>6. jit
      BY <1>1, <2>2 DEF Inv, Drifts
    <3> QED BY <1>2, <3>1, <3>3, <3>4, <3>5, <3>6
  <2> QED BY <2>1, <2>2
<1>4. TypeOK'
  BY <1>1, <1>3 DEF Inv, TypeOK, runner, display, regs
<1>5. Drifts'
  BY <1>1, <1>3 DEF Inv, Drifts, runner
<1>6. Beam'
  BY <1>1 DEF Inv, Beam, display
<1>7. Budget'
  BY <1>1, <1>3 DEF Inv, Budget, InBlock, display
<1>8. Clock'
  <2>1. Position' = Position
    BY <1>1 DEF Position, display
  <2> QED BY <1>1, <1>3, <2>1, SameClock DEF Inv
<1>9. Prompt'
  BY <1>1, <1>3 DEF Inv, Prompt, Deliverable, regs
<1> QED BY <1>3, <1>4, <1>5, <1>6, <1>7, <1>8, <1>9 DEF Inv

\* A write of CNT_H that starts an immediate transfer pushes it.
LEMMA WriteCntHInv ==
    ASSUME Inv, NEW ch \in Channel, NEW w \in Transfers \cup {Off}, NEW k \in Copies,
           WriteCntH(ch, w, k)
    PROVE  Inv'
<1> DEFINE e == TransferCall("Now", ch, w, k)
<1>1. /\ at = "cpu" /\ calls = <<>> /\ at' = "busy" /\ inSync = FALSE /\ cyc < Line
      /\ UNCHANGED <<runner, catchup, display, regs, iff, elapsed, drift>>
      /\ touched' = TRUE /\ dma' = [dma EXCEPT ![ch] = w]
      /\ calls' = <<e>> \/ calls' = <<>>
  BY AtRest DEF WriteCntH, Quiet, Inv, TypeOK
<1>2. dma' \in [Channel -> Transfers \cup {Off}]
  BY <1>1 DEF Inv, TypeOK
<1>3. e \in Calls /\ e.fn = "Dma" /\ e.pc = "read" /\ e.when = "Now"
  <2>1. ch \in Nat
    BY DeviceAssumption DEF Channel
  <2>2. e \in DmaCalls /\ e.pc = "read" /\ e.when = "Now"
    BY <2>1, DmaNew
  <2> HIDE DEF e
  <2> QED BY <2>2, DmaFields
<1> HIDE DEF e
<1>4. inSync' = FALSE /\ budgetAtStep' = budgetAtStep /\ left' = left
  BY <1>1 DEF catchup
<1>5. Stack' /\ calls' \in Seq(Calls) /\ (calls' # <<>> => calls'[1].pc # "match")
  <2>1. CASE calls' = <<>>
    BY <1>4, <2>1, EmptyStack
  <2>2. CASE calls' = <<e>>
    <3>1. calls' \in Seq(Calls) /\ Len(calls') = 1 /\ calls'[1] = e
      BY <1>3, <2>2
    <3>2. Bottom(calls[Len(calls)])'
      BY <1>1, <1>3, <3>1 DEF Bottom
    <3>3. ~ \E i \in 1 .. Len(calls') : calls'[i].fn = "Tick" /\ calls'[i].sync
      BY <1>3, <3>1
    <3>4. \A i \in 1 .. Len(calls') : InBlockCall(calls'[i]) /\ (i > 1 => calls'[i].fn = "Dma")
      BY <1>3, <3>1 DEF InBlockCall
    <3> QED BY <1>1, <1>3, <1>4, <3>1, <3>2, <3>3, <3>4 DEF Stack
  <2> QED BY <1>1, <2>1, <2>2
<1>6. Behind' = Behind
  BY <1>1, <1>4 DEF Behind, InBlock
<1>7. TypeOK'
  BY <1>1, <1>2, <1>4, <1>5 DEF Inv, TypeOK, runner, catchup, display, regs
<1>8. Drifts'
  BY <1>1, <1>4 DEF Inv, Drifts, runner
<1>9. Beam'
  BY <1>1 DEF Inv, Beam, display
<1>10. Budget'
  BY <1>1, <1>4, <1>6 DEF Inv, Budget, InBlock, display
<1>11. Clock'
  <2>1. Position' = Position
    BY <1>1 DEF Position, display
  <2> QED BY <1>1, <1>6, <2>1, SameClock DEF Inv
<1>12. Prompt'
  BY <1>1, <1>5 DEF Prompt
<1> QED BY <1>5, <1>7, <1>8, <1>9, <1>10, <1>11, <1>12 DEF Inv

\* The time an instruction or a sleeping CPU takes is owed to the display.
LEMMA Elapsing ==
    ASSUME Inv, NEW n \in Nat, Elapse(n), drift' = drift, Position' = Position,
           Behind \in Int, Behind' = Behind + n
    PROVE  Clock' /\ elapsed' \in 0 .. Frame - 1
<1>1. elapsed \in Int /\ Position \in Int /\ Frame \in Nat \ {0} /\ elapsed + n \in Int
  BY PositionFacts, FrameFacts DEF Inv, TypeOK
<1>2. CASE drift
  BY <1>1, <1>2 DEF Elapse, Clock
<1>3. CASE ~drift
  <2>1. elapsed' = (elapsed + n) % Frame
    BY <1>3 DEF Elapse
  <2>2. elapsed' \in 0 .. Frame - 1
    BY <1>1, <2>1, DivisionFacts
  <2>3. SameTime((Position + Behind) + n, elapsed + n)
    <3>1. Position + Behind \in Int /\ SameTime(Position + Behind, elapsed)
      BY <1>1, <1>3 DEF Inv, Clock
    <3> DEFINE p == Position + Behind
    <3>2. p \in Int /\ SameTime(p, elapsed) /\ elapsed \in Int
      BY <1>1, <3>1
    <3> HIDE DEF p
    <3>3. (p + n) - (elapsed + n) = p - elapsed
      BY <3>2
    <3> QED BY <3>2, <3>3 DEF p, SameTime
  <2> DEFINE a == (Position + Behind) + n
             b == elapsed + n
  <2>4. a \in Int /\ b \in Int /\ SameTime(a, b)
    BY <1>1, <2>3
  <2>5. a = Position' + Behind' /\ elapsed' = b % Frame
    BY <1>1, <2>1
  <2> HIDE DEF a, b
  <2>6. SameTime(a, b % Frame)
    BY <2>4, SameTimeWrap
  <2> QED BY <2>2, <2>5, <2>6 DEF Clock, SameTime
<1> QED BY <1>2, <1>3

\* The cost of an instruction moves from the budget to what the display is
\* behind; the interpreter's is owed by the step alone.
LEMMA RetireInv ==
    ASSUME Inv, NEW c \in Cost, NEW last \in BOOLEAN, Retire(c, last)
    PROVE  Inv'
<1> DEFINE n == IF jit THEN c ELSE 1
<1>1. /\ at \in {"busy", "read"} /\ calls = <<>> /\ inSync = FALSE /\ cyc < Line
      /\ UNCHANGED <<jit, quota, consumed, budget, budgetAtStep, inSync, calls, display,
                     regs, iff, dma, drift, touched>>
  BY AtRest DEF Retire, Quiet, Inv, TypeOK
<1>2. /\ budgetAtStep \in Int /\ left \in Int /\ left <= budgetAtStep /\ budgetAtStep <= budget
      /\ budget \in Int /\ c \in Nat /\ c >= 1
  BY <1>1, ConstantFacts DEF Inv, TypeOK
<1>3. n \in Nat /\ n >= 1 /\ Elapse(n)
  BY <1>2 DEF Retire
<1>4. /\ jit => left' = left - c /\ stepCycles' = budget - left'
                /\ at' = IF last \/ left' <= 0 THEN "stepped" ELSE "cpu"
      /\ ~jit => left' = left /\ stepCycles' = 1 /\ at' = "stepped"
  BY DEF Retire
<1>5. Behind = budgetAtStep - left
  BY <1>1 DEF Behind, InBlock
<1>6. ~jit => budgetAtStep = left /\ left = budget
  BY <1>1 DEF Inv, Drifts
<1>7. /\ Behind' = Behind + n /\ Behind \in Int
      /\ stepCycles' \in Nat /\ left' \in Int /\ left' <= budgetAtStep'
      /\ at' = "cpu" => left' >= 1 /\ jit /\ left' = left - n
      /\ at' \in {"cpu", "stepped"}
  <2>1. CASE jit /\ at' = "cpu"
    <3>1. left' = left - c /\ left' >= 1 /\ stepCycles' = budget - left'
      BY <1>2, <1>4, <2>1
    <3>2. Behind' = budgetAtStep - left'
      BY <1>1, <2>1 DEF Behind, InBlock
    <3> QED BY <1>1, <1>2, <1>5, <2>1, <3>1, <3>2
  <2>2. CASE jit /\ at' = "stepped"
    <3>1. left' = left - c /\ stepCycles' = budget - left'
      BY <1>4, <2>2
    <3>2. Behind' = stepCycles' - (budget - budgetAtStep)
      BY <1>1, <2>2 DEF Behind, InBlock
    <3> QED BY <1>1, <1>2, <1>5, <2>2, <3>1, <3>2
  <2>3. CASE ~jit
    <3>1. left' = left /\ stepCycles' = 1 /\ at' = "stepped"
      BY <1>4, <2>3
    <3>2. Behind' = stepCycles' - (budget - budgetAtStep)
      BY <1>1, <3>1 DEF Behind, InBlock
    <3> QED BY <1>1, <1>2, <1>5, <1>6, <2>3, <3>1, <3>2
  <2> QED BY <1>4, <2>1, <2>2, <2>3
<1> HIDE DEF n
<1>8. Clock' /\ elapsed' \in 0 .. Frame - 1
  <2>1. Position' = Position
    BY <1>1 DEF Position, display
  <2> QED BY <1>1, <1>3, <1>7, <2>1, Elapsing
<1>9. TypeOK'
  BY <1>1, <1>2, <1>7, <1>8 DEF Inv, TypeOK, display, regs
<1>10. Stack'
  BY <1>1, EmptyStack
<1>11. Drifts'
  BY <1>1, <1>4, <1>6, <1>7 DEF Inv, Drifts
<1>12. Beam'
  BY <1>1 DEF Inv, Beam, display
<1>13. Budget'
  <2>1. CASE at' = "stepped"
    <3>1. Behind' >= 1
      BY <1>2, <1>3, <1>5, <1>7
    <3> QED BY <2>1, <3>1 DEF Budget, InBlock
  <2>2. CASE at' = "cpu"
    <3>1. Behind' + left' = Behind + left
      BY <1>2, <1>3, <1>5, <1>7, <2>2
    <3>2. /\ cyc + Behind + left <= Line
          /\ ~hbl /\ line < Visible => cyc + Behind + left <= HDraw
      BY <1>1 DEF Inv, Budget, InBlock
    <3>3. /\ cyc' + Behind' + left' <= Line
          /\ ~hbl' /\ line' < Visible => cyc' + Behind' + left' <= HDraw
      <4>1. /\ cyc' = cyc /\ hbl' = hbl /\ line' = line /\ cyc \in Int
            /\ Behind' \in Int /\ left' \in Int
        BY <1>1, <1>2, <1>3, <1>7 DEF display, Inv, TypeOK
      <4>2. cyc' + Behind' + left' = cyc + Behind + left
        BY <1>2, <1>7, <3>1, <4>1
      <4> QED BY <3>2, <4>1, <4>2
    <3> QED BY <1>7, <2>2, <3>3 DEF Budget
  <2> QED BY <1>7, <2>1, <2>2
<1>14. Prompt'
  BY <1>1, <1>7 DEF Inv, Prompt, Deliverable, regs
<1> QED BY <1>8, <1>9, <1>10, <1>11, <1>12, <1>13, <1>14 DEF Inv

\* A block that cannot be compiled is a step of one unit.
LEMMA UndecodableInv ==
    ASSUME Inv, Undecodable
    PROVE  Inv'
<1>1. /\ at = "cpu" /\ calls = <<>> /\ inSync = FALSE /\ jit /\ left = budget
      /\ stepCycles' = 1 /\ at' = "stepped" /\ Elapse(1)
      /\ UNCHANGED <<jit, quota, consumed, budget, catchup, calls, display, regs, iff, dma,
                     drift, touched>>
  BY AtRest DEF Undecodable, Quiet, Inv, TypeOK
<1>2. budgetAtStep = budget /\ left = budget /\ budget \in Int
  BY <1>1 DEF Inv, TypeOK
<1>3. Behind = 0 /\ Behind' = 1
  BY <1>1, <1>2 DEF Behind, InBlock, catchup
<1>4. Clock' /\ elapsed' \in 0 .. Frame - 1
  <2>1. Position' = Position
    BY <1>1 DEF Position, display
  <2> QED BY <1>1, <1>3, <2>1, Elapsing
<1>5. TypeOK'
  BY <1>1, <1>4 DEF Inv, TypeOK, catchup, display, regs
<1>6. Stack'
  BY <1>1, EmptyStack DEF catchup
<1>7. Drifts' /\ Beam' /\ Budget'
  BY <1>1, <1>3 DEF Inv, Drifts, Beam, Budget, InBlock, catchup, display
<1>8. Prompt'
  BY <1>1 DEF Inv, Prompt, Deliverable, regs
<1> QED BY <1>4, <1>5, <1>6, <1>7, <1>8 DEF Inv

-----------------------------------------------------------------------------
(* The runner. *)

\* Moves between steps with no call in progress.
LEMMA QuietRunner ==
    ASSUME Inv, calls = <<>>, at \in {"idle", "done", "trace", "loop", "deliver"},
           at' \in {"idle", "done", "trace", "loop"},
           UNCHANGED <<jit, budget, stepCycles, catchup, calls, display, elapsed, drift>>
    PROVE  Stack' /\ Drifts' /\ Beam' /\ Budget' /\ Clock'
<1>1. inSync = FALSE /\ inSync' = FALSE /\ calls' = <<>> /\ TickRem = 0
  BY AtRest DEF Inv, TypeOK, catchup
<1>2. Stack' /\ TickRem' = 0
  BY <1>1, EmptyStack
<1>3. Drifts'
  BY <1>1 DEF Inv, Drifts, catchup
<1>4. Beam'
  BY <1>1 DEF Inv, Beam, display
<1>5. Budget'
  BY DEF Budget, InBlock
<1>6. Behind = 0 /\ Behind' = 0
  BY <1>1, <1>2 DEF Behind, InBlock
<1>7. Position' = Position
  BY DEF Position, display
<1>8. Clock'
  BY <1>6, <1>7, SameClock DEF Inv
<1> QED BY <1>2, <1>3, <1>4, <1>5, <1>8

\* A poll leaves nothing deliverable; the other moves change no register.
LEMMA QuietRunnerInv ==
    ASSUME Inv, (\E q \in Quota : RunCycles(q)) \/ FrameTraceEnd \/ Return \/ DeliverIrq
    PROVE  Inv'
<1>1. /\ at \in {"idle", "done", "trace", "loop", "deliver"} /\ at' \in {"idle", "done", "loop"}
      /\ UNCHANGED <<jit, budget, stepCycles, catchup, calls, display, elapsed, drift>>
      /\ UNCHANGED <<enabled, target, ime, ie, halted, iff, dma, touched>>
  BY DEF RunCycles, FrameTraceEnd, Return, DeliverIrq, Quiet, runner, history, regs
<1>2. calls = <<>>
  <2>1. CASE \E q \in Quota : RunCycles(q)
    BY <2>1, NoCalls DEF RunCycles
  <2>2. CASE Return
    BY <2>2, NoCalls DEF Return
  <2>3. CASE FrameTraceEnd \/ DeliverIrq
    BY <2>3 DEF FrameTraceEnd, DeliverIrq, Quiet
  <2> QED BY <2>1, <2>2, <2>3
<1>3. Stack' /\ Drifts' /\ Beam' /\ Budget' /\ Clock'
  BY <1>1, <1>2, QuietRunner
<1>4. quota' \in Quota \cup {0} /\ consumed' \in Nat /\ irqOff' \in BOOLEAN
  <2>1. CASE \E q \in Quota : RunCycles(q)
    BY <2>1 DEF Inv, TypeOK, RunCycles, regs
  <2>2. CASE Return
    BY <2>2 DEF Inv, TypeOK, Return, regs
  <2>3. CASE FrameTraceEnd
    BY <2>3 DEF Inv, TypeOK, FrameTraceEnd, runner, regs
  <2>4. CASE DeliverIrq
    <3>1. irqOff' \in BOOLEAN
      BY <2>4 DEF DeliverIrq
    <3> QED BY <2>4, <3>1 DEF Inv, TypeOK, DeliverIrq, runner
  <2> QED BY <2>1, <2>2, <2>3, <2>4
<1>5. TypeOK'
  BY <1>1, <1>2, <1>4 DEF Inv, TypeOK, catchup, display
<1>6. ~Deliverable' \/ touched' \/ drift'
  <2>1. CASE DeliverIrq
    BY <2>1 DEF DeliverIrq, Deliverable
  <2>2. CASE ~DeliverIrq
    <3>1. at # "deliver" /\ at # "asleep" /\ irqOff' = irqOff
      BY <2>2 DEF RunCycles, FrameTraceEnd, Return, Quiet, regs
    <3> QED BY <1>1, <3>1 DEF Inv, Prompt, Deliverable
  <2> QED BY <2>1, <2>2
<1>7. Prompt'
  BY <1>1, <1>6 DEF Prompt
<1> QED BY <1>3, <1>5, <1>7 DEF Inv

\* The frame trace reads I/O between steps: what it catches up with was counted.
LEMMA FrameTraceInv ==
    ASSUME Inv, FrameTrace
    PROVE  Inv'
<1>1. at = "done" /\ calls = <<>> /\ inSync = FALSE /\ at' = "trace"
  BY NoCalls, AtRest DEF FrameTrace, Inv, TypeOK
<1>2. /\ UNCHANGED <<runner, budgetAtStep, left, display, regs, iff, dma, elapsed, touched>>
      /\ budgetAtStep \in Int /\ left \in Int /\ left <= budgetAtStep
      /\ Sync(<<>>, "trace")
  BY DEF FrameTrace, Inv, TypeOK
<1>3. CASE budgetAtStep <= left
  <2>1. calls' = calls /\ inSync' = inSync /\ drift' = drift
    BY <1>1, <1>2, <1>3 DEF Sync
  <2>2. Stack' /\ Drifts' /\ Beam' /\ Budget' /\ Clock'
    BY <1>1, <1>2, <2>1, QuietRunner DEF runner, catchup
  <2>3. TypeOK'
    BY <1>1, <1>2, <2>1 DEF Inv, TypeOK, runner, display, regs
  <2>4. Prompt'
    BY <1>1, <1>2, <2>1 DEF Inv, Prompt, Deliverable, regs
  <2> QED BY <2>2, <2>3, <2>4 DEF Inv
<1>4. CASE ~(budgetAtStep <= left)
  <2> DEFINE n == budgetAtStep - left
  <2>1. n \in Nat
    BY <1>2, <1>4
  <2>2. calls' = <<TickCall(n, TRUE)>> \o <<>> /\ inSync' = TRUE /\ drift' = TRUE
    BY <1>1, <1>2, <1>4 DEF Sync
  <2>3. calls' = <<TickCall(n, TRUE)>>
    BY <2>2
  <2> HIDE DEF n
  <2>4. Stack' /\ calls' \in Seq(Calls) /\ calls' # <<>>
    BY <1>1, <2>1, <2>2, <2>3, OneTick
  <2>5. jit
    BY <1>2, <1>4 DEF Inv, Drifts
  <2>6. Drifts'
    BY <1>2, <2>2, <2>5 DEF Drifts, runner
  <2>7. Beam'
    BY <1>1, <1>2, AtRest DEF Inv, Beam, display
  <2>8. Budget' /\ Clock' /\ Prompt'
    BY <1>1, <2>2 DEF Budget, InBlock, Clock, Prompt
  <2>9. TypeOK'
    BY <1>1, <1>2, <2>2, <2>4, ZenonT(60) DEF Inv, TypeOK, runner, display, regs
  <2> QED BY <2>4, <2>6, <2>7, <2>8, <2>9 DEF Inv
<1> QED BY <1>2, <1>3, <1>4

\* The Tick of a sleeping CPU comes before its time is counted,
LEMMA SleepTickInv ==
    ASSUME Inv, SleepTick
    PROVE  Inv'
<1>1. /\ at = "loop" /\ calls = <<>> /\ inSync = FALSE /\ at' = "asleep" /\ TickRem = 0 /\ cyc < Line
      /\ calls' = <<TickCall(1, FALSE)>>
      /\ UNCHANGED <<runner, catchup, display, regs, iff, dma, history>>
  BY NoCalls, AtRest DEF SleepTick, Inv, TypeOK
<1>2. Stack' /\ TickRem' = 1 /\ calls' \in Seq(Calls) /\ calls' # <<>>
  BY <1>1, OneTick DEF catchup
<1>3. TypeOK'
  BY <1>1, <1>2, ZenonT(60) DEF Inv, TypeOK, runner, catchup, display, regs, history
<1>4. Drifts' /\ Beam' /\ Budget' /\ Prompt'
  BY <1>1 DEF Inv, Drifts, Beam, Budget, InBlock, Prompt, runner, catchup, display, history
<1>5. Clock'
  <2>1. Behind = 0 /\ Behind' = 0
    BY <1>1, <1>2 DEF Behind, InBlock
  <2>2. Position' = Position
    BY <1>1 DEF Position, display
  <2> QED BY <1>1, <2>1, <2>2, SameClock DEF Inv, history
<1> QED BY <1>2, <1>3, <1>4, <1>5 DEF Inv

\* which Wake does.
LEMMA WakeInv ==
    ASSUME Inv, Wake
    PROVE  Inv'
<1>1. /\ at = "asleep" /\ calls = <<>> /\ inSync = FALSE /\ at' = "deliver" /\ TickRem = 0 /\ cyc < Line
      /\ consumed' = consumed + 1 /\ Elapse(1) /\ halted' = (ie \cap iff = {})
      /\ UNCHANGED <<jit, quota, budget, stepCycles, catchup, calls, display, enabled, target,
                     ime, ie, irqOff, iff, dma, drift, touched>>
  BY AtRest DEF Wake, Quiet, Inv, TypeOK
<1>2. Stack' /\ TickRem' = 0
  BY <1>1, EmptyStack DEF catchup
<1>3. Behind = -1 /\ Behind' = 0
  BY <1>1, <1>2 DEF Behind, InBlock
<1>4. Clock' /\ elapsed' \in 0 .. Frame - 1
  <2>1. Position' = Position
    BY <1>1 DEF Position, display
  <2> QED BY <1>1, <1>3, <2>1, Elapsing
<1>5. consumed' \in Nat /\ halted' \in BOOLEAN
  <2>1. consumed' \in Nat
    BY <1>1 DEF Inv, TypeOK
  <2>2. halted' \in BOOLEAN
    BY <1>1
  <2> QED BY <2>1, <2>2
<1>6. TypeOK'
  BY <1>1, <1>4, <1>5 DEF Inv, TypeOK, catchup, display
<1>7. Drifts' /\ Beam' /\ Budget' /\ Prompt'
  BY <1>1 DEF Inv, Drifts, Beam, Budget, InBlock, Prompt, catchup, display
<1> QED BY <1>2, <1>4, <1>6, <1>7 DEF Inv

\* The budget reaches no further than the next event, and at least one unit.
LEMMA StartStepInv ==
    ASSUME Inv, StartStep
    PROVE  Inv'
<1>1. /\ at = "loop" /\ calls = <<>> /\ inSync = FALSE /\ at' = "cpu" /\ TickRem = 0 /\ cyc < Line
      /\ consumed < quota /\ budget' = Least(quota - consumed, CyclesUntilNextEvent)
      /\ left' = budget' /\ budgetAtStep' = budget'
      /\ UNCHANGED <<jit, quota, consumed, stepCycles, inSync, calls, display, regs, iff, dma,
                     history>>
  BY NoCalls, AtRest DEF StartStep, Inv, TypeOK
<1>2. /\ budget' \in Nat /\ budget' >= 1 /\ cyc + budget' <= Line
      /\ ~hbl /\ line < Visible => cyc + budget' <= HDraw
  <2>1. quota - consumed \in Nat /\ quota - consumed >= 1
    BY <1>1, ConstantFacts DEF Inv, TypeOK
  <2>2. /\ CyclesUntilNextEvent \in Nat /\ CyclesUntilNextEvent >= 1
        /\ cyc + CyclesUntilNextEvent <= Line
        /\ ~hbl /\ line < Visible => cyc + CyclesUntilNextEvent <= HDraw
    <3>1. ~hbl /\ line < Visible => cyc < HDraw
      BY DEF Inv, Beam
    <3> QED BY <1>1, <3>1, DisplayFacts DEF Inv, CyclesUntilNextEvent
  <2> DEFINE a == quota - consumed
             b == CyclesUntilNextEvent
  <2>3. /\ a \in Nat /\ a >= 1 /\ b \in Nat /\ b >= 1 /\ cyc + b <= Line
        /\ ~hbl /\ line < Visible => cyc + b <= HDraw
        /\ budget' = IF a < b THEN a ELSE b
    BY <1>1, <2>1, <2>2 DEF Least
  <2> HIDE DEF a, b
  <2> QED BY <2>3, DisplayFacts DEF Inv
<1>3. Stack'
  BY <1>1, EmptyStack
<1>4. Behind = 0 /\ Behind' = 0
  BY <1>1, <1>2 DEF Behind, InBlock
<1>5. TypeOK'
  <2>1. budget' \in 0 .. Line /\ budgetAtStep' \in Int /\ left' \in Int /\ left' <= budgetAtStep'
    BY <1>1, <1>2, DisplayFacts DEF Inv
  <2> QED BY <1>1, <2>1 DEF Inv, TypeOK, display, regs, history
<1>6. Drifts' /\ Beam'
  BY <1>1 DEF Inv, Drifts, Beam, display, history
<1>7. Budget'
  BY <1>1, <1>2, <1>4, DisplayFacts DEF Inv, Budget, InBlock, display
<1>8. Clock'
  <2>1. Position' = Position
    BY <1>1 DEF Position, display
  <2> QED BY <1>1, <1>4, <2>1, SameClock DEF Inv, history
<1>9. Prompt'
  BY <1>1 DEF Inv, Prompt, Deliverable, regs, history
<1> QED BY <1>3, <1>5, <1>6, <1>7, <1>8, <1>9 DEF Inv

\* The runner ticks exactly what no catch-up has ticked.
LEMMA EndStepInv ==
    ASSUME Inv, EndStep
    PROVE  Inv'
<1> DEFINE n == stepCycles - (budget - budgetAtStep)
<1>1. /\ at = "stepped" /\ calls = <<>> /\ inSync = FALSE /\ at' = "deliver" /\ cyc < Line
      /\ calls' = (IF n > 0 THEN <<TickCall(n, FALSE)>> ELSE <<>>)
      /\ consumed' = consumed + stepCycles
      /\ budget' = 0 /\ stepCycles' = 0 /\ touched' = FALSE
      /\ UNCHANGED <<jit, quota, catchup, display, regs, iff, dma, elapsed, drift>>
  BY NoCalls, AtRest DEF EndStep, Inv, TypeOK
<1>2. n \in Nat /\ n >= 1 /\ Behind = n
  <2>1. Behind = n
    BY <1>1 DEF Behind, InBlock
  <2>2. n \in Int
    BY DEF Inv, TypeOK
  <2>3. Behind >= 1
    BY <1>1 DEF Inv, Budget
  <2> QED BY <2>1, <2>2, <2>3
<1>3. calls' = <<TickCall(n, FALSE)>>
  <2> HIDE DEF n
  <2>1. n > 0
    BY <1>2
  <2> QED BY <1>1, <2>1
<1> HIDE DEF n
<1>4. Stack' /\ TickRem' = n /\ calls' \in Seq(Calls) /\ calls' # <<>>
  BY <1>1, <1>2, <1>3, OneTick DEF catchup
<1>5. TypeOK'
  <2>1. consumed' \in Nat /\ budget' \in 0 .. Line /\ stepCycles' \in Nat
    BY <1>1, ConstantFacts DEF Inv, TypeOK
  <2> QED BY <1>1, <1>4, <2>1, ZenonT(60) DEF Inv, TypeOK, catchup, display, regs
<1>6. Drifts' /\ Beam' /\ Budget' /\ Prompt'
  BY <1>1 DEF Inv, Drifts, Beam, Budget, InBlock, Prompt, catchup, display
<1>7. Clock'
  <2>1. Behind' = n
    BY <1>1, <1>4 DEF Behind, InBlock
  <2>2. Position' = Position
    BY <1>1 DEF Position, display
  <2> QED BY <1>1, <1>2, <2>1, <2>2, SameClock DEF Inv
<1> QED BY <1>4, <1>5, <1>6, <1>7 DEF Inv

-----------------------------------------------------------------------------
(* The theorems. *)

\* The invariant holds at boot,
LEMMA Start ==
    ASSUME Init
    PROVE  Inv
<1>1. /\ calls = <<>> /\ calls \in Seq(Calls) /\ Len(calls) = 0 /\ inSync = FALSE /\ drift = FALSE
      /\ at = "idle" /\ budgetAtStep = 0 /\ left = 0 /\ cyc = 0 /\ line = 0
      /\ hbl = FALSE /\ elapsed = 0
  BY DEF Init
<1>2. TypeOK
  <2>1. 0 \in 0 .. Line /\ 0 < Line /\ 0 \in 0 .. Lines - 1 /\ 0 \in 0 .. Frame - 1
    BY ConstantFacts, FrameFacts
  <2>2. /\ jit \in BOOLEAN /\ irqOff \in BOOLEAN /\ halted \in BOOLEAN /\ ime \in BOOLEAN
        /\ touched \in BOOLEAN /\ quota = 0 /\ consumed = 0 /\ budget = 0 /\ stepCycles = 0
        /\ enabled = {} /\ target = 0 /\ ie = {} /\ iff = {}
    BY DEF Init
  <2>3. dma \in [Channel -> Transfers \cup {Off}]
    BY DEF Init
  <2>4. /\ quota \in Quota \cup {0} /\ consumed \in Nat /\ stepCycles \in Nat /\ budget \in 0 .. Line
        /\ budgetAtStep \in Int /\ left \in Int /\ left <= budgetAtStep
    BY <1>1, <2>1, <2>2
  <2>5. /\ cyc \in 0 .. Line /\ line \in 0 .. Lines - 1 /\ cyc < Line
        /\ elapsed \in 0 .. Frame - 1 /\ hbl \in BOOLEAN /\ inSync \in BOOLEAN /\ drift \in BOOLEAN
    BY <1>1, <2>1
  <2>6. /\ enabled \in Enables \cup {{}} /\ target \in Targets \cup {0}
        /\ ie \in IeWords \cup {{}} /\ iff \subseteq Source
    BY <2>2
  <2> QED BY <1>1, <2>2, <2>3, <2>4, <2>5, <2>6 DEF TypeOK
<1>3. Stack
  BY <1>1 DEF Stack
<1>4. Drifts /\ Budget /\ Prompt
  BY <1>1 DEF Init, Drifts, Budget, InBlock, Prompt, Deliverable
<1>5. Beam
  BY <1>1, ConstantFacts DEF Beam
<1>6. Clock
  <2>1. Behind = 0
    BY <1>1 DEF Behind, InBlock, TickRem
  <2>2. Position = 0
    BY <1>1, ConstantFacts DEF Position
  <2>3. 0 % Frame = 0
    BY FrameFacts
  <2> QED BY <1>1, <2>1, <2>2, <2>3 DEF Clock, SameTime
<1> QED BY <1>2, <1>3, <1>4, <1>5, <1>6 DEF Inv

\* and is not disturbed by a step that changes nothing,
LEMMA Stuttering ==
    ASSUME Inv, UNCHANGED vars
    PROVE  Inv'
<1>1. TypeOK'
  BY DEF Inv, TypeOK, vars
<1>2. Stack'
  BY DEF Inv, Stack, Bottom, vars
<1>3. Drifts' /\ Beam' /\ Prompt'
  BY DEF Inv, Drifts, Beam, Prompt, Deliverable, vars
<1>4. Behind' = Behind /\ Position' = Position
  BY DEF Behind, InBlock, TickRem, Position, vars
<1>5. Budget'
  BY <1>4 DEF Inv, Budget, InBlock, vars
<1>6. Clock'
  BY <1>4, SameClock DEF Inv, vars
<1> QED BY <1>1, <1>2, <1>3, <1>5, <1>6 DEF Inv

\* nor by any step of the devices, the guest or the runner.
LEMMA Step ==
    ASSUME Inv, [Next]_vars
    PROVE  Inv'
<1>1. CASE Devices
  BY <1>1, TickStepInv, TickRollInv, TickNextInv, TickReturnInv, DmaStartInv, DmaSkipInv,
     DmaReadInv, DmaWritesInv, DmaEndInv DEF Devices
<1>2. CASE Guest
  BY <1>2, QuietInv, ReadIoInv, WriteCntHInv, RetireInv, UndecodableInv DEF Guest
<1>3. CASE Runner
  BY <1>3, QuietRunnerInv, FrameTraceInv, SleepTickInv, WakeInv, StartStepInv, EndStepInv DEF Runner
<1>4. CASE UNCHANGED vars
  BY <1>4, Stuttering
<1> QED BY <1>1, <1>2, <1>3, <1>4 DEF Next

\* The parts of Inv hold in every reachable state.
THEOREM Invariance == Spec => []Inv
BY Start, Step, PTL DEF Spec

\* RunCycles, Tick and the transfers keep every counter in its range: a budget
\* within a line, the beam within the frame, whatever transfers write.
THEOREM TypeCorrect == Spec => []TypeOK
<1>1. Inv => TypeOK
  BY DEF Inv
<1> QED BY <1>1, Invariance, PTL

\* SyncSchedulerForMmio brings the display exactly to the time executed, and
\* reaches no HBlank or line end on the way, whatever the block did before; only
\* a catch-up outside a step (drift) counts time twice.
THEOREM CatchUpsExact == Spec => []CatchUpExact
<1>1. ASSUME Inv PROVE TimeKept
  <2> SUFFICES ASSUME calls = <<>>, at \in {"idle", "done", "loop", "read"}, ~(drift /\ jit)
               PROVE  Position = elapsed
    BY DEF TimeKept
  <2>1. ~drift /\ SameTime(Position + Behind, elapsed)
    BY <1>1 DEF Inv, Drifts, Clock
  <2>2. ~inSync /\ TickRem = 0 /\ cyc < Line
    BY <1>1, AtRest
  <2>3. Behind = 0
    BY <1>1, <2>2 DEF Behind, InBlock, Inv, Budget, TypeOK
  <2>4. Position \in 0 .. Frame - 1 /\ elapsed \in 0 .. Frame - 1
    BY <1>1, <2>2, PositionFacts DEF Inv, TypeOK
  <2> DEFINE p == Position
  <2>5. p \in 0 .. Frame - 1 /\ SameTime(p, elapsed)
    <3>1. p + Behind = p
      BY <2>3, <2>4, FrameFacts
    <3> QED BY <2>1, <2>4, <3>1
  <2> HIDE DEF p
  <2>6. p = elapsed
    BY <2>4, <2>5, SameTimeEqual
  <2> QED BY <2>6 DEF p
<1>2. ASSUME Inv PROVE CatchUpCrossesNothing
  <2> SUFFICES ASSUME at \in {"read", "busy"}, NEW i \in DOMAIN calls, calls[i].fn = "Tick"
               PROVE  /\ cyc + calls[i].rem < Line
                      /\ ~hbl /\ line < Visible => cyc + calls[i].rem < HDraw
    BY DEF CatchUpCrossesNothing
  <2>1. calls \in Seq(Calls) /\ i \in 1 .. Len(calls) /\ calls # <<>> /\ Len(calls) \in Nat
    BY <1>2 DEF Inv, TypeOK
  <2>2. i = 1
    <3>1. CASE at = "read"
      BY <1>2, <2>1, <3>1 DEF Inv, Stack
    <3>2. CASE at = "busy"
      BY <1>2, <2>1, <3>2 DEF Inv, Stack
    <3> QED BY <3>1, <3>2
  <2> QED BY <1>2, <2>1, <2>2, ShortTick
<1>4. ASSUME Inv PROVE CatchUpsDoNotNest
  <2>1. calls \in Seq(Calls) /\ DOMAIN calls = 1 .. Len(calls)
    BY <1>4 DEF Inv, TypeOK
  <2> QED BY <1>4, <2>1 DEF Inv, Stack, CatchUpsDoNotNest
<1>3. Inv => CatchUpExact
  BY <1>1, <1>2, <1>4 DEF CatchUpExact
<1> QED BY <1>3, Invariance, PTL

\* DeliverIrqIfPending after every step is prompt enough: an instruction with a
\* deliverable interrupt waiting is in a block that touched the registers itself.
THEOREM PromptInterrupts == Spec => []PromptInterrupt
<1>1. Inv => PromptInterrupt
  BY DEF Inv, Prompt, PromptInterrupt, Quiet
<1> QED BY <1>1, Invariance, PTL

-----------------------------------------------------------------------------
(* The CPU's register banks: ArmBanks implements ArmRegisterFiles, for every
   set of modes, registers and values. *)
-----------------------------------------------------------------------------
(* What a swap yields, register by register. *)

IsFiles(s) ==
    /\ s.gpr \in [Reg -> Value]
    /\ s.bank \in [Banked -> [Reg -> Value]]
    /\ s.nonFiq \in [Reg -> Value]
    /\ s.userSystem \in [Reg -> Value]

\* SwapBank writes only values it has read from the banks it starts with.
LEMMA SwappedType ==
    ASSUME BanksTypeOK, NEW b \in [Banked -> [Reg -> Value]], NEW new \in Mode
    PROVE  IsFiles(Swapped(b, cpsr, new))
<1>1. Saved(b, cpsr) \in [Banked -> [Reg -> Value]]
  BY DEF Saved, BanksTypeOK
<1>2. SavedUser(cpsr) \in [Reg -> Value]
  BY DEF SavedUser, BanksTypeOK
<1>3. Loaded(Saved(b, cpsr), SavedUser(cpsr), cpsr, new) \in [Reg -> Value]
  BY <1>1, <1>2, ModeAssumption DEF Loaded, BanksTypeOK, Banked
<1> QED BY <1>1, <1>2, <1>3 DEF Swapped, IsFiles, BanksTypeOK

\* The initial state is typed.
LEMMA BanksInitType == BanksInit => BanksTypeOK
  BY DEF BanksInit, BanksTypeOK

\* Every action keeps the types.
LEMMA BanksStepType == BanksTypeOK /\ [BanksNext]_bankVars => BanksTypeOK'
<1> SUFFICES ASSUME BanksTypeOK, [BanksNext]_bankVars PROVE BanksTypeOK'
  OBVIOUS
<1>1. ASSUME NEW r \in Reg, ReadReg(r) PROVE BanksTypeOK'
  BY <1>1 DEF ReadReg, registers, BanksTypeOK
<1>2. ASSUME NEW r \in Reg, ReadUserModeReg(r) PROVE BanksTypeOK'
  BY <1>2 DEF ReadUserModeReg, registers, BanksTypeOK
<1>3. ASSUME NEW r \in Reg, NEW v \in Value, WriteReg(r, v) PROVE BanksTypeOK'
  BY <1>3 DEF WriteReg, BanksTypeOK
<1>4. ASSUME NEW r \in Reg, NEW v \in Value, WriteUserModeReg(r, v) PROVE BanksTypeOK'
  BY <1>4 DEF WriteUserModeReg, BanksTypeOK
<1>5. ASSUME NEW m \in Mode, WritePsr(m) PROVE BanksTypeOK'
  <2>1. IsFiles(Swapped(bank, cpsr, m))
    BY SwappedType DEF BanksTypeOK
  <2> QED BY <1>5, <2>1 DEF WritePsr, SwapBank, IsFiles, BanksTypeOK
<1>6. CASE RestoreCpsrFromSpsr
  <2>1. cpsr' \in Mode
    BY <1>6 DEF RestoreCpsrFromSpsr, BanksTypeOK
  <2>2. IsFiles(Swapped(bank, cpsr, cpsr'))
    BY <2>1, SwappedType DEF BanksTypeOK
  <2> QED BY <1>6, <2>1, <2>2 DEF RestoreCpsrFromSpsr, SwapBank, IsFiles, BanksTypeOK
<1>7. ASSUME NEW m \in Thrower, NEW v \in Value, RaiseException(m, v) PROVE BanksTypeOK'
  <2>1. m \in Banked /\ m \in Mode
    BY ThrowerAssumption DEF Banked
  <2>2. [bank EXCEPT ![m][14] = v] \in [Banked -> [Reg -> Value]]
    BY <2>1, RegAssumption DEF BanksTypeOK
  <2>3. IsFiles(Swapped([bank EXCEPT ![m][14] = v], cpsr, m))
    BY <2>1, <2>2, SwappedType
  <2> QED BY <1>7, <2>1, <2>3 DEF RaiseException, SwapBank, IsFiles, BanksTypeOK
<1>8. ASSUME NEW v \in Value, DeliverIrqIfPending(v) PROVE BanksTypeOK'
  <2>1. "IRQ" \in Mode /\ "IRQ" \in Banked
    BY ModeAssumption DEF Banked
  <2>2. IsFiles(Swapped(bank, cpsr, "IRQ"))
    BY <2>1, SwappedType DEF BanksTypeOK
  <2> QED BY <1>8, <2>1, <2>2, RegAssumption
          DEF DeliverIrqIfPending, SwapBank, Swapped, IsFiles, BanksTypeOK
<1>9. CASE UNCHANGED bankVars
  BY <1>9 DEF bankVars, BanksTypeOK
<1> QED BY <1>1, <1>2, <1>3, <1>4, <1>5, <1>6, <1>7, <1>8, <1>9 DEF BanksNext

\* The visible registers, the banks and the sidecars keep their types, and CPSR
\* never holds a mode the specification does not list.
THEOREM BanksTypeCorrect == BanksSpec => []BanksTypeOK
  BY BanksInitType, BanksStepType, PTL DEF BanksSpec

-----------------------------------------------------------------------------
(* Views: what each mode will see. *)

\* What SwapBank leaves behind, up to the visible R14 of a privileged mode.
SwappedAs(b, new) ==
    /\ \A q \in Reg : q # 14 \/ new \notin Banked =>
         gpr'[q] = Loaded(Saved(b, cpsr), SavedUser(cpsr), cpsr, new)[q]
    /\ bank' = Saved(b, cpsr)
    /\ nonFiq' = IF new = "FIQ"
                 THEN [q \in Reg |-> IF q \in 8 .. 12 THEN gpr[q] ELSE nonFiq[q]]
                 ELSE nonFiq
    /\ userSystem' = SavedUser(cpsr)

\* A swap moves no register of any mode; the entered mode's R14 alone may have
\* been set on the way, in its bank before the swap or visibly after it.
LEMMA SwapKeepsViews ==
    ASSUME BanksTypeOK, NEW b \in [Banked -> [Reg -> Value]], NEW new \in Mode,
           new # cpsr, cpsr' = new, SwappedAs(b, new),
           \A m \in Banked, q \in Reg : m # new \/ q # 14 => b[m][q] = bank[m][q],
           NEW n \in Mode, NEW r \in Reg
    PROVE  ViewOf(n, r)' = IF r = 14 /\ n = new /\ new \in Banked
                           THEN gpr'[14] ELSE ViewOf(n, r)
<1>1. /\ \A q \in Reg : q # 14 \/ new \notin Banked =>
           gpr'[q] = Loaded(Saved(b, cpsr), SavedUser(cpsr), cpsr, new)[q]
      /\ bank' = Saved(b, cpsr)
      /\ nonFiq' = IF new = "FIQ"
                   THEN [q \in Reg |-> IF q \in 8 .. 12 THEN gpr[q] ELSE nonFiq[q]]
                   ELSE nonFiq
      /\ userSystem' = SavedUser(cpsr)
  BY DEF SwappedAs
<1>2. "FIQ" \in Banked
  BY ModeAssumption DEF Banked
<1>3. CASE r \in 8 .. 12
  <2>1. r \notin {13, 14} /\ r # 14
    BY <1>3
  <2>2. gpr'[r] = IF FiqBoundary(cpsr, new)
                  THEN IF new = "FIQ" THEN b["FIQ"][r] ELSE nonFiq[r] ELSE gpr[r]
    BY <1>1, <1>2, <1>3, <2>1 DEF Loaded, Saved, FiqBoundary, BanksTypeOK
  <2>3. bank'["FIQ"][r] = IF cpsr = "FIQ" THEN gpr[r] ELSE b["FIQ"][r]
    BY <1>1, <1>2, <1>3, <2>1 DEF Saved, BanksTypeOK
  <2>4. nonFiq'[r] = IF new = "FIQ" THEN gpr[r] ELSE nonFiq[r]
    BY <1>1, <1>3
  <2> QED BY <1>2, <1>3, <2>1, <2>2, <2>3, <2>4 DEF ViewOf, FiqBoundary
<1>4. CASE r \in {13, 14}
  <2>1. r \notin 8 .. 12
    BY <1>4
  <2>2. r # 14 \/ new \notin Banked =>
          gpr'[r] = IF new \in Banked THEN b[new][r] ELSE SavedUser(cpsr)[r]
    BY <1>1, <1>4 DEF Loaded, Saved, BanksTypeOK
  <2>3. ASSUME n \in Banked
        PROVE  bank'[n][r] = IF n = cpsr THEN gpr[r] ELSE b[n][r]
    BY <1>1, <1>4, <2>3 DEF Saved, BanksTypeOK
  <2>4. userSystem'[r] = IF cpsr \in Banked THEN userSystem[r] ELSE gpr[r]
    BY <1>1, <1>4 DEF SavedUser, BanksTypeOK
  <2>5. n \in Banked \/ n \in {"User", "System"}
    BY DEF Banked
  <2> QED BY <1>1, <1>4, <2>1, <2>2, <2>3, <2>4, <2>5 DEF ViewOf, Banked, BanksTypeOK
<1>5. CASE r \notin 8 .. 12 /\ r \notin {13, 14}
  <2>1. gpr'[r] = gpr[r] /\ r # 14
    BY <1>1, <1>5 DEF Loaded
  <2> QED BY <1>5, <2>1 DEF ViewOf
<1> QED BY <1>3, <1>4, <1>5

\* A write of the visible register is a write of the current mode's view.
LEMMA WriteIsWrite ==
    ASSUME BanksTypeOK, NEW r \in Reg, NEW v \in Value, WriteReg(r, v)
    PROVE  Files!Write(cpsr, r, v)
<1>1. ASSUME NEW n \in Mode, NEW q \in Reg
      PROVE  ViewOf(n, q)' = IF q = r /\ Files!Shared(cpsr, n, r)
                             THEN v ELSE ViewOf(n, q)
  BY RegAssumption, ModeAssumption
     DEF WriteReg, BanksTypeOK, ViewOf, Files!Shared, FiqBoundary, Banked
<1> QED BY <1>1 DEF Files!Write, Files!Assigned, WriteReg

\* A transfer with the S bit writes User's view from any mode.
LEMMA UserWriteIsWrite ==
    ASSUME BanksTypeOK, NEW r \in Reg, NEW v \in Value, WriteUserModeReg(r, v)
    PROVE  Files!Write("User", r, v)
<1>1. ASSUME NEW n \in Mode, NEW q \in Reg
      PROVE  ViewOf(n, q)' = IF q = r /\ Files!Shared("User", n, r)
                             THEN v ELSE ViewOf(n, q)
  <2>1. r \in 0 .. 14 /\ q \in 0 .. 14
    BY RegAssumption
  <2>2. CASE r < 8
    BY <2>1, <2>2 DEF WriteUserModeReg, BanksTypeOK, ViewOf, Files!Shared
  <2>3. CASE r \in 8 .. 12
    BY <2>1, <2>3, ModeAssumption
       DEF WriteUserModeReg, BanksTypeOK, ViewOf, Files!Shared, FiqBoundary, Banked
  <2>4. CASE r \in {13, 14}
    BY <2>1, <2>4, ModeAssumption
       DEF WriteUserModeReg, BanksTypeOK, ViewOf, Files!Shared, FiqBoundary, Banked
  <2> QED BY <2>1, <2>2, <2>3, <2>4
<1> QED BY <1>1 DEF Files!Write, Files!Assigned, WriteUserModeReg

\* Reads return what the current mode, or User, sees.
LEMMA ReadIsRead ==
    ASSUME BanksTypeOK, NEW r \in Reg
    PROVE  /\ ReadReg(r) => Files!Read(cpsr, r)
           /\ ReadUserModeReg(r) => Files!Read("User", r)
<1>1. r \in 0 .. 14 /\ "User" \in Mode /\ "User" # "FIQ"
  BY RegAssumption, ModeAssumption
<1>2. ViewOf(cpsr, r) = gpr[r]
  BY DEF ViewOf, FiqBoundary
<1>3. ViewOf("User", r) = IF \/ r < 8
                             \/ r \in 8 .. 12 /\ cpsr # "FIQ"
                             \/ r \in {13, 14} /\ cpsr \notin Banked
                          THEN gpr[r]
                          ELSE IF r \in 8 .. 12 THEN nonFiq[r] ELSE userSystem[r]
  BY <1>1 DEF ViewOf, FiqBoundary, Banked, BanksTypeOK
<1>4. ASSUME UNCHANGED <<cpsr, registers, spsr>>
      PROVE  \A n \in Mode, q \in Reg : ViewOf(n, q)' = ViewOf(n, q)
  BY <1>4 DEF ViewOf, registers, FiqBoundary
<1>5. ReadReg(r) => Files!Read(cpsr, r)
  BY <1>2, <1>4 DEF ReadReg, Files!Read, BanksTypeOK
<1>6. ReadUserModeReg(r) => Files!Read("User", r)
  BY <1>1, <1>3, <1>4 DEF ReadUserModeReg, Files!Read
<1> QED BY <1>5, <1>6

\* A change of mode is a Switch: it moves no register of any mode.
LEMMA SwapIsSwitch ==
    ASSUME BanksTypeOK, NEW m \in Mode, cpsr' = m, SwapBank(Swapped(bank, cpsr, m)),
           UNCHANGED <<spsr, out>>
    PROVE  Files!Switch(m)
<1>1. ASSUME NEW n \in Mode, NEW r \in Reg
      PROVE  ViewOf(n, r)' = ViewOf(n, r)
  <2>1. CASE m = cpsr
    BY <2>1 DEF SwapBank, Swapped, ViewOf, FiqBoundary
  <2>2. CASE m # cpsr
    <3>1. bank \in [Banked -> [Reg -> Value]]
      BY DEF BanksTypeOK
    <3>2. SwappedAs(bank, m)
      BY <2>2 DEF SwapBank, Swapped, SwappedAs
    <3>3. ViewOf(n, r)' = IF r = 14 /\ n = m /\ m \in Banked
                          THEN gpr'[14] ELSE ViewOf(n, r)
      BY <2>2, <3>1, <3>2, SwapKeepsViews
    <3>4. ASSUME m \in Banked, n = m, r = 14
          PROVE  ViewOf(n, r) = bank[m][14] /\ gpr'[14] = bank[m][14]
      BY <2>2, <3>4 DEF ViewOf, Banked, SwapBank, Swapped, Loaded, Saved, BanksTypeOK
    <3> QED BY <3>3, <3>4
  <2> QED BY <2>1, <2>2
<1> QED BY <1>1 DEF Files!Switch

\* An instruction's exception into another mode is an Enter.
LEMMA RaiseIsEnter ==
    ASSUME BanksTypeOK, NEW m \in Thrower, NEW v \in Value, RaiseException(m, v), m # cpsr
    PROVE  Files!Enter(m, v)
<1> DEFINE b == [bank EXCEPT ![m][14] = v]
<1>1. m \in Banked /\ m \in Mode /\ 14 \in Reg
  BY ThrowerAssumption, RegAssumption DEF Banked
<1>2. /\ b \in [Banked -> [Reg -> Value]] /\ b[m][14] = v
      /\ \A n \in Banked, r \in Reg : n # m \/ r # 14 => b[n][r] = bank[n][r]
  BY <1>1 DEF BanksTypeOK
<1>3. cpsr' = m /\ SwapBank(Swapped(b, cpsr, m))
  BY DEF RaiseException
<1> HIDE DEF b
<1>4. SwappedAs(b, m) /\ gpr'[14] = v
  BY <1>1, <1>2, <1>3 DEF SwapBank, Swapped, SwappedAs, Loaded, Saved
<1>5. ASSUME NEW n \in Mode, NEW r \in Reg
      PROVE  ViewOf(n, r)' = IF r = 14 /\ Files!Shared(m, n, 14) THEN v ELSE ViewOf(n, r)
  <2>1. ViewOf(n, r)' = IF r = 14 /\ n = m /\ m \in Banked THEN gpr'[14] ELSE ViewOf(n, r)
    BY <1>1, <1>2, <1>3, <1>4, SwapKeepsViews
  <2>2. Files!Shared(m, n, 14) <=> m = n
    BY <1>1 DEF Files!Shared, Banked
  <2> QED BY <1>1, <1>4, <2>1, <2>2
<1> QED BY <1>5 DEF Files!Enter, Files!Assigned, RaiseException

\* The IRQ entry is an Enter from every mode, IRQ itself included.
LEMMA IrqIsEnter ==
    ASSUME BanksTypeOK, NEW v \in Value, DeliverIrqIfPending(v)
    PROVE  Files!Enter("IRQ", v)
<1>1. "IRQ" \in Banked /\ "IRQ" \in Mode /\ 14 \in Reg
  BY ModeAssumption, RegAssumption DEF Banked
<1>2. ASSUME NEW n \in Mode, NEW r \in Reg
      PROVE  ViewOf(n, r)' = IF r = 14 /\ Files!Shared("IRQ", n, 14) THEN v ELSE ViewOf(n, r)
  <2>1. Files!Shared("IRQ", n, 14) <=> n = "IRQ"
    BY DEF Files!Shared
  <2>2. CASE cpsr = "IRQ"
    BY <1>1, <2>1, <2>2
       DEF DeliverIrqIfPending, SwapBank, Swapped, ViewOf, FiqBoundary, BanksTypeOK
  <2>3. CASE cpsr # "IRQ"
    <3>1. bank \in [Banked -> [Reg -> Value]]
      BY DEF BanksTypeOK
    <3>2. SwappedAs(bank, "IRQ") /\ gpr'[14] = v /\ cpsr' = "IRQ"
      BY <1>1, <2>3 DEF DeliverIrqIfPending, SwapBank, Swapped, SwappedAs, Loaded
    <3>3. ViewOf(n, r)' = IF r = 14 /\ n = "IRQ" /\ "IRQ" \in Banked
                          THEN gpr'[14] ELSE ViewOf(n, r)
      BY <1>1, <2>3, <3>1, <3>2, SwapKeepsViews
    <3> QED BY <1>1, <2>1, <3>2, <3>3
  <2> QED BY <2>2, <2>3
<1> QED BY <1>2 DEF Files!Enter, Files!Assigned, DeliverIrqIfPending

-----------------------------------------------------------------------------
\* Every step of ArmBanks is a step of ArmRegisterFiles, an exception raised
\* into the current mode or a stutter.
LEMMA StepImplements ==
    BanksTypeOK /\ [BanksNext]_bankVars => [RaisedInPlace \/ Files!Next]_bankVars
<1> SUFFICES ASSUME BanksTypeOK, BanksNext PROVE RaisedInPlace \/ Files!Next
  OBVIOUS
<1>0. "User" \in Mode /\ "IRQ" \in Files!Privileged /\ Thrower \subseteq Files!Privileged
  BY ModeAssumption, ThrowerAssumption DEF Files!Privileged
<1>1. ASSUME NEW r \in Reg, ReadReg(r) \/ ReadUserModeReg(r) PROVE Files!Next
  BY <1>1, ReadIsRead DEF Files!Next
<1>2. ASSUME NEW r \in Reg, NEW v \in Value, WriteReg(r, v) \/ WriteUserModeReg(r, v)
      PROVE  Files!Next
  BY <1>2, WriteIsWrite, UserWriteIsWrite DEF Files!Next
<1>3. ASSUME NEW m \in Mode, WritePsr(m) PROVE Files!Next
  BY <1>3, SwapIsSwitch DEF WritePsr, Files!Next
<1>4. CASE RestoreCpsrFromSpsr
  <2>1. cpsr' \in Mode
    BY <1>4 DEF RestoreCpsrFromSpsr, BanksTypeOK
  <2>2. Files!Switch(cpsr')
    BY <1>4, <2>1, SwapIsSwitch DEF RestoreCpsrFromSpsr
  <2> QED BY <2>1, <2>2 DEF Files!Next
<1>5. ASSUME NEW m \in Thrower, NEW v \in Value, RaiseException(m, v)
      PROVE  RaisedInPlace \/ Files!Next
  <2>1. CASE m = cpsr
    BY <1>5, <2>1 DEF RaisedInPlace
  <2>2. CASE m # cpsr
    BY <1>0, <1>5, <2>2, RaiseIsEnter DEF Files!Next
  <2> QED BY <2>1, <2>2
<1>6. ASSUME NEW v \in Value, DeliverIrqIfPending(v) PROVE Files!Next
  BY <1>0, <1>6, IrqIsEnter DEF Files!Next
<1> QED BY <1>1, <1>2, <1>3, <1>4, <1>5, <1>6 DEF BanksNext

\* Whatever the modes, registers and values: the shuffled registers implement
\* one register file per mode.
THEOREM BanksImplementFiles == BanksSpec => ImplementsRegisterFiles
<1>1. BanksTypeOK /\ [BanksNext]_bankVars => [RaisedInPlace \/ Files!Next]_bankVars
  BY StepImplements
<1> QED BY <1>1, BanksTypeCorrect, PTL DEF BanksSpec, ImplementsRegisterFiles
=============================================================================
