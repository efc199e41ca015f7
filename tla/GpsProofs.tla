------------------------------ MODULE GpsProofs ------------------------------
(***************************************************************************)
(* Proofs about the GPS source, for a stream of any length, a buffer of    *)
(* any size and any sentences.                                             *)
(***************************************************************************)
EXTENDS Gps, SequenceTheorems, TLAPS

(* What can become of a sentence.                                          *)
LEMMA VerdictType ==
  \A m, digits : Verdict(m, digits) \in {"point", "none", "error", "panic"}
<1> SUFFICES ASSUME NEW m, NEW digits
             PROVE  Verdict(m, digits) \in {"point", "none", "error", "panic"}
  OBVIOUS
<1>1. ParseGGA(m) \in {"ok", "error", "panic"}
  BY DEF ParseGGA, Outcome
<1>2. ParseRMC(m) \in {"ok", "error", "panic"}
  BY DEF ParseRMC, Outcome
<1>3. ParseGSV(m) \in {"ok", "error", "panic"}
  BY DEF ParseGSV, Required
<1>4. Parse(m, digits) \in {"ok", "error", "panic"}
  BY <1>1, <1>2, <1>3 DEF Parse
<1> QED
  BY <1>4 DEF Verdict

LEMMA InitTypeOK == Init => TypeOK
<1> SUFFICES ASSUME Init PROVE TypeOK
  OBVIOUS
<1>1. start \in 0..3 /\ next \in Nat
  BY DEF Init
<1>2. ring \in Seq(Nat) /\ Len(ring) <= RingSize
  BY GpsAssumption DEF Init
<1>3. line \in Seq(LineToken) /\ parsed \in Seq(Seq(LineToken))
  BY DEF Init
<1> QED
  BY <1>1, <1>2, <1>3 DEF Init, TypeOK, Phase

(* A line whose verdict is known.                                          *)
LEMMA TakeForTypeOK ==
  ASSUME TypeOK, NEW v \in {"point", "none", "error", "panic"}, TakeFor(v),
         fooled' \in BOOLEAN
  PROVE  TypeOK'
<1>1. CASE v \in {"point", "none"}
  <2>1. /\ parsed' = Append(parsed, line)
        /\ main' = IF v = "point" THEN "update" ELSE "read"
        /\ line' = <<>>
        /\ UNCHANGED <<start, next, ring, status, lost>>
    BY <1>1 DEF TakeFor, Cleared
  <2>2. parsed' \in Seq(Seq(LineToken)) /\ line' \in Seq(LineToken)
    BY <2>1 DEF TypeOK
  <2> QED BY <2>1, <2>2 DEF TypeOK, Phase
<1>2. CASE v \in {"error", "panic"}
  BY <1>2 DEF TakeFor, End, TypeOK, Phase
<1> QED
  BY <1>1, <1>2

LEMMA NextTypeOK == TypeOK /\ [Next]_vars => TypeOK'
<1> SUFFICES ASSUME TypeOK, [Next]_vars PROVE TypeOK'
  OBVIOUS
<1>1. CASE Receive
  <2>0. /\ next \in Nat /\ ring \in Seq(Nat) /\ Len(ring) \in Nat /\ RingSize \in Nat
        /\ lost \in BOOLEAN /\ Len(ring) <= RingSize
    BY GpsAssumption DEF TypeOK
  <2>1. next' \in Nat
    BY <1>1, <2>0 DEF Receive
  <2>2. CASE Len(ring) < RingSize
    <3>1. ring' = Append(ring, next) /\ lost' = lost
      BY <1>1, <2>2 DEF Receive
    <3>2. ring' \in Seq(Nat) /\ Len(ring') = Len(ring) + 1
      BY <2>0, <3>1
    <3> QED BY <1>1, <2>0, <2>1, <2>2, <3>1, <3>2 DEF Receive, TypeOK
  <2>3. CASE ~(Len(ring) < RingSize)
    <3>1. ring' = ring /\ lost' = TRUE
      BY <1>1, <2>3 DEF Receive
    <3> QED BY <1>1, <2>1, <3>1 DEF Receive, TypeOK
  <2> QED BY <2>2, <2>3
<1>2. CASE ReadByte
  <2>1. Head(ring) \in Nat /\ Tail(ring) \in Seq(Nat) /\ Len(Tail(ring)) = Len(ring) - 1
    <3>1. ring \in Seq(Nat) /\ ring # <<>>
      BY <1>2 DEF ReadByte, TypeOK
    <3> QED BY <3>1
  <2>2. Part(Head(ring)) # 3 => Head(ring) \in LineToken
    BY <2>1 DEF LineToken
  <2>3. line' \in Seq(LineToken)
    <3>1. line \in Seq(LineToken)
      BY DEF TypeOK
    <3>2. line' = line \/ (Head(ring) \in LineToken /\ line' = Append(line, Head(ring)))
      BY <1>2, <2>2 DEF ReadByte
    <3>3. \A k \in Nat : k <= 3 => k \in 0..3
      OBVIOUS
    <3> QED BY <3>1, <3>2, <3>3
  <2> QED BY <1>2, <2>1, <2>3, GpsAssumption DEF ReadByte, TypeOK, Phase
<1>3. CASE PigpiodFails \/ RefuseDamaged \/ DrawFails \/ UpdateReturns \/ UNCHANGED vars
  BY <1>3 DEF PigpiodFails, RefuseDamaged, DrawFails, UpdateReturns, End, vars, TypeOK, Phase
<1>4. CASE ParseWhole \/ ParseDamaged
  <2>1. \E v \in {"point", "none", "error", "panic"} : TakeFor(v)
    BY <1>4, VerdictType DEF ParseWhole, ParseDamaged, WholeVerdicts, DamagedVerdicts
  <2>2. fooled' \in BOOLEAN
    BY <1>4 DEF ParseWhole, ParseDamaged, TypeOK
  <2> QED BY <2>1, <2>2, TakeForTypeOK
<1> QED
  BY <1>1, <1>2, <1>3, <1>4 DEF Next, Proceed

(* The types of the state are kept, and pigpiod's buffer is never over its *)
(* size.                                                                   *)
THEOREM TypeCorrect == Spec => []TypeOK
BY InitTypeOK, NextTypeOK, PTL DEF Spec

-----------------------------------------------------------------------------
Below(s, t) == \A x \in DOMAIN s : s[x] < t

Rising(s) == \A x, y \in DOMAIN s : x < y => s[x] < s[y]

(* What has been parsed is older than what the reader has, that is older   *)
(* than what waits for it, and that is older than what comes next.         *)
OrderInv ==
  /\ Rising(ring) /\ Below(ring, next)
  /\ Below(line, next) /\ \A x \in DOMAIN ring : Below(line, ring[x])
  /\ \A i \in DOMAIN parsed :
       /\ Below(parsed[i], next)
       /\ \A x \in DOMAIN line : Below(parsed[i], line[x])
       /\ \A x \in DOMAIN ring : Below(parsed[i], ring[x])
  /\ LinesInOrder

LEMMA OrderInit == Init => OrderInv
BY DEF Init, OrderInv, Rising, Below, LinesInOrder

(* The lines consist of tokens, and tokens are numbers.                    *)
LEMMA Tokens ==
  ASSUME TypeOK
  PROVE  /\ next \in Nat /\ ring \in Seq(Nat)
         /\ \A x \in DOMAIN ring : ring[x] \in Nat
         /\ \A x \in DOMAIN line : line[x] \in Nat
         /\ \A i \in DOMAIN parsed : \A x \in DOMAIN parsed[i] : parsed[i][x] \in Nat
<1>1. /\ next \in Nat /\ ring \in Seq(Nat)
      /\ line \in Seq(LineToken) /\ parsed \in Seq(Seq(LineToken))
  BY DEF TypeOK
<1>2. \A t \in LineToken : t \in Nat
  BY DEF LineToken
<1>3. \A i \in DOMAIN parsed : parsed[i] \in Seq(LineToken)
  BY <1>1
<1>4. \A s \in Seq(LineToken) : \A x \in DOMAIN s : s[x] \in LineToken
  OBVIOUS
<1> QED
  BY <1>1, <1>2, <1>3, <1>4

LEMMA OrderReceive == ASSUME TypeOK, OrderInv, Receive PROVE OrderInv'
<1>0. /\ next \in Nat /\ next' = next + 1 /\ ring \in Seq(Nat)
      /\ ring' = ring \/ ring' = Append(ring, next)
      /\ UNCHANGED <<line, parsed>>
  BY Tokens DEF Receive
<1>1. /\ \A x \in DOMAIN ring : ring[x] \in Nat /\ ring[x] < next
      /\ \A x \in DOMAIN line : line[x] \in Nat /\ line[x] < next
      /\ \A i \in DOMAIN parsed : \A x \in DOMAIN parsed[i] :
            parsed[i][x] \in Nat /\ parsed[i][x] < next
  BY <1>0, Tokens DEF OrderInv, Below
<1>2. \A x \in DOMAIN ring' : \/ x \in DOMAIN ring /\ ring'[x] = ring[x]
                              \/ ring'[x] = next
  BY <1>0
<1>3. \A x, y \in DOMAIN ring' :
        x < y => x \in DOMAIN ring /\ ring'[x] = ring[x]
  BY <1>0
<1>4. Rising(ring')
  BY <1>1, <1>2, <1>3 DEF OrderInv, Rising
<1>5. Below(ring', next') /\ Below(line', next')
  BY <1>0, <1>1, <1>2 DEF Below
<1>6. \A x \in DOMAIN ring' : Below(line', ring'[x])
  BY <1>0, <1>1, <1>2 DEF OrderInv, Below
<1>7. \A i \in DOMAIN parsed' :
        /\ Below(parsed'[i], next')
        /\ \A x \in DOMAIN line' : Below(parsed'[i], line'[x])
        /\ \A x \in DOMAIN ring' : Below(parsed'[i], ring'[x])
  BY <1>0, <1>1, <1>2 DEF OrderInv, Below
<1>8. LinesInOrder'
  BY <1>0 DEF OrderInv, LinesInOrder
<1> QED
  BY <1>4, <1>5, <1>6, <1>7, <1>8 DEF OrderInv

LEMMA OrderReadByte == ASSUME TypeOK, OrderInv, ReadByte PROVE OrderInv'
<1>0. /\ ring \in Seq(Nat) /\ ring # <<>> /\ ring' = Tail(ring) /\ line \in Seq(LineToken)
      /\ line' = line \/ line' = Append(line, Head(ring))
      /\ UNCHANGED <<next, parsed>>
  BY DEF ReadByte, TypeOK
<1>1. \A x \in DOMAIN ring' : x + 1 \in DOMAIN ring /\ ring'[x] = ring[x + 1]
  BY <1>0
<1>2. 1 \in DOMAIN ring /\ Head(ring) = ring[1]
  BY <1>0
<1>3. \A x \in DOMAIN line' : \/ x \in DOMAIN line /\ line'[x] = line[x]
                              \/ line'[x] = ring[1]
  BY <1>0, <1>2
<1>4. Rising(ring') /\ Below(ring', next')
  BY <1>0, <1>1 DEF OrderInv, Rising, Below
<1>5. Below(line', next')
  BY <1>0, <1>2, <1>3 DEF OrderInv, Below
<1>6. \A x \in DOMAIN ring' : ring[1] < ring'[x]
  BY <1>0, <1>1, <1>2 DEF OrderInv, Rising
<1>7. \A x \in DOMAIN ring' : Below(line', ring'[x])
  BY <1>1, <1>3, <1>6 DEF OrderInv, Below
<1>8. \A i \in DOMAIN parsed' :
        /\ Below(parsed'[i], next')
        /\ \A x \in DOMAIN line' : Below(parsed'[i], line'[x])
        /\ \A x \in DOMAIN ring' : Below(parsed'[i], ring'[x])
  BY <1>0, <1>1, <1>2, <1>3 DEF OrderInv, Below
<1>9. LinesInOrder'
  BY <1>0 DEF OrderInv, LinesInOrder
<1> QED
  BY <1>4, <1>5, <1>7, <1>8, <1>9 DEF OrderInv

(* A line that is accepted joins the earlier ones.                         *)
LEMMA OrderAccept ==
  ASSUME TypeOK, OrderInv, parsed' = Append(parsed, line), line' = <<>>,
         UNCHANGED <<next, ring>>
  PROVE  OrderInv'
<1>1. parsed \in Seq(Seq(LineToken)) /\ line \in Seq(LineToken)
  BY DEF TypeOK
<1>2. \A i \in DOMAIN parsed' : \/ i \in DOMAIN parsed /\ parsed'[i] = parsed[i]
                                \/ parsed'[i] = line
  BY <1>1
<1>3. \A i, j \in DOMAIN parsed' : i < j => i \in DOMAIN parsed /\ parsed'[i] = parsed[i]
  BY <1>1
<1>4. LinesInOrder'
  BY <1>2, <1>3 DEF OrderInv, LinesInOrder, Below
<1>5. DOMAIN line' = {}
  OBVIOUS
<1> QED
  BY <1>2, <1>4, <1>5 DEF OrderInv, Below

LEMMA OrderNext == TypeOK /\ OrderInv /\ [Next]_vars => OrderInv'
<1> SUFFICES ASSUME TypeOK, OrderInv, [Next]_vars PROVE OrderInv'
  OBVIOUS
<1>1. CASE UNCHANGED <<next, ring, line, parsed>>
  BY <1>1 DEF OrderInv, Rising, Below, LinesInOrder
<1>2. CASE ParseWhole \/ ParseDamaged
  <2>1. PICK v : TakeFor(v)
    BY <1>2 DEF ParseWhole, ParseDamaged
  <2>2. \/ UNCHANGED <<next, ring, line, parsed>>
        \/ /\ parsed' = Append(parsed, line)
           /\ line' = <<>>
           /\ UNCHANGED <<next, ring>>
    BY <2>1 DEF TakeFor, End, Cleared
  <2> QED BY <1>1, <2>2, OrderAccept
<1>3. CASE PigpiodFails \/ RefuseDamaged \/ DrawFails \/ UpdateReturns \/ UNCHANGED vars
  BY <1>1, <1>3 DEF PigpiodFails, RefuseDamaged, DrawFails, UpdateReturns, End, vars
<1> QED
  BY <1>2, <1>3, OrderReceive, OrderReadByte DEF Next, Proceed

(* parse() gets what the receiver sends in order, and nothing twice.       *)
THEOREM InOrder == Spec => []LinesInOrder
<1>1. OrderInv => LinesInOrder
  BY DEF OrderInv
<1> QED
  BY <1>1, InitTypeOK, NextTypeOK, OrderInit, OrderNext, PTL DEF Spec

-----------------------------------------------------------------------------
(* As long as nothing is lost, a program that found the receiver at the    *)
(* start of a sentence reads the stream without a gap: Unread is the token *)
(* that it reads next.                                                     *)
Unread == next - Len(ring)

InStep ==
  /\ \A x \in DOMAIN ring : ring[x] = Unread + x - 1
  /\ main \in {"read", "update"} =>
       /\ Len(line) <= 3
       /\ Part(Unread - Len(line)) = 0
       /\ \A x \in DOMAIN line : line[x] = Unread - Len(line) + x - 1
  /\ main = "update" => line = <<>>
  /\ main = "parse" =>
       /\ Len(line) = 3
       /\ Part(Unread) = 0
       /\ \A x \in DOMAIN line : line[x] = Unread - 4 + x - 1

DamageInv == /\ start = 0 /\ ~lost => InStep
             /\ OnlyDamageStops

LEMMA AppendAt ==
  ASSUME NEW S, NEW s \in Seq(S), NEW e \in S, NEW t, t = Append(s, e)
  PROVE  /\ Len(s) \in Nat /\ Len(t) = Len(s) + 1
         /\ \A x \in DOMAIN t : \/ x \in DOMAIN s /\ t[x] = s[x]
                                \/ x = Len(s) + 1 /\ t[x] = e
<1>1. /\ Len(s) \in Nat /\ DOMAIN s = 1..Len(s)
      /\ t \in Seq(S) /\ Len(t) = Len(s) + 1
      /\ \A i \in 1..Len(s) : t[i] = s[i]
      /\ t[Len(s) + 1] = e
  BY AppendProperties
<1>2. DOMAIN t = 1..(Len(s) + 1)
  BY <1>1
<1>3. ASSUME NEW x \in DOMAIN t PROVE x \in 1..Len(s) \/ x = Len(s) + 1
  BY <1>1, <1>2
<1> QED
  BY <1>1, <1>3

LEMMA Mod4 ==
  ASSUME NEW a \in Int, NEW d \in 0..3, a % 4 = 0
  PROVE  (a + d) % 4 = d /\ (a + 4) % 4 = 0 /\ (a - 4) % 4 = 0
OBVIOUS

LEMMA DamageInit == Init => DamageInv
BY DEF Init, DamageInv, InStep, Unread, Part, OnlyDamageStops

LEMMA StepReceive == ASSUME TypeOK, InStep, Receive, ~lost' PROVE InStep'
<1>1. /\ ring' = Append(ring, next) /\ next' = next + 1
      /\ ring \in Seq(Nat) /\ next \in Nat
      /\ UNCHANGED <<line, main>>
  BY DEF Receive, TypeOK
<1>2. /\ Len(ring') = Len(ring) + 1 /\ Len(ring) \in Nat
      /\ \A x \in DOMAIN ring' : \/ x \in DOMAIN ring /\ ring'[x] = ring[x]
                                 \/ x = Len(ring) + 1 /\ ring'[x] = next
  BY <1>1, AppendAt
<1>3. Unread' = Unread /\ Unread \in Int
  BY <1>1, <1>2 DEF Unread
<1>4. \A x \in DOMAIN ring' : ring'[x] = Unread' + x - 1
  BY <1>1, <1>2, <1>3 DEF InStep, Unread
<1> QED
  BY <1>1, <1>3, <1>4 DEF InStep

LEMMA StepReadByte == ASSUME TypeOK, InStep, ReadByte PROVE InStep'
<1>1. /\ ring \in Seq(Nat) /\ ring # <<>> /\ ring' = Tail(ring) /\ next \in Nat
      /\ line \in Seq(LineToken) /\ next' = next /\ main = "read"
  BY DEF ReadByte, TypeOK
<1>2. /\ Len(ring) \in Nat \ {0} /\ Len(ring') = Len(ring) - 1
      /\ \A x \in DOMAIN ring' : x \in Nat /\ x + 1 \in DOMAIN ring /\ ring'[x] = ring[x + 1]
      /\ 1 \in DOMAIN ring /\ Head(ring) = ring[1]
      /\ Len(line) \in Nat
  BY <1>1
<1>3. Unread' = Unread + 1 /\ Unread \in Int /\ Head(ring) = Unread
  <2>1. next \in Int /\ Len(ring) \in Int /\ next' = next /\ Len(ring') = Len(ring) - 1
    BY <1>1, <1>2
  <2>2. Unread' = Unread + 1 /\ Unread \in Int
    BY <2>1 DEF Unread
  <2>3. ring[1] = Unread + 1 - 1
    BY <1>2 DEF InStep
  <2> QED BY <1>2, <2>2, <2>3
<1>4. \A x \in DOMAIN ring' : ring'[x] = Unread' + x - 1
  <2> SUFFICES ASSUME NEW x \in DOMAIN ring' PROVE ring'[x] = Unread' + x - 1
    OBVIOUS
  <2>1. ring'[x] = Unread + (x + 1) - 1 /\ x \in Nat
    BY <1>2 DEF InStep
  <2> QED BY <1>3, <2>1
<1>5. /\ Len(line) \in 0..3
      /\ (Unread - Len(line)) % 4 = 0
      /\ \A x \in DOMAIN line : line[x] = Unread - Len(line) + x - 1
  <2>1. /\ Len(line) <= 3
        /\ Part(Unread - Len(line)) = 0
        /\ \A x \in DOMAIN line : line[x] = Unread - Len(line) + x - 1
    BY <1>1 DEF InStep
  <2>2. (Unread - Len(line)) % 4 = 0
    BY <2>1 DEF Part
  <2>3. Len(line) \in 0..3
    <3>1. Len(line) \in Nat
      BY <1>2
    <3>2. Len(line) <= 3
      BY <2>1
    <3>3. \A k \in Nat : k <= 3 => k \in 0..3
      OBVIOUS
    <3> QED BY <3>1, <3>2, <3>3
  <2> QED BY <2>1, <2>2, <2>3
<1>6. Part(Head(ring)) = Len(line)
  <2>0. Unread - Len(line) \in Int
    BY <1>2, <1>3
  <2>1. ((Unread - Len(line)) + Len(line)) % 4 = Len(line)
    BY <2>0, <1>5, Mod4
  <2> QED BY <1>3, <1>5, <2>1 DEF Part
<1>7. CASE Part(Head(ring)) = 3
  <2>1. main' = "parse" /\ line' = line /\ Len(line) = 3
    BY <1>6, <1>7 DEF ReadByte
  <2>2. Unread' % 4 = 0
    <3>1. ((Unread - 3) + 4) % 4 = 0
      BY <1>3, <1>5, <2>1, Mod4
    <3> QED BY <1>3, <3>1
  <2> QED BY <1>3, <1>4, <1>5, <2>1, <2>2 DEF InStep, Part
<1>8. CASE Part(Head(ring)) # 3
  <2>1. main' = "read" /\ line' = Append(line, Head(ring)) /\ Len(line) <= 2
    BY <1>1, <1>5, <1>6, <1>8 DEF ReadByte
  <2>2. /\ Len(line') = Len(line) + 1
        /\ \A x \in DOMAIN line' : \/ x \in DOMAIN line /\ line'[x] = line[x]
                                   \/ x = Len(line) + 1 /\ line'[x] = Head(ring)
    <3>1. Head(ring) \in LineToken
      BY <1>1, <1>8 DEF LineToken
    <3> QED BY <1>1, <2>1, <3>1, AppendAt
  <2>3. Unread' - Len(line') = Unread - Len(line)
    BY <1>2, <1>3, <2>2
  <2>4. \A x \in DOMAIN line' : line'[x] = Unread' - Len(line') + x - 1
    <3> SUFFICES ASSUME NEW x \in DOMAIN line'
                 PROVE  line'[x] = Unread - Len(line) + x - 1
      BY <2>3
    <3>1. CASE x \in DOMAIN line /\ line'[x] = line[x]
      BY <1>5, <3>1
    <3>2. CASE x = Len(line) + 1 /\ line'[x] = Head(ring)
      <4>1. Unread - Len(line) + (Len(line) + 1) - 1 = Unread
        BY <1>2, <1>3
      <4> QED BY <1>3, <3>2, <4>1
    <3> QED BY <2>2, <3>1, <3>2
  <2> QED BY <1>2, <1>4, <1>5, <2>1, <2>2, <2>3, <2>4 DEF InStep, Part
<1> QED
  BY <1>7, <1>8

LEMMA InStepWhole == ASSUME TypeOK, InStep, main = "parse" PROVE Whole(line)
<1>1. /\ Len(line) = 3 /\ DOMAIN line = 1..3
      /\ Unread \in Int /\ Unread % 4 = 0
      /\ \A x \in DOMAIN line : line[x] = Unread - 4 + x - 1
  BY DEF TypeOK, InStep, Unread, Part
<1>2. line[1] = Unread - 4 /\ line[2] = Unread - 3 /\ line[3] = Unread - 2
  BY <1>1
<1>3. (Unread - 4) % 4 = 0
  BY <1>1, Mod4
<1> QED
  BY <1>1, <1>2, <1>3 DEF Whole, Part

LEMMA StepTake ==
  ASSUME TypeOK, InStep, main = "parse", NEW v, TakeFor(v)
  PROVE  InStep'
<1>1. \/ UNCHANGED <<next, ring, line>> /\ main' = "exit"
      \/ UNCHANGED <<next, ring>> /\ line' = <<>> /\ main' \in {"read", "update"}
  BY DEF TakeFor, End, Cleared
<1>2. Part(Unread) = 0 /\ Unread \in Int /\ \A x \in DOMAIN ring : ring[x] = Unread + x - 1
  BY DEF TypeOK, InStep, Unread
<1>3. UNCHANGED <<next, ring>> => Unread' = Unread
  BY DEF Unread
<1>4. CASE main' = "exit"
  BY <1>1, <1>2, <1>3, <1>4 DEF InStep
<1>5. CASE UNCHANGED <<next, ring>> /\ line' = <<>> /\ main' \in {"read", "update"}
  <2>1. Len(line') = 0 /\ DOMAIN line' = {} /\ Unread' - 0 = Unread
    BY <1>2, <1>3, <1>5
  <2> QED BY <1>2, <1>3, <1>5, <2>1 DEF InStep
<1> QED
  BY <1>1, <1>4, <1>5

(* A sentence that the receiver sent is accepted.                          *)
Accepted == WholeVerdicts \subseteq {"point", "none"}

LEMMA DamageNext == Accepted => (TypeOK /\ DamageInv /\ [Next]_vars => DamageInv')
<1> SUFFICES ASSUME Accepted, TypeOK, DamageInv, [Next]_vars PROVE DamageInv'
  OBVIOUS
<1>1. start' = start /\ (lost => lost')
  BY DEF Next, Proceed, vars, Receive, ReadByte, ParseWhole, RefuseDamaged, ParseDamaged,
         TakeFor, End, UpdateReturns, PigpiodFails, DrawFails
<1>2. ASSUME start = 0, ~lost, main = "parse" PROVE Whole(line)
  BY <1>2, InStepWhole DEF DamageInv
<1>3. CASE UNCHANGED <<status, fooled>>
  <2>1. OnlyDamageStops'
    BY <1>1, <1>3 DEF DamageInv, OnlyDamageStops
  <2>2. ASSUME start = 0, ~lost' PROVE InStep'
    <3>0. InStep
      BY <1>1, <2>2 DEF DamageInv
    <3>1. CASE Receive \/ ReadByte
      BY <2>2, <3>0, <3>1, StepReceive, StepReadByte
    <3>2. CASE UpdateReturns
      <4>1. main = "update" /\ main' = "read" /\ UNCHANGED <<next, ring, line>>
        BY <3>2 DEF UpdateReturns
      <4>2. Unread' = Unread
        BY <4>1 DEF Unread
      <4> QED BY <3>0, <4>1, <4>2 DEF InStep
    <3>3. CASE ParseWhole \/ ParseDamaged
      BY <3>0, <3>3, StepTake DEF ParseWhole, ParseDamaged
    <3>4. CASE PigpiodFails \/ RefuseDamaged \/ DrawFails
      <4>1. main' = "exit" /\ UNCHANGED <<next, ring>>
        BY <3>4 DEF PigpiodFails, RefuseDamaged, DrawFails, End
      <4>2. Unread' = Unread
        BY <4>1 DEF Unread
      <4> QED BY <3>0, <4>1, <4>2 DEF InStep
    <3>5. CASE UNCHANGED vars
      <4>1. UNCHANGED <<next, ring, line, main>> /\ Unread' = Unread
        BY <3>5 DEF vars, Unread
      <4> QED BY <3>0, <4>1 DEF InStep
    <3> QED BY <3>1, <3>2, <3>3, <3>4, <3>5 DEF Next, Proceed
  <2> QED BY <1>1, <2>1, <2>2 DEF DamageInv
<1>4. CASE PigpiodFails \/ DrawFails
  <2>1. /\ main' = "exit" /\ status' \in {"pigpiod", "display"}
        /\ UNCHANGED <<next, ring, start, lost>>
    BY <1>4 DEF PigpiodFails, DrawFails, End
  <2>2. Unread' = Unread
    BY <2>1 DEF Unread
  <2> QED BY <2>1, <2>2 DEF DamageInv, InStep, OnlyDamageStops
<1>5. CASE ParseWhole
  <2>1. PICK v \in {"point", "none"} : TakeFor(v)
    BY <1>5 DEF ParseWhole, Accepted
  <2> QED BY <1>3, <1>5, <2>1 DEF TakeFor, ParseWhole
<1>6. CASE RefuseDamaged \/ ParseDamaged
  <2>1. start # 0 \/ lost
    BY <1>2, <1>6 DEF RefuseDamaged, ParseDamaged
  <2>2. status' = "panic" => fooled'
    BY <1>6 DEF RefuseDamaged, ParseDamaged, TakeFor, End, DamageInv, OnlyDamageStops
  <2> QED BY <1>1, <2>1, <2>2 DEF DamageInv, OnlyDamageStops
<1> QED
  BY <1>3, <1>4, <1>5, <1>6 DEF Next, Proceed, Receive, ReadByte, UpdateReturns, vars

(* Of a receiver whose sentences are accepted when they arrive whole, no   *)
(* sentence ends the program but for damage on the way.                    *)
THEOREM OnlyDamage == ASSUME Accepted PROVE Spec => []OnlyDamageStops
<1>1. DamageInv => OnlyDamageStops
  BY DEF DamageInv
<1>2. TypeOK /\ DamageInv /\ [Next]_vars => DamageInv'
  BY DamageNext
<1> QED
  BY <1>1, <1>2, InitTypeOK, NextTypeOK, DamageInit, PTL DEF Spec

-----------------------------------------------------------------------------
(* The optional fields of the structs GGA and RMC, and a position, may be  *)
(* empty.                                                                  *)
PositionOK(mag, dir) == "empty" \in {mag, dir} \/ (mag = "good" /\ dir = "good")

ConformingGGA(m) ==
  /\ m.formatter = "GGA" /\ 1..12 \subseteq DOMAIN m.fields
  /\ \A i \in 1..12 : m.fields[i] \in FieldClass
  /\ PositionOK(m.fields[2], m.fields[3]) /\ PositionOK(m.fields[4], m.fields[5])
  /\ m.fields[1] = "good" /\ m.fields[6] # "empty" /\ m.fields[7] = "good"

ConformingRMC(m) ==
  /\ m.formatter = "RMC" /\ 1..11 \subseteq DOMAIN m.fields
  /\ \A i \in 1..11 : m.fields[i] \in FieldClass
  /\ PositionOK(m.fields[3], m.fields[4]) /\ PositionOK(m.fields[5], m.fields[6])
  /\ m.fields[1] = "good" /\ m.fields[2] # "empty"
  /\ \A i \in 7..9 : m.fields[i] = "good"

ConformingGSV(m) ==
  /\ m.formatter = "GSV" /\ 3 \in DOMAIN m.fields /\ m.fields[3] = "good"

Conforming(m) == \/ ConformingGGA(m) \/ ConformingRMC(m) \/ ConformingGSV(m)
                 \/ m.formatter \in Ignored

(* Whatever the other fields are, parse() returns such a sentence.         *)
THEOREM ConformingAccepted ==
  ASSUME NEW m, Conforming(m) PROVE Verdict(m, 2) \in {"point", "none"}
<1>1. ASSUME ConformingGGA(m) PROVE Parse(m, 2) = "ok"
  <2>1. \A i \in 1..12 : Field(m, i) = m.fields[i] /\ m.fields[i] # "missing"
    BY <1>1 DEF ConformingGGA, Field, FieldClass
  <2>2. /\ Required(Field(m, 1)) = "ok" /\ Required(Field(m, 7)) = "ok"
        /\ LatLon(Field(m, 2), Field(m, 3)) = "ok"
        /\ LatLon(Field(m, 4), Field(m, 5)) = "ok"
        /\ Present(Field(m, 6)) = "ok" /\ Present(Field(m, 12)) = "ok"
        /\ FirstCharacter(Field(m, 6)) = "ok"
    BY <1>1, <2>1 DEF ConformingGGA, PositionOK, Required, LatLon, Present, FirstCharacter
  <2>3. ParseGGA(m) = "ok"
    BY <2>2 DEF ParseGGA, Outcome
  <2> QED BY <1>1, <2>3 DEF ConformingGGA, Parse, Ignored
<1>2. ASSUME ConformingRMC(m) PROVE Parse(m, 2) = "ok"
  <2>1. \A i \in 1..11 : Field(m, i) = m.fields[i] /\ m.fields[i] # "missing"
    BY <1>2 DEF ConformingRMC, Field, FieldClass
  <2>2. /\ Required(Field(m, 1)) = "ok" /\ Required(Field(m, 7)) = "ok"
        /\ Required(Field(m, 8)) = "ok" /\ Required(Field(m, 9)) = "ok"
        /\ LatLon(Field(m, 3), Field(m, 4)) = "ok"
        /\ LatLon(Field(m, 5), Field(m, 6)) = "ok"
        /\ Present(Field(m, 2)) = "ok" /\ Present(Field(m, 11)) = "ok"
        /\ FirstCharacter(Field(m, 2)) = "ok"
    BY <1>2, <2>1 DEF ConformingRMC, PositionOK, Required, LatLon, Present, FirstCharacter
  <2>3. ParseRMC(m) = "ok"
    BY <2>2 DEF ParseRMC, Outcome
  <2> QED BY <1>2, <2>3 DEF ConformingRMC, Parse, Ignored
<1>3. ASSUME ConformingGSV(m) PROVE Parse(m, 2) = "ok"
  BY <1>3 DEF ConformingGSV, Parse, Ignored, ParseGSV, Field, Required
<1>4. ASSUME m.formatter \in Ignored PROVE Parse(m, 2) = "ok"
  BY <1>4 DEF Parse, Ignored
<1> QED
  BY <1>1, <1>2, <1>3, <1>4 DEF Conforming, Verdict

(* What it takes for the parser to panic: fewer fields than it reads, a    *)
(* quality or status without a character, a magnitude whose '.' comes too  *)
(* early, or no code and half a checksum.                                  *)
Panicking(m, digits) ==
  \/ m.formatter = "empty" /\ digits = 1
  \/ m.formatter = "GSV" /\ Len(m.fields) < 3
  \/ m.formatter = "GGA" /\ \/ Len(m.fields) < 12
                            \/ m.fields[6] = "empty"
                            \/ "early" \in {m.fields[2], m.fields[4]}
  \/ m.formatter = "RMC" /\ \/ Len(m.fields) < 11
                            \/ m.fields[2] = "empty"
                            \/ "early" \in {m.fields[3], m.fields[5]}

(* No other sentence makes parse() panic, whatever its fields are: bad     *)
(* numbers, bad directions and empty fields are errors or nulls.           *)
THEOREM PanicsOnly ==
  ASSUME NEW m, m.fields \in Seq(FieldClass), NEW digits, Verdict(m, digits) = "panic"
  PROVE  Panicking(m, digits)
<1>0. /\ Len(m.fields) \in Nat /\ DOMAIN m.fields = 1..Len(m.fields)
      /\ \A i \in DOMAIN m.fields : m.fields[i] \in FieldClass
  OBVIOUS
<1>1. Parse(m, digits) = "panic"
  BY DEF Verdict
<1>2. CASE m.formatter = "GGA"
  <2> SUFFICES ASSUME Len(m.fields) >= 12, m.fields[6] # "empty",
                      m.fields[2] # "early", m.fields[4] # "early"
               PROVE  FALSE
    BY <1>0, <1>2 DEF Panicking
  <2>1. \A i \in 1..12 : Field(m, i) = m.fields[i] /\ m.fields[i] # "missing"
    BY <1>0 DEF Field, FieldClass
  <2>2. /\ Required(Field(m, 1)) # "panic" /\ Required(Field(m, 7)) # "panic"
        /\ LatLon(Field(m, 2), Field(m, 3)) # "panic"
        /\ LatLon(Field(m, 4), Field(m, 5)) # "panic"
        /\ Present(Field(m, 6)) # "panic" /\ Present(Field(m, 12)) # "panic"
        /\ FirstCharacter(Field(m, 6)) # "panic"
    <3>1. Required(Field(m, 1)) # "panic" /\ Required(Field(m, 7)) # "panic"
      BY <1>0, <2>1 DEF Required
    <3>2. /\ LatLon(Field(m, 2), Field(m, 3)) # "panic"
          /\ LatLon(Field(m, 4), Field(m, 5)) # "panic"
      BY <2>1 DEF LatLon
    <3>3. Present(Field(m, 6)) # "panic" /\ Present(Field(m, 12)) # "panic"
      BY <2>1 DEF Present
    <3>4. FirstCharacter(Field(m, 6)) # "panic"
      BY <2>1 DEF FirstCharacter
    <3> QED BY <3>1, <3>2, <3>3, <3>4
  <2>3. ParseGGA(m) # "panic"
    BY <2>2 DEF ParseGGA, Outcome
  <2> QED
    BY <1>1, <1>2, <2>3 DEF Parse, Ignored
<1>3. CASE m.formatter = "RMC"
  <2> SUFFICES ASSUME Len(m.fields) >= 11, m.fields[2] # "empty",
                      m.fields[3] # "early", m.fields[5] # "early"
               PROVE  FALSE
    BY <1>0, <1>3 DEF Panicking
  <2>1. \A i \in 1..11 : Field(m, i) = m.fields[i] /\ m.fields[i] # "missing"
    BY <1>0 DEF Field, FieldClass
  <2>2. /\ Required(Field(m, 1)) # "panic" /\ Required(Field(m, 7)) # "panic"
        /\ Required(Field(m, 8)) # "panic" /\ Required(Field(m, 9)) # "panic"
        /\ LatLon(Field(m, 3), Field(m, 4)) # "panic"
        /\ LatLon(Field(m, 5), Field(m, 6)) # "panic"
        /\ Present(Field(m, 2)) # "panic" /\ Present(Field(m, 11)) # "panic"
        /\ FirstCharacter(Field(m, 2)) # "panic"
    <3>1. /\ Required(Field(m, 1)) # "panic" /\ Required(Field(m, 7)) # "panic"
          /\ Required(Field(m, 8)) # "panic" /\ Required(Field(m, 9)) # "panic"
      BY <1>0, <2>1 DEF Required
    <3>2. /\ LatLon(Field(m, 3), Field(m, 4)) # "panic"
          /\ LatLon(Field(m, 5), Field(m, 6)) # "panic"
      BY <2>1 DEF LatLon
    <3>3. Present(Field(m, 2)) # "panic" /\ Present(Field(m, 11)) # "panic"
      BY <2>1 DEF Present
    <3>4. FirstCharacter(Field(m, 2)) # "panic"
      BY <2>1 DEF FirstCharacter
    <3> QED BY <3>1, <3>2, <3>3, <3>4
  <2>3. ParseRMC(m) # "panic"
    BY <2>2 DEF ParseRMC, Outcome
  <2> QED
    BY <1>1, <1>3, <2>3 DEF Parse, Ignored
<1>4. CASE m.formatter = "GSV"
  <2>1. Field(m, 3) = "missing"
    BY <1>1, <1>4 DEF Parse, Ignored, ParseGSV, Required
  <2>2. 3 \notin DOMAIN m.fields
    BY <1>0, <2>1 DEF Field, FieldClass
  <2> QED
    BY <1>0, <1>4, <2>2 DEF Panicking
<1>5. CASE m.formatter \notin {"GGA", "RMC", "GSV"}
  BY <1>1, <1>5 DEF Parse, Panicking
<1> QED
  BY <1>2, <1>3, <1>4, <1>5

-----------------------------------------------------------------------------
(* A program that began in the middle of a sentence still has its first    *)
(* token before it, and no '$'.                                            *)
MidSentence ==
  start # 0 =>
    /\ parsed = <<>>
    /\ main # "update"
    /\ line # <<>> => line[1] = start
    /\ main = "read" /\ line = <<>> => IF ring = <<>> THEN next = start
                                                       ELSE Head(ring) = start

(* Such a line does not pass.                                              *)
LEMMA MidSentenceRefused ==
  ASSUME TypeOK, MidSentence, start # 0 PROVE ~Whole(line) /\ ~MayPass(line)
<1>1. start \in 1..3
  BY DEF TypeOK
<1>2. Part(start) # 0
  BY <1>1 DEF Part
<1>3. line # <<>> => Part(line[1]) # 0
  BY <1>2 DEF MidSentence
<1>4. Whole(line) => line # <<>>
  BY DEF Whole
<1> QED
  BY <1>3, <1>4 DEF Whole, MayPass

LEMMA MidSentenceNext == TypeOK /\ MidSentence /\ [Next]_vars => MidSentence'
<1> SUFFICES ASSUME TypeOK, MidSentence, [Next]_vars, start # 0 PROVE MidSentence'
  BY DEF Next, Proceed, Receive, ReadByte, ParseWhole, RefuseDamaged, ParseDamaged, TakeFor,
         End, UpdateReturns, PigpiodFails, DrawFails, vars, MidSentence
<1>t. /\ ring \in Seq(Nat) /\ line \in Seq(LineToken) /\ next \in Nat
      /\ RingSize \in Nat \ {0}
  BY GpsAssumption DEF TypeOK
<1>1. CASE Receive
  <2>1. CASE ring = <<>>
    <3>1. ring' = <<next>>
      BY <1>1, <1>t, <2>1 DEF Receive
    <3> QED
      BY <1>1, <2>1, <3>1 DEF Receive, MidSentence
  <2>2. CASE ring # <<>>
    <3>0. Append(ring, next) # <<>> /\ Head(Append(ring, next)) = Head(ring)
      BY <1>t, <2>2
    <3>1. ring' # <<>> /\ Head(ring') = Head(ring)
      BY <1>1, <2>2, <3>0 DEF Receive
    <3> QED
      BY <1>1, <2>2, <3>1 DEF Receive, MidSentence
  <2> QED
    BY <2>1, <2>2
<1>2. CASE ReadByte
  <2>1. CASE Part(Head(ring)) = 3
    BY <1>2, <2>1 DEF ReadByte, MidSentence
  <2>2. CASE Part(Head(ring)) # 3
    <3>1. line' = Append(line, Head(ring)) /\ line' # <<>>
      BY <1>2, <1>t, <2>2 DEF ReadByte
    <3>2. line # <<>> => line'[1] = line[1]
      BY <1>t, <3>1
    <3>3. line = <<>> => line'[1] = Head(ring)
      BY <3>1
    <3>4. line'[1] = start
      BY <1>2, <3>2, <3>3 DEF ReadByte, MidSentence
    <3> QED
      BY <1>2, <2>2, <3>1, <3>4 DEF ReadByte, MidSentence
  <2> QED
    BY <2>1, <2>2
<1>3. CASE ParseWhole \/ ParseDamaged \/ UpdateReturns
  BY <1>3, MidSentenceRefused DEF ParseWhole, ParseDamaged, UpdateReturns, MidSentence
<1>4. CASE RefuseDamaged \/ PigpiodFails \/ DrawFails \/ UNCHANGED vars
  BY <1>4 DEF RefuseDamaged, PigpiodFails, DrawFails, End, vars, MidSentence
<1> QED
  BY <1>1, <1>2, <1>3, <1>4 DEF Next, Proceed

(* What MidSentenceStops rests on: a program that opened the line within a *)
(* sentence never gets a point from it, nor accepts anything.              *)
THEOREM MidSentenceYieldsNothing ==
  Spec => [](start # 0 => parsed = <<>> /\ main # "update")
<1>1. Init => MidSentence
  BY DEF Init, MidSentence
<1>2. MidSentence => (start # 0 => parsed = <<>> /\ main # "update")
  BY DEF MidSentence
<1> QED
  BY <1>1, <1>2, InitTypeOK, NextTypeOK, MidSentenceNext, PTL DEF Spec
=============================================================================
