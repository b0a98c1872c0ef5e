------------------------- MODULE ComputeMetricsProofs -------------------------
(***************************************************************************)
(* For any round, any size of a batch and any number of tries: the work    *)
(* asked of the servers is bounded, the scores in the store are the ones   *)
(* their metrics give, a scored row is kept, and the report is true.       *)
(***************************************************************************)
EXTENDS ComputeMetrics, ResultRowTheorems, FiniteSetTheorems, SequenceTheorems, TLAPS

(***************************************************************************)
(* What holds of a call however often it is tried, for any number of tries *)
(* and any size of a batch.                                                *)
(***************************************************************************)
\* A caller makes at least one try of each kind, and asks for something.
LEMMA TriesType ==
  ASSUME NEW c \in Chains
  PROVE  /\ OuterTries(c) \in Nat \ {0}
         /\ Units(c) \in Nat \ {0}
         /\ Prompts(c) \in Nat \ {0}
         /\ InnerTries(c) \in Nat \ {0}
         /\ ClientTries(c) \in Nat \ {0}
<1>1. Fields = 2
  BY DEF Fields, FieldOrder
<1>2. BatchSize * Fields \in Nat \ {0}
  BY <1>1, ServiceCallsAssumption
<1>3. Units(c) \in Nat \ {0}
  BY <1>1, <1>2 DEF Units
<1>. QED BY <1>3, ServiceCallsAssumption
         DEF OuterTries, Prompts, InnerTries, ClientTries, ByRagas, Chains

\* A loop of n turns inside another: its last turn comes before the next turn of
\* the outer one.
LEMMA Carry ==
  ASSUME NEW a \in Nat, NEW n \in Nat, NEW b \in 1..n
  PROVE  a * n + b - 1 \in Nat /\ (a * n + b - 1) + 1 <= (a + 1) * n
<1>1. a * n \in Nat /\ (a + 1) * n = a * n + n
  OBVIOUS
<1>. QED BY <1>1

LEMMA Scale ==
  ASSUME NEW n \in Nat, NEW a \in Nat, NEW b \in Nat, a <= b
  PROVE  a * n <= b * n /\ a * n \in Nat /\ b * n \in Nat
<1>1. PICK d \in Nat : b = a + d
  <2>1. b - a \in Nat /\ b = a + (b - a)
    OBVIOUS
  <2>. QED BY <2>1
<1>2. b * n = a * n + d * n
  BY <1>1
<1>3. d * n \in Nat /\ a * n \in Nat /\ b * n \in Nat
  OBVIOUS
<1>. QED BY <1>2, <1>3

LEMMA TurnType ==
  ASSUME NEW c \in Chains, NEW o \in Int, NEW g \in Int, NEW p \in Int, NEW i \in Int, NEW k \in Int
  PROVE  /\ Turn(c, o, g, p, i, k) \in Int
         /\ OuterTries(c) * Units(c) * Prompts(c) * InnerTries(c) * ClientTries(c) \in Int
<1>. DEFINE O == OuterTries(c)
            U == Units(c)
            P == Prompts(c)
            I == InnerTries(c)
            C == ClientTries(c)
<1>1. O \in Int /\ U \in Int /\ P \in Int /\ I \in Int /\ C \in Int
  BY TriesType
<1>2. Turn(c, o, g, p, i, k) = ((((o - 1) * U + g) * P + p - 1) * I + i - 1) * C + k - 1
  BY DEF Turn
<1>. HIDE DEF O, U, P, I, C
<1>3. (o - 1) * U + g \in Int
  BY <1>1
<1>4. ((o - 1) * U + g) * P + p - 1 \in Int
  BY <1>1, <1>3
<1>5. (((o - 1) * U + g) * P + p - 1) * I + i - 1 \in Int
  BY <1>1, <1>4
<1>6. ((((o - 1) * U + g) * P + p - 1) * I + i - 1) * C + k - 1 \in Int
  BY <1>1, <1>5
<1>7. O * U * P * I * C \in Int
  <2>1. O * U \in Int
    BY <1>1
  <2>2. O * U * P \in Int
    BY <1>1, <2>1
  <2>3. O * U * P * I \in Int
    BY <1>1, <2>2
  <2>. QED BY <1>1, <2>3
<1>. QED BY <1>2, <1>6, <1>7 DEF O, U, P, I, C

\* Every request that follows another, whichever loop goes on, has a later turn,
\* and no turn is beyond the bound.
LEMMA NextTurn ==
  ASSUME NEW c \in Chains,
         NEW o \in 1..OuterTries(c), NEW g \in Nat, g < Units(c), NEW p \in 1..Prompts(c),
         NEW i \in 1..InnerTries(c), NEW k \in 1..ClientTries(c)
  PROVE  LET t == Turn(c, o, g, p, i, k)
         IN  /\ t \in Nat
             /\ t + 1 <= Turn(c, o, g, p, i, k + 1)
             /\ t + 1 <= Turn(c, o, g, p, i + 1, 1)
             /\ t + 1 <= Turn(c, o, g, p + 1, 1, 1)
             /\ t + 1 <= Turn(c, o, g + 1, 1, 1, 1)
             /\ t + 1 <= Turn(c, o + 1, 0, 1, 1, 1)
             /\ t + 1 <= OuterTries(c) * Units(c) * Prompts(c) * InnerTries(c) * ClientTries(c)
<1>. DEFINE O == OuterTries(c)
            U == Units(c)
            P == Prompts(c)
            I == InnerTries(c)
            C == ClientTries(c)
            t1 == (o - 1) * U + g
            t2 == t1 * P + p - 1
            t3 == t2 * I + i - 1
            t4 == t3 * C + k - 1
<1>1. /\ O \in Nat /\ U \in Nat /\ P \in Nat /\ I \in Nat /\ C \in Nat
      /\ o \in 1..O /\ g < U /\ p \in 1..P /\ i \in 1..I /\ k \in 1..C
  BY TriesType
<1>2. /\ Turn(c, o, g, p, i, k) = t4
      /\ Turn(c, o, g, p, i, k + 1) = t3 * C + (k + 1) - 1
      /\ Turn(c, o, g, p, i + 1, 1) = (t2 * I + (i + 1) - 1) * C + 1 - 1
      /\ Turn(c, o, g, p + 1, 1, 1) = ((t1 * P + (p + 1) - 1) * I + 1 - 1) * C + 1 - 1
      /\ Turn(c, o, g + 1, 1, 1, 1) = ((((o - 1) * U + (g + 1)) * P + 1 - 1) * I + 1 - 1) * C + 1 - 1
      /\ Turn(c, o + 1, 0, 1, 1, 1) = (((((o + 1) - 1) * U + 0) * P + 1 - 1) * I + 1 - 1) * C + 1 - 1
  BY DEF Turn
<1>. HIDE DEF O, U, P, I, C
<1>3. (o - 1) * U \in Nat /\ o * U = (o - 1) * U + U /\ o * U \in Nat
  BY <1>1
<1>4. t1 \in Nat /\ t1 + 1 <= o * U
  BY <1>1, <1>3
<1>5. o * U <= O * U /\ O * U \in Nat
  BY <1>1, Scale
<1>. HIDE DEF t1
<1>6. t2 \in Nat /\ t2 + 1 <= (t1 + 1) * P
  BY <1>1, <1>4, Carry
<1>. HIDE DEF t2
<1>7. t3 \in Nat /\ t3 + 1 <= (t2 + 1) * I
  BY <1>1, <1>6, Carry
<1>. HIDE DEF t3
<1>8. t4 \in Nat /\ t4 + 1 <= (t3 + 1) * C
  BY <1>1, <1>7, Carry
<1>. DEFINE B1 == t1 + 1
            B2 == B1 * P
            B3 == B2 * I
            B4 == B3 * C
<1>9. /\ B1 \in Nat /\ B2 \in Nat /\ B3 \in Nat
      /\ t3 + 1 <= (t2 + 1) * I /\ (t2 + 1) * I \in Nat /\ (t2 + 1) * I <= B3
  <2>1. B1 \in Nat /\ B2 \in Nat
    BY <1>1, <1>4
  <2>2. t2 + 1 <= B2
    BY <1>6
  <2>. HIDE DEF B2
  <2>3. (t2 + 1) * I <= B3 /\ (t2 + 1) * I \in Nat /\ B3 \in Nat
    BY <1>1, <1>6, <2>1, <2>2, Scale
  <2>. QED BY <1>7, <2>1, <2>3
<1>10. /\ (t3 + 1) * C <= ((t2 + 1) * I) * C
       /\ ((t2 + 1) * I) * C <= B4
       /\ (t3 + 1) * C \in Nat /\ ((t2 + 1) * I) * C \in Nat /\ B4 \in Nat
  <2>. DEFINE x == (t2 + 1) * I
  <2>. HIDE DEF B3, x
  <2>1. x \in Nat /\ t3 + 1 <= x /\ x <= B3 /\ B3 \in Nat /\ t3 + 1 \in Nat
    BY <1>7, <1>9 DEF x
  <2>2. (t3 + 1) * C <= x * C /\ x * C <= B3 * C
        /\ (t3 + 1) * C \in Nat /\ x * C \in Nat /\ B3 * C \in Nat
    BY <1>1, <2>1, Scale
  <2>. QED BY <2>2 DEF x
\* The same for the tries of the caller, and for all of them.
<1>11. ASSUME NEW w \in Nat, B1 <= w
       PROVE  B4 <= w * P * I * C /\ w * P * I * C \in Nat
  <2>1. B2 <= w * P /\ w * P \in Nat /\ B2 \in Nat
    BY <1>1, <1>9, <1>11, Scale
  <2>. HIDE DEF B2
  <2>2. B3 <= (w * P) * I /\ (w * P) * I \in Nat /\ B3 \in Nat
    <3>. DEFINE y == w * P
    <3>. HIDE DEF y
    <3>1. B2 <= y /\ y \in Nat /\ B2 \in Nat
      BY <2>1 DEF y
    <3>2. B2 * I <= y * I /\ y * I \in Nat /\ B2 * I \in Nat
      BY <1>1, <3>1, Scale
    <3>. QED BY <3>2 DEF y
  <2>. HIDE DEF B3
  <2>3. B4 <= ((w * P) * I) * C /\ ((w * P) * I) * C \in Nat
    <3>. DEFINE z == (w * P) * I
    <3>. HIDE DEF z
    <3>1. B3 <= z /\ z \in Nat /\ B3 \in Nat
      BY <2>2 DEF z
    <3>2. B3 * C <= z * C /\ z * C \in Nat
      BY <1>1, <3>1, Scale
    <3>. QED BY <3>2 DEF z
  <2>. QED BY <2>3
<1>12. B4 <= (o * U) * P * I * C /\ (o * U) * P * I * C \in Nat
  BY <1>3, <1>4, <1>11
<1>13. B4 <= (O * U) * P * I * C /\ (O * U) * P * I * C \in Nat
  BY <1>3, <1>4, <1>5, <1>11
<1>14. /\ t4 + 1 <= t3 * C + (k + 1) - 1
       /\ (t2 * I + (i + 1) - 1) * C + 1 - 1 = (t3 + 1) * C
       /\ ((t1 * P + (p + 1) - 1) * I + 1 - 1) * C + 1 - 1 = ((t2 + 1) * I) * C
       /\ ((((o - 1) * U + (g + 1)) * P + 1 - 1) * I + 1 - 1) * C + 1 - 1 = B4
       /\ (((((o + 1) - 1) * U + 0) * P + 1 - 1) * I + 1 - 1) * C + 1 - 1 = (o * U) * P * I * C
  <2>1. t3 * C \in Nat
    BY <1>1, <1>7
  <2>2. t4 + 1 <= t3 * C + (k + 1) - 1
    BY <1>1, <2>1
  <2>3. t2 * I + (i + 1) - 1 = t3 + 1
    <3>1. t2 * I \in Nat
      BY <1>1, <1>6
    <3>. QED BY <1>1, <3>1 DEF t3
  <2>4. t1 * P + (p + 1) - 1 = t2 + 1
    <3>1. t1 * P \in Nat
      BY <1>1, <1>4
    <3>. QED BY <1>1, <3>1 DEF t2
  <2>5. (o - 1) * U + (g + 1) = B1
    BY <1>1, <1>3 DEF t1
  <2>6. ((o + 1) - 1) * U + 0 = o * U
    BY <1>1, <1>3
  <2>7. \A x \in Int : x + 1 - 1 = x
    OBVIOUS
  <2>8. /\ (t2 + 1) * I \in Int /\ ((t2 + 1) * I) * C \in Int /\ (t3 + 1) * C \in Int
        /\ B2 \in Int /\ B3 \in Int /\ B4 \in Int
        /\ (o * U) * P \in Int /\ ((o * U) * P) * I \in Int /\ (((o * U) * P) * I) * C \in Int
    <3>1. (o * U) * P \in Int
      BY <1>1, <1>3
    <3>2. ((o * U) * P) * I \in Int
      BY <1>1, <3>1
    <3>. QED BY <1>9, <1>10, <1>12, <3>1, <3>2
  <2>9. (t2 * I + (i + 1) - 1) * C + 1 - 1 = (t3 + 1) * C
    BY <2>3, <2>7, <2>8
  <2>10. ((t1 * P + (p + 1) - 1) * I + 1 - 1) * C + 1 - 1 = ((t2 + 1) * I) * C
    BY <2>4, <2>7, <2>8
  <2>11. ((((o - 1) * U + (g + 1)) * P + 1 - 1) * I + 1 - 1) * C + 1 - 1 = B4
    BY <2>5, <2>7, <2>8
  <2>12. (((((o + 1) - 1) * U + 0) * P + 1 - 1) * I + 1 - 1) * C + 1 - 1 = (o * U) * P * I * C
    BY <2>6, <2>7, <2>8
  <2>. QED BY <2>2, <2>9, <2>10, <2>11, <2>12
<1>. HIDE DEF t4, B4
<1>15. O * U * P * I * C = (O * U) * P * I * C
  OBVIOUS
<1>. DEFINE x2 == (t3 + 1) * C
            x3 == ((t2 + 1) * I) * C
            x5 == (o * U) * P * I * C
            x6 == (O * U) * P * I * C
<1>16. /\ x2 \in Nat /\ x3 \in Nat /\ x5 \in Nat /\ x6 \in Nat /\ B4 \in Nat /\ t4 \in Nat
       /\ t4 + 1 <= x2 /\ x2 <= x3 /\ x3 <= B4 /\ B4 <= x5 /\ B4 <= x6
  BY <1>8, <1>10, <1>12, <1>13
<1>. HIDE DEF x2, x3, x5, x6
<1>17. t4 \in Nat /\ t4 + 1 <= x2 /\ t4 + 1 <= x3 /\ t4 + 1 <= B4 /\ t4 + 1 <= x5 /\ t4 + 1 <= x6
  BY <1>16
<1>. USE DEF x2, x3, x5, x6
<1>18. /\ t4 + 1 <= Turn(c, o, g, p, i, k + 1)
       /\ t4 + 1 <= Turn(c, o, g, p, i + 1, 1)
       /\ t4 + 1 <= Turn(c, o, g, p + 1, 1, 1)
       /\ t4 + 1 <= Turn(c, o, g + 1, 1, 1, 1)
       /\ t4 + 1 <= Turn(c, o + 1, 0, 1, 1, 1)
       /\ t4 + 1 <= O * U * P * I * C
  BY <1>2, <1>14, <1>15, <1>17
<1>. QED BY <1>2, <1>17, <1>18 DEF O, U, P, I, C

\* While a call is under way there is room for one more request, and it is sent
\* at a later turn.
LEMMA RoomForARequest ==
  ASSUME CallInv, status = "asking"
  PROVE  /\ chain \in Chains /\ requests \in Nat /\ Len(got) \in Nat
         /\ requests + 1 <= Turn(chain, outer, Len(got), prompt, inner, client + 1)
         /\ requests + 1 <= Turn(chain, outer, Len(got), prompt, inner + 1, 1)
         /\ requests + 1 <= Turn(chain, outer, Len(got), prompt + 1, 1, 1)
         /\ requests + 1 <= Turn(chain, outer, Len(got) + 1, 1, 1, 1)
         /\ requests + 1 <= Turn(chain, outer + 1, 0, 1, 1, 1)
         /\ requests + 1 <= OuterTries(chain) * Units(chain) * Prompts(chain)
                              * InnerTries(chain) * ClientTries(chain)
<1>1. /\ chain \in Chains /\ requests \in Nat /\ Len(got) \in Nat /\ Len(got) < Units(chain)
      /\ outer \in 1..OuterTries(chain) /\ prompt \in 1..Prompts(chain)
      /\ inner \in 1..InnerTries(chain) /\ client \in 1..ClientTries(chain)
      /\ requests <= Turn(chain, outer, Len(got), prompt, inner, client)
  BY DEF CallInv, CallTypeOK, InTurn
<1>. DEFINE t == Turn(chain, outer, Len(got), prompt, inner, client)
            a1 == Turn(chain, outer, Len(got), prompt, inner, client + 1)
            a2 == Turn(chain, outer, Len(got), prompt, inner + 1, 1)
            a3 == Turn(chain, outer, Len(got), prompt + 1, 1, 1)
            a4 == Turn(chain, outer, Len(got) + 1, 1, 1, 1)
            a5 == Turn(chain, outer + 1, 0, 1, 1, 1)
            a6 == OuterTries(chain) * Units(chain) * Prompts(chain)
                    * InnerTries(chain) * ClientTries(chain)
<1>2. /\ t \in Nat /\ t + 1 <= a1 /\ t + 1 <= a2 /\ t + 1 <= a3 /\ t + 1 <= a4
      /\ t + 1 <= a5 /\ t + 1 <= a6
  BY <1>1, NextTurn
<1>3. a1 \in Int /\ a2 \in Int /\ a3 \in Int /\ a4 \in Int /\ a5 \in Int /\ a6 \in Int
  <2>1. /\ outer \in Int /\ prompt \in Int /\ inner \in Int /\ client \in Int /\ Len(got) \in Int
        /\ outer + 1 \in Int /\ prompt + 1 \in Int /\ inner + 1 \in Int /\ client + 1 \in Int
        /\ Len(got) + 1 \in Int /\ 0 \in Int /\ 1 \in Int
    BY <1>1
  <2>. QED BY <1>1, <2>1, TurnType
<1>4. requests <= t
  BY <1>1
<1>. HIDE DEF t, a1, a2, a3, a4, a5, a6
<1>5. /\ requests + 1 <= a1 /\ requests + 1 <= a2 /\ requests + 1 <= a3 /\ requests + 1 <= a4
      /\ requests + 1 <= a5 /\ requests + 1 <= a6
  BY <1>1, <1>2, <1>3, <1>4
<1>. QED BY <1>1, <1>5 DEF a1, a2, a3, a4, a5, a6

-----------------------------------------------------------------------------
\* The limits of a call are those of its caller.
LEMMA LimitsOf ==
  ASSUME NEW c, chain' = c
  PROVE  /\ OuterTries(chain)' = OuterTries(c)
         /\ Units(chain)' = Units(c)
         /\ Prompts(chain)' = Prompts(c)
         /\ InnerTries(chain)' = InnerTries(c)
         /\ ClientTries(chain)' = ClientTries(c)
BY DEF OuterTries, Units, Prompts, InnerTries, ClientTries, ByRagas

\* What holds of a call that has not sent anything.
LEMMA FirstTurn ==
  ASSUME NEW c \in Chains
  PROVE  /\ 1 \in 1..OuterTries(c) /\ 1 \in 1..Prompts(c)
         /\ 1 \in 1..InnerTries(c) /\ 1 \in 1..ClientTries(c)
         /\ 0 < Units(c)
         /\ 0 <= Turn(c, 1, 0, 1, 1, 1)
         /\ 0 <= OuterTries(c) * Units(c) * Prompts(c) * InnerTries(c) * ClientTries(c)
<1>1. /\ 1 \in 1..OuterTries(c) /\ 1 \in 1..Prompts(c)
      /\ 1 \in 1..InnerTries(c) /\ 1 \in 1..ClientTries(c)
      /\ 0 \in Nat /\ 0 < Units(c)
  BY TriesType
<1>2. Turn(c, 1, 0, 1, 1, 1) \in Nat
      /\ Turn(c, 1, 0, 1, 1, 1) + 1 <= OuterTries(c) * Units(c) * Prompts(c) * InnerTries(c) * ClientTries(c)
  BY <1>1, NextTurn
<1>3. OuterTries(c) * Units(c) * Prompts(c) * InnerTries(c) * ClientTries(c) \in Int
  BY TriesType
<1>. QED BY <1>1, <1>2, <1>3

\* A call that has not sent anything is within its bounds.
LEMMA FreshCall ==
  ASSUME NEW c \in Chains, NEW s \in {"idle", "asking"},
         chain' = c, status' = s, outer' = 1, Anew, got' = <<>>, requests' = 0
  PROVE  CallInv'
<1>1. prompt' = 1 /\ inner' = 1 /\ client' = 1
  BY DEF Anew
<1>2. got' \in Seq([of : Nat, is : Values]) /\ Len(got') = 0
  OBVIOUS
<1>3. CallTypeOK'
  BY <1>1, <1>2 DEF CallTypeOK
<1>4. ValuesOfOneTry'
  BY <1>2 DEF ValuesOfOneTry
<1>5. /\ OuterTries(chain)' = OuterTries(c) /\ Units(chain)' = Units(c)
      /\ Prompts(chain)' = Prompts(c) /\ InnerTries(chain)' = InnerTries(c)
      /\ ClientTries(chain)' = ClientTries(c)
  BY LimitsOf
<1>6. /\ 1 \in 1..OuterTries(c) /\ 1 \in 1..Prompts(c)
      /\ 1 \in 1..InnerTries(c) /\ 1 \in 1..ClientTries(c)
      /\ 0 < Units(c)
      /\ 0 <= Turn(c, 1, 0, 1, 1, 1)
      /\ 0 <= OuterTries(c) * Units(c) * Prompts(c) * InnerTries(c) * ClientTries(c)
  BY FirstTurn
<1>7. InTurn' /\ RequestsBounded'
  BY <1>1, <1>5, <1>6 DEF InTurn, RequestsBounded
<1>8. Len(got') < Units(chain)' /\ requests' <= Turn(chain, outer, Len(got), prompt, inner, client)'
  <2>1. Turn(chain, outer, Len(got), prompt, inner, client)' = Turn(c, 1, 0, 1, 1, 1)
    BY <1>1, <1>2, <1>5 DEF Turn
  <2>. QED BY <1>2, <1>5, <1>6, <2>1
<1>. QED BY <1>3, <1>4, <1>7, <1>8 DEF CallInv

LEMMA CallInitHolds == CallInit => CallInv
<1>. SUFFICES ASSUME CallInit PROVE CallInv
  OBVIOUS
<1>1. /\ chain \in Chains /\ status = "idle" /\ outer = 1 /\ prompt = 1 /\ inner = 1 /\ client = 1
      /\ got = <<>> /\ requests = 0
  BY DEF CallInit, Chains
<1>2. got \in Seq([of : Nat, is : Values]) /\ Len(got) = 0
  BY <1>1
<1>3. CallTypeOK
  BY <1>1, <1>2 DEF CallTypeOK
<1>4. ValuesOfOneTry
  BY <1>1, <1>2 DEF ValuesOfOneTry
<1>5. InTurn /\ RequestsBounded
  BY <1>1, FirstTurn DEF InTurn, RequestsBounded
<1>. QED BY <1>1, <1>3, <1>4, <1>5 DEF CallInv

LEMMA DialHolds == \A c \in Chains : Dial(c) => CallInv'
BY FreshCall DEF Dial

LEMMA HangUpHolds == HangUp => CallInv'
BY FreshCall DEF HangUp, Chains

LEMMA UnchangedCall == CallInv /\ UNCHANGED callVars => CallInv'
BY DEF callVars, CallInv, CallTypeOK, ValuesOfOneTry, InTurn, Turn, RequestsBounded, ByRagas,
       OuterTries, Units, Prompts, InnerTries, ClientTries

\* A call that goes on, at a later turn.
LEMMA GoOn ==
  ASSUME CallInv, status = "asking", status' = "asking", chain' = chain, requests' = requests + 1,
         got' \in Seq([of : Nat, is : Values]), Len(got') < Units(chain),
         \A j \in 1..Len(got') : got'[j].of = outer',
         outer' \in 1..OuterTries(chain), prompt' \in 1..Prompts(chain),
         inner' \in 1..InnerTries(chain), client' \in 1..ClientTries(chain),
         requests + 1 <= Turn(chain, outer', Len(got'), prompt', inner', client')
  PROVE  CallInv'
<1>1. chain \in Chains /\ requests \in Nat
  BY RoomForARequest
<1>2. CallTypeOK' /\ ValuesOfOneTry'
  BY <1>1 DEF CallTypeOK, ValuesOfOneTry
<1>3. InTurn' /\ RequestsBounded'
  BY RoomForARequest, LimitsOf DEF InTurn, RequestsBounded
<1>4. Turn(chain, outer, Len(got), prompt, inner, client)'
        = Turn(chain, outer', Len(got'), prompt', inner', client')
  BY LimitsOf DEF Turn
<1>5. Len(got') < Units(chain)'
  BY LimitsOf
<1>. QED BY <1>2, <1>3, <1>4, <1>5 DEF CallInv

\* A value is kept.
LEMMA KeepHolds ==
  ASSUME CallInv, status = "asking", NEW v \in Values, Keep(v)
  PROVE  CallInv' /\ chain' = chain /\ status' \in {"asking", "values"}
<1>. DEFINE n == Len(got)
<1>1. /\ chain' = chain /\ outer' = outer /\ prompt' = 1 /\ inner' = 1 /\ client' = 1
      /\ requests' = requests + 1
      /\ got' = Append(got, [of |-> outer, is |-> v])
      /\ status' = IF n + 1 = Units(chain) THEN "values" ELSE "asking"
  BY DEF Keep, Anew
<1>2. /\ chain \in Chains /\ outer \in Nat /\ outer \in 1..OuterTries(chain) /\ requests \in Nat
      /\ got \in Seq([of : Nat, is : Values])
      /\ n \in Nat /\ n < Units(chain)
      /\ \A i \in 1..n : got[i].of = outer
  BY DEF CallInv, CallTypeOK, InTurn, ValuesOfOneTry
<1>3. [of |-> outer, is |-> v] \in [of : Nat, is : Values]
  BY <1>2
<1>4. /\ got' \in Seq([of : Nat, is : Values])
      /\ Len(got') = n + 1
      /\ \A i \in 1..n : got'[i] = got[i]
      /\ got'[n + 1] = [of |-> outer, is |-> v]
  BY <1>1, <1>2, <1>3
<1>5. \A i \in 1..(n + 1) : got'[i].of = outer
  BY <1>2, <1>4
<1>6. Units(chain) \in Nat
  BY <1>2, TriesType
<1>. HIDE DEF n
<1>7. CASE n + 1 = Units(chain)
  <2>1. status' = "values" /\ Len(got') = Units(chain)'
    BY <1>1, <1>4, <1>7, LimitsOf
  <2>2. CallTypeOK'
    BY <1>1, <1>2, <1>4, <2>1 DEF CallTypeOK
  <2>3. ValuesOfOneTry'
    BY <1>1, <1>4, <1>5, <2>1 DEF ValuesOfOneTry
  <2>4. RequestsBounded'
    BY <1>1, RoomForARequest, LimitsOf DEF RequestsBounded
  <2>. QED BY <1>1, <2>1, <2>2, <2>3, <2>4 DEF CallInv
<1>8. CASE n + 1 # Units(chain)
  <2>1. status' = "asking" /\ Len(got') < Units(chain)
    BY <1>1, <1>2, <1>4, <1>6, <1>8
  <2>2. requests + 1 <= Turn(chain, outer, n + 1, 1, 1, 1)
    BY RoomForARequest DEF n
  <2>3. 1 \in 1..Prompts(chain) /\ 1 \in 1..InnerTries(chain) /\ 1 \in 1..ClientTries(chain)
    BY <1>2, FirstTurn
  <2>. QED BY <1>1, <1>2, <1>4, <1>5, <2>1, <2>2, <2>3, GoOn
<1>. QED BY <1>7, <1>8

\* What the same metric, prompt or request comes to once more.
LEMMA AskMoreHolds ==
  ASSUME CallInv, NextPrompt \/ \E r \in Failures : Resend(r) \/ RepeatRequest(r)
  PROVE  CallInv'
<1>1. /\ status = "asking" /\ status' = "asking" /\ chain' = chain /\ outer' = outer /\ got' = got
      /\ requests' = requests + 1
  BY DEF NextPrompt, Resend, RepeatRequest
<1>2. /\ chain \in Chains /\ got \in Seq([of : Nat, is : Values]) /\ Len(got) < Units(chain)
      /\ \A j \in 1..Len(got) : got[j].of = outer
      /\ outer \in 1..OuterTries(chain) /\ prompt \in 1..Prompts(chain)
      /\ inner \in 1..InnerTries(chain) /\ client \in 1..ClientTries(chain)
  BY <1>1 DEF CallInv, CallTypeOK, InTurn, ValuesOfOneTry
<1>3. /\ Prompts(chain) \in Nat /\ InnerTries(chain) \in Nat /\ ClientTries(chain) \in Nat
      /\ 1 \in 1..InnerTries(chain) /\ 1 \in 1..ClientTries(chain)
  BY <1>2, TriesType
<1>4. CASE NextPrompt
  <2>1. prompt' = prompt + 1 /\ inner' = 1 /\ client' = 1 /\ prompt < Prompts(chain)
    BY <1>4 DEF NextPrompt
  <2>2. prompt' \in 1..Prompts(chain)
    BY <1>2, <1>3, <2>1
  <2>. QED BY <1>1, <1>2, <1>3, <2>1, <2>2, RoomForARequest, GoOn
<1>5. CASE \E r \in Failures : Resend(r)
  <2>1. prompt' = prompt /\ inner' = inner /\ client' = client + 1 /\ client < ClientTries(chain)
    BY <1>5 DEF Resend
  <2>2. client' \in 1..ClientTries(chain)
    BY <1>2, <1>3, <2>1
  <2>. QED BY <1>1, <1>2, <1>3, <2>1, <2>2, RoomForARequest, GoOn
<1>6. CASE \E r \in Failures : RepeatRequest(r)
  <2>1. prompt' = prompt /\ inner' = inner + 1 /\ client' = 1 /\ inner < InnerTries(chain)
    BY <1>6 DEF RepeatRequest
  <2>2. inner' \in 1..InnerTries(chain)
    BY <1>2, <1>3, <2>1
  <2>. QED BY <1>1, <1>2, <1>3, <2>1, <2>2, RoomForARequest, GoOn
<1>. QED BY <1>4, <1>5, <1>6

\* The caller begins again.
LEMMA TryAgainHolds ==
  ASSUME CallInv, NEW r \in Failures, TryAgain(r)
  PROVE  CallInv'
<1>1. /\ status = "asking" /\ chain' = chain /\ status' = "asking" /\ got' = <<>>
      /\ outer < OuterTries(chain) /\ outer' = outer + 1 /\ prompt' = 1 /\ inner' = 1 /\ client' = 1
      /\ requests' = requests + 1
  BY DEF TryAgain, Anew
<1>2. chain \in Chains /\ outer \in 1..OuterTries(chain) /\ OuterTries(chain) \in Nat
  BY <1>1, TriesType DEF CallInv, CallTypeOK, InTurn
<1>3. got' \in Seq([of : Nat, is : Values]) /\ Len(got') = 0
  BY <1>1
<1>4. outer' \in 1..OuterTries(chain)
  BY <1>1, <1>2
<1>5. requests + 1 <= Turn(chain, outer', Len(got'), prompt', inner', client')
  BY <1>1, <1>3, RoomForARequest
<1>. QED BY <1>1, <1>2, <1>3, <1>4, <1>5, FirstTurn, GoOn

\* The call ends without values.
LEMMA EndHolds ==
  ASSUME CallInv, NEW r \in Failures, GiveUp(r) \/ Escape(r)
  PROVE  CallInv'
<1>1. /\ status = "asking" /\ chain' = chain /\ status' \in {"sentinel", "raised"} /\ got' = <<>>
      /\ UNCHANGED <<outer, prompt, inner, client>> /\ requests' = requests + 1
  BY DEF GiveUp, Escape
<1>2. got' \in Seq([of : Nat, is : Values]) /\ Len(got') = 0
  BY <1>1
<1>3. CallTypeOK' /\ ValuesOfOneTry'
  BY <1>1, <1>2 DEF CallInv, CallTypeOK, ValuesOfOneTry
<1>4. RequestsBounded'
  BY <1>1, RoomForARequest, LimitsOf DEF RequestsBounded
<1>. QED BY <1>1, <1>3, <1>4 DEF CallInv

\* Whatever a server answers keeps the invariant of the call, which stays the
\* caller's.
LEMMA CallStepHolds ==
  ASSUME CallInv, CallStep
  PROVE  CallInv' /\ chain' = chain /\ status = "asking" /\ status' # "idle"
<1>1. NaN \in Values
  BY DEF Values
<1>2. ASSUME NEW v \in Values, GetValue(v)
      PROVE  CallInv' /\ chain' = chain /\ status = "asking" /\ status' # "idle"
  BY <1>2, KeepHolds DEF GetValue
<1>3. ASSUME NEW r \in Failures, Spoiled(r)
      PROVE  CallInv' /\ chain' = chain /\ status = "asking" /\ status' # "idle"
  BY <1>1, <1>3, KeepHolds DEF Spoiled
<1>4. CASE NextPrompt \/ \E r \in Failures : Resend(r) \/ RepeatRequest(r)
  BY <1>4, AskMoreHolds DEF NextPrompt, Resend, RepeatRequest
<1>5. ASSUME NEW r \in Failures, TryAgain(r)
      PROVE  CallInv' /\ chain' = chain /\ status = "asking" /\ status' # "idle"
  BY <1>5, TryAgainHolds DEF TryAgain
<1>6. ASSUME NEW r \in Failures, GiveUp(r) \/ Escape(r)
      PROVE  CallInv' /\ chain' = chain /\ status = "asking" /\ status' # "idle"
  BY <1>6, EndHolds DEF GiveUp, Escape
<1>. QED BY <1>2, <1>3, <1>4, <1>5, <1>6 DEF CallStep
-----------------------------------------------------------------------------
(***************************************************************************)
(* The use case.                                                           *)
(***************************************************************************)
LEMMA FiniteParts ==
  ASSUME NEW S \in SUBSET Cells
  PROVE  IsFiniteSet(S) /\ Cardinality(S) \in Nat
BY RoundAssumption, FS_Subset, FS_CardinalityType

LEMMA EmptyTally ==
  /\ NoTally \in [processed : Nat, skipped : Nat, nan : Nat, failed : SUBSET Cells]
  /\ NoRows \in [Cells -> Row]
<1>1. AbsentRow \in Row
  BY SentinelAssumption, RowOfType DEF AbsentRow
<1>. QED BY <1>1 DEF NoTally, NoRows

LEMMA InitHolds == Init => IInv
<1>. SUFFICES ASSUME Init PROVE IInv
  OBVIOUS
<1>1. CallInv /\ status = "idle"
  BY CallInitHolds DEF Init, CallInit
<1>2. InitialRows \subseteq Row /\ \A r \in InitialRows : Whole(r) => Coherent(r)
  BY RoundAssumption
<1>3. store \in [Cells -> InitialRows]
  BY DEF Init
<1>4. store \in [Cells -> Row]
  BY <1>2, <1>3
<1>5. before \in [Cells -> Row] /\ tally \in [processed : Nat, skipped : Nat, nan : Nat, failed : SUBSET Cells]
  BY EmptyTally DEF Init
<1>6. layer1 \in Layer1Vector
  BY AllNaNType DEF Init
<1>7. /\ pc = "idle" /\ todo = {} /\ hand = {}
      /\ force \in BOOLEAN
  BY Zenon DEF Init
<1>8. TypeOK
  BY <1>1, <1>4, <1>5, <1>6, <1>7 DEF TypeOK, CallInv
<1>9. CallOf /\ WorkIsDue /\ ReportSoFar
  BY <1>1, <1>7 DEF CallOf, WorkIsDue, ReportSoFar
<1>10. ScoresCoherent
  BY <1>2, <1>3 DEF ScoresCoherent, Coherent
<1>. QED BY <1>1, <1>8, <1>9, <1>10 DEF IInv

-----------------------------------------------------------------------------
\* Rows and tally stay, and so does the work ahead.
LEMMA SameReport ==
  ASSUME ReportSoFar, pc # "idle" \/ pc' = "idle",
         UNCHANGED <<store, before, force, tally>>,
         (todo \cup hand)' = todo \cup hand
  PROVE  ReportSoFar'
<1>1. Found' = Found /\ Worked' = Worked
  BY DEF Found, Worked, NeedsProcessing
<1>. QED BY <1>1 DEF ReportSoFar, Accounts

LEMMA SameScores ==
  ASSUME ScoresCoherent, UNCHANGED store
  PROVE  ScoresCoherent'
BY DEF ScoresCoherent

LEMMA ExecuteHolds ==
  ASSUME IInv, NEW f \in BOOLEAN, Execute(f)
  PROVE  IInv'
<1>. DEFINE found == {c \in Cells : Whole(store[c])}
            work == {c \in found : NeedsProcessing(store[c], f)}
<1>1. /\ pc = "idle" /\ status = "idle" /\ todo = {} /\ hand = {}
      /\ UNCHANGED <<callVars, store, hand, layer1>>
      /\ todo' = work /\ before' = store /\ force' = f
      /\ tally' = [NoTally EXCEPT !.skipped = Cardinality(found \ work)]
      /\ pc' = IF work = {} THEN "reported" ELSE "row"
  BY DEF Execute, IInv, WorkIsDue
<1>2. CallInv'
  BY <1>1, UnchangedCall DEF IInv
<1>3. Found' = found /\ Worked' = work
  BY <1>1 DEF Found, Worked
<1>4. work \in SUBSET Cells /\ Cardinality(found \ work) \in Nat
  BY FiniteParts
<1>. HIDE DEF found, work
<1>5. tally' \in [processed : Nat, skipped : Nat, nan : Nat, failed : SUBSET Cells]
  BY <1>1, <1>4 DEF NoTally
<1>6. TypeOK'
  BY <1>1, <1>2, <1>4, <1>5 DEF IInv, TypeOK, CallInv, callVars
<1>7. CallOf'
  BY <1>1 DEF CallOf, callVars
<1>8. WorkIsDue'
  BY <1>1, <1>3 DEF WorkIsDue
<1>9. Accounts(todo)'
  <2>1. tally'.failed = {} /\ tally'.processed = 0 /\ tally'.nan = 0
        /\ tally'.skipped = Cardinality(found \ work)
    BY <1>1 DEF NoTally
  <2>2. Cardinality({}) = 0
    BY FS_EmptySet
  <2>3. work \ (work \cup tally'.failed) = {}
    OBVIOUS
  <2>4. /\ {c \in {} : store'[c].final # NaN} = {}
        /\ {c \in {} : store'[c].final = NaN} = {}
    OBVIOUS
  <2>. QED BY <1>1, <1>3, <2>1, <2>2, <2>3, <2>4 DEF Accounts
<1>10. ReportSoFar'
  <2>1. (todo \cup hand)' = todo'
    BY <1>1
  <2>. QED BY <1>9, <2>1 DEF ReportSoFar
<1>11. ScoresCoherent'
  BY <1>1, SameScores DEF IInv
<1>. QED BY <1>2, <1>6, <1>7, <1>8, <1>10, <1>11 DEF IInv

LEMMA StartRowHolds ==
  ASSUME IInv, NEW c \in Cells, StartRow(c)
  PROVE  IInv'
<1>1. /\ pc = "row" /\ pc' = "layer1" /\ c \in todo /\ hand = {}
      /\ todo' = todo \ {c} /\ hand' = {c}
      /\ UNCHANGED <<store, before, force, layer1, tally>>
      /\ Dial("layer1")
  BY DEF StartRow, Ask, IInv, WorkIsDue
<1>2. CallInv'
  BY <1>1, DialHolds DEF Chains
<1>3. TypeOK'
  BY <1>1, <1>2 DEF IInv, TypeOK, CallInv
<1>4. CallOf'
  BY <1>1 DEF CallOf, Dial
<1>5. Found' = Found /\ Worked' = Worked
  BY <1>1 DEF Found, Worked, NeedsProcessing
<1>6. WorkIsDue'
  BY <1>1, <1>5 DEF IInv, WorkIsDue
<1>7. ReportSoFar'
  BY <1>1, SameReport DEF IInv
<1>. QED BY <1>1, <1>2, <1>3, <1>4, <1>6, <1>7, SameScores DEF IInv

\* The vector of a call of score has a value or NaN for each metric.
LEMMA VectorHolds ==
  ASSUME IInv, pc = "layer1"
  PROVE  Vector \in Layer1Vector
<1>1. CASE status # "values"
  BY <1>1, AllNaNType DEF Vector
<1>2. CASE status = "values"
  <2>1. Fields = 2 /\ FieldOrder[1] = "answer_correctness" /\ FieldOrder[2] = "faithfulness"
    BY DEF Fields, FieldOrder
  <2>2. got \in Seq([of : Nat, is : Values]) /\ Len(got) = 2
    BY <1>2, <2>1 DEF IInv, CallInv, CallTypeOK, ValuesOfOneTry, CallOf, Units
  <2>3. \A i \in 1..2 : got[i].is \in Values
    <3>1. \A i \in 1..2 : got[i] \in [of : Nat, is : Values]
      BY <2>2, ElementOfSeq
    <3>. QED BY <3>1
  <2>4. \A m \in Layer1 : \E i \in 1..Fields : FieldOrder[i] = m
    BY <2>1 DEF Layer1
  <2>5. \A m \in Layer1 : (CHOOSE i \in 1..Fields : FieldOrder[i] = m) \in 1..2
    BY <2>1, <2>4
  <2>. QED BY <1>2, <2>3, <2>5 DEF Vector, Layer1Vector
<1>. QED BY <1>1, <1>2

LEMMA TakeLayer1Holds ==
  ASSUME IInv, TakeLayer1
  PROVE  IInv'
<1>1. /\ pc = "layer1" /\ pc' = "rubric" /\ layer1' = Vector
      /\ UNCHANGED <<store, before, force, todo, hand, tally>>
      /\ Dial("rubric")
  BY DEF TakeLayer1
<1>2. CallInv'
  BY <1>1, DialHolds DEF Chains
<1>3. layer1' \in Layer1Vector
  BY <1>1, VectorHolds
<1>4. TypeOK'
  BY <1>1, <1>2, <1>3 DEF IInv, TypeOK, CallInv
<1>5. CallOf'
  BY <1>1 DEF CallOf, Dial
<1>6. Found' = Found /\ Worked' = Worked
  BY <1>1 DEF Found, Worked, NeedsProcessing
<1>7. WorkIsDue'
  BY <1>1, <1>6 DEF IInv, WorkIsDue
<1>8. ReportSoFar'
  BY <1>1, SameReport DEF IInv
<1>. QED BY <1>1, <1>2, <1>4, <1>5, <1>7, <1>8, SameScores DEF IInv

-----------------------------------------------------------------------------
\* The row in hand is done with: what is left of the step once its effect on
\* the store and on the tally is known.
LEMMA NextRowHolds ==
  ASSUME IInv, NEW c \in hand, NextRow, pc \in {"layer1", "rubric"},
         NEW r \in Row, store' = [store EXCEPT ![c] = r],
         tally' \in [processed : Nat, skipped : Nat, nan : Nat, failed : SUBSET Cells],
         Whole(r) => r.final = FinalOf(r.metrics) /\ (~Unjudged(r) => r.regime = "judge"),
         Accounts(todo)'
  PROVE  IInv'
<1>1. /\ hand = {c} /\ c \in Cells /\ hand' = {} /\ layer1' = AllNaNLayer1
      /\ todo' = todo /\ before' = before /\ force' = force /\ HangUp
      /\ pc' = IF todo = {} THEN "reported" ELSE "row"
      /\ c \notin todo
  BY DEF NextRow, IInv, WorkIsDue, TypeOK
<1>2. CallInv' /\ status' = "idle"
  BY <1>1, HangUpHolds DEF HangUp
<1>3. store' \in [Cells -> Row] /\ store'[c] = r /\ \A d \in Cells : d # c => store'[d] = store[d]
  BY <1>1 DEF IInv, TypeOK
<1>4. layer1' \in Layer1Vector
  BY <1>1, AllNaNType
<1>5. TypeOK'
  BY <1>1, <1>2, <1>3, <1>4 DEF IInv, TypeOK, CallInv
<1>6. CallOf'
  BY <1>1, <1>2 DEF CallOf
<1>7. Found' = Found /\ Worked' = Worked
  BY <1>1 DEF Found, Worked, NeedsProcessing
<1>8. WorkIsDue'
  <2>1. \A d \in todo : d \in Worked /\ store'[d] = before[d]
    BY <1>1, <1>3 DEF IInv, WorkIsDue, TypeOK
  <2>. QED BY <1>1, <1>7, <2>1 DEF WorkIsDue
<1>9. ReportSoFar'
  BY <1>1 DEF ReportSoFar
<1>10. ScoresCoherent'
  BY <1>3 DEF IInv, ScoresCoherent
<1>. QED BY <1>2, <1>5, <1>6, <1>8, <1>9, <1>10 DEF IInv

\* One row more is scored, or excluded: the sets the tally counts gain it.
LEMMA OneMore ==
  ASSUME NEW A \in SUBSET Cells, NEW B \in SUBSET Cells, NEW c \in Cells, c \notin A,
         B = A \cup {c}
  PROVE  Cardinality(B) = Cardinality(A) + 1
BY FiniteParts, FS_AddElement

LEMMA PersistHolds ==
  ASSUME IInv, NEW c \in Cells, Persist(c)
  PROVE  IInv'
<1>. DEFINE mv == WithRubric(Layer1Only(layer1), RubricScore)
            r == UpdateMetrics(store[c], mv, FinalOf(mv), "judge", None, None)
            rest == todo \cup hand
<1>1. /\ pc = "rubric" /\ c \in hand /\ NextRow
      /\ store' = [store EXCEPT ![c] = r]
      /\ tally' = IF FinalOf(mv) = NaN THEN [tally EXCEPT !.nan = @ + 1]
                                       ELSE [tally EXCEPT !.processed = @ + 1]
  BY DEF Persist
<1>2. RubricScore \in Values
  <2>1. CASE status # "values"
    BY <2>1 DEF RubricScore, Values
  <2>2. CASE status = "values"
    <3>1. got \in Seq([of : Nat, is : Values]) /\ Len(got) = 1
      BY <1>1, <2>2 DEF IInv, CallInv, CallTypeOK, ValuesOfOneTry, CallOf, Units
    <3>2. got[1] \in [of : Nat, is : Values]
      <4>1. 1 \in 1..Len(got)
        BY <3>1
      <4>. QED BY <3>1, <4>1, ElementOfSeq
    <3>. QED BY <2>2, <3>2 DEF RubricScore
  <2>. QED BY <2>1, <2>2
<1>3. mv \in MetricVector
  BY <1>2, VectorType DEF IInv, TypeOK
<1>4. store[c] \in Row
  BY DEF IInv, TypeOK
<1>5. /\ r \in Row /\ r.metrics = mv /\ r.final = FinalOf(mv) /\ r.regime = "judge"
  BY <1>3, <1>4, UpdateMetricsType
<1>. HIDE DEF mv, r
<1>6. /\ tally \in [processed : Nat, skipped : Nat, nan : Nat, failed : SUBSET Cells]
      /\ hand = {c} /\ c \notin todo
  BY <1>1 DEF IInv, TypeOK, WorkIsDue
<1>7. tally' \in [processed : Nat, skipped : Nat, nan : Nat, failed : SUBSET Cells]
  BY <1>1, <1>6
<1>8. /\ before' = before /\ force' = force /\ todo' = todo
      /\ store'[c] = r /\ \A d \in Cells : d # c => store'[d] = store[d]
  BY <1>1 DEF NextRow, IInv, TypeOK
<1>9. Found' = Found /\ Worked' = Worked /\ Worked \in SUBSET Cells
  BY <1>8 DEF Found, Worked, NeedsProcessing
<1>10. Accounts(rest) /\ c \in Worked
  BY <1>1, <1>6 DEF IInv, ReportSoFar, WorkIsDue
<1>11. Accounts(todo)'
  <2>. DEFINE done == Worked \ (rest \cup tally.failed)
              S == {d \in done : store[d].final # NaN}
              T == {d \in done : store[d].final = NaN}
              doneNext == Worked \ (todo \cup tally.failed)
              SNext == {d \in doneNext : store'[d].final # NaN}
              TNext == {d \in doneNext : store'[d].final = NaN}
  <2>1. /\ tally.failed \subseteq Worked \ rest
        /\ tally.skipped = Cardinality(Found \ Worked)
        /\ tally.processed = Cardinality(S)
        /\ tally.nan = Cardinality(T)
        /\ \A d \in tally.failed : Whole(store[d]) => store[d] = before[d]
    BY <1>10 DEF Accounts
  <2>2. tally'.failed = tally.failed /\ tally'.skipped = tally.skipped
    BY <1>1, <1>6
  <2>3. doneNext = done \cup {c} /\ c \notin done /\ done \in SUBSET Cells
    BY <1>6, <1>9, <1>10, <2>1
  <2>4. c \notin tally.failed /\ tally.failed \subseteq Cells
    BY <1>6, <1>9, <2>1
  <2>5. S \in SUBSET Cells /\ T \in SUBSET Cells /\ c \notin S /\ c \notin T
    BY <2>3
  <2>. HIDE DEF done
  <2>6. CASE FinalOf(mv) = NaN
    <3>1. SNext = S /\ TNext = T \cup {c}
      BY <1>5, <1>8, <2>3, <2>6
    <3>2. tally'.processed = tally.processed /\ tally'.nan = tally.nan + 1
      BY <1>1, <1>6, <2>6
    <3>3. Cardinality(TNext) = Cardinality(T) + 1
      BY <2>5, <3>1, OneMore
    <3>4. tally'.processed = Cardinality(SNext) /\ tally'.nan = Cardinality(TNext)
      BY <2>1, <3>1, <3>2, <3>3
    <3>. QED BY <1>8, <1>9, <2>1, <2>2, <2>4, <3>4 DEF Accounts
  <2>7. CASE FinalOf(mv) # NaN
    <3>1. SNext = S \cup {c} /\ TNext = T
      BY <1>5, <1>8, <2>3, <2>7
    <3>2. tally'.processed = tally.processed + 1 /\ tally'.nan = tally.nan
      BY <1>1, <1>6, <2>7
    <3>3. Cardinality(SNext) = Cardinality(S) + 1
      BY <2>5, <3>1, OneMore
    <3>4. tally'.processed = Cardinality(SNext) /\ tally'.nan = Cardinality(TNext)
      BY <2>1, <3>1, <3>2, <3>3
    <3>. QED BY <1>8, <1>9, <2>1, <2>2, <2>4, <3>4 DEF Accounts
  <2>. QED BY <2>6, <2>7
<1>. QED BY <1>1, <1>5, <1>7, <1>11, NextRowHolds

\* A row that fails is noted, and what is left of it is the row it was or
\* nothing that can be read.
LEMMA FailureHolds ==
  ASSUME IInv, NEW c \in hand, NextRow, pc \in {"layer1", "rubric"},
         NEW r \in Row, store' = [store EXCEPT ![c] = r], Whole(r) => r = store[c],
         tally' = [tally EXCEPT !.failed = @ \cup {c}]
  PROVE  IInv'
<1>. DEFINE rest == todo \cup hand
<1>1. /\ tally \in [processed : Nat, skipped : Nat, nan : Nat, failed : SUBSET Cells]
      /\ hand = {c} /\ c \in Cells /\ c \notin todo
  BY DEF IInv, TypeOK, WorkIsDue
<1>2. tally' \in [processed : Nat, skipped : Nat, nan : Nat, failed : SUBSET Cells]
  BY <1>1
<1>3. /\ before' = before /\ force' = force /\ todo' = todo
      /\ store'[c] = r /\ \A d \in Cells : d # c => store'[d] = store[d]
  BY <1>1 DEF NextRow, IInv, TypeOK
<1>4. Found' = Found /\ Worked' = Worked /\ Worked \in SUBSET Cells
  BY <1>3 DEF Found, Worked, NeedsProcessing
<1>5. Accounts(rest) /\ c \in Worked /\ store[c] = before[c]
  BY <1>1 DEF IInv, ReportSoFar, WorkIsDue
<1>6. Accounts(todo)'
  <2>. DEFINE done == Worked \ (rest \cup tally.failed)
  <2>1. /\ tally.failed \subseteq Worked \ rest
        /\ tally.skipped = Cardinality(Found \ Worked)
        /\ tally.processed = Cardinality({d \in done : store[d].final # NaN})
        /\ tally.nan = Cardinality({d \in done : store[d].final = NaN})
        /\ \A d \in tally.failed : Whole(store[d]) => store[d] = before[d]
    BY <1>5 DEF Accounts
  <2>2. /\ tally'.failed = tally.failed \cup {c} /\ tally'.skipped = tally.skipped
        /\ tally'.processed = tally.processed /\ tally'.nan = tally.nan
    BY <1>1
  <2>3. Worked \ (todo \cup tally'.failed) = done
    BY <1>1, <2>2
  <2>4. \A d \in done : store'[d] = store[d]
    BY <1>1, <1>3, <1>4
  <2>. HIDE DEF done
  <2>5. done \subseteq Worked
    BY DEF done
  <2>6. /\ {d \in done : store'[d].final # NaN} = {d \in done : store[d].final # NaN}
        /\ {d \in done : store'[d].final = NaN} = {d \in done : store[d].final = NaN}
    BY <2>4
  <2>7. tally'.failed \subseteq Worked \ todo
    BY <1>1, <1>5, <2>1, <2>2
  <2>8. \A d \in tally'.failed : Whole(store'[d]) => store'[d] = before[d]
    BY <1>1, <1>3, <1>4, <1>5, <2>1, <2>2
  <2>. QED BY <1>3, <1>4, <2>1, <2>2, <2>3, <2>6, <2>7, <2>8 DEF Accounts
<1>7. Whole(r) => r.final = FinalOf(r.metrics) /\ (~Unjudged(r) => r.regime = "judge")
  BY <1>1 DEF IInv, ScoresCoherent
<1>. QED BY <1>2, <1>6, <1>7, NextRowHolds

LEMMA RowFailsHolds ==
  ASSUME IInv, NEW c \in Cells,
         RowFails(c) \/ \E left \in FailedWrite(store[c]) : WriteFails(c, left)
  PROVE  IInv'
<1>1. store \in [Cells -> Row]
  BY DEF IInv, TypeOK
<1>2. CASE RowFails(c)
  <2>1. store' = [store EXCEPT ![c] = store[c]]
    BY <1>1, <1>2 DEF RowFails
  <2>. QED BY <1>1, <1>2, <2>1, FailureHolds DEF RowFails
<1>3. ASSUME NEW left \in FailedWrite(store[c]), WriteFails(c, left)
      PROVE  IInv'
  <2>1. left \in Row /\ (Whole(left) => left = store[c])
    BY <1>1, FailedWriteType
  <2>. QED BY <1>3, <2>1, FailureHolds DEF WriteFails
<1>. QED BY <1>2, <1>3

-----------------------------------------------------------------------------
\* An execution that is over, or was killed, has left nothing behind but rows.
LEMMA OverHolds ==
  ASSUME IInv, pc' = "idle", before' = NoRows, force' = FALSE, todo' = {}, hand' = {},
         layer1' \in Layer1Vector, tally' = NoTally, CallInv',
         NEW left \in [Cells -> Row], store' = left,
         \A c \in Cells : Whole(left[c]) => left[c] = store[c]
  PROVE  IInv'
<1>1. force' \in BOOLEAN
  BY Zenon
<1>2. TypeOK'
  BY <1>1, EmptyTally DEF TypeOK, CallInv
<1>3. CallOf' /\ WorkIsDue' /\ ReportSoFar'
  BY DEF CallOf, WorkIsDue, ReportSoFar
<1>4. ScoresCoherent'
  BY DEF IInv, ScoresCoherent
<1>. QED BY <1>2, <1>3, <1>4 DEF IInv

LEMMA ReportHolds ==
  ASSUME IInv, Report
  PROVE  IInv'
<1>1. CallInv'
  BY UnchangedCall DEF Report, IInv
<1>2. /\ todo' = {} /\ hand' = {} /\ layer1' \in Layer1Vector
      /\ store \in [Cells -> Row] /\ store' = store
  BY DEF Report, IInv, TypeOK, WorkIsDue
<1>. QED BY <1>1, <1>2, OverHolds DEF Report

LEMMA KillHolds ==
  ASSUME IInv, Kill
  PROVE  IInv'
<1>1. CallInv'
  BY HangUpHolds DEF Kill
<1>2. layer1' \in Layer1Vector
  BY AllNaNType DEF Kill
<1>3. store \in [Cells -> Row] /\ hand \subseteq Cells
  BY DEF IInv, TypeOK
<1>4. TornRow \in Row /\ ~Whole(TornRow)
  <2>1. TornRow \in Row
    BY SentinelAssumption, RowOfType DEF TornRow
  <2>. QED BY <2>1 DEF TornRow, RowOf, Whole
<1>5. CASE UNCHANGED store
  BY <1>1, <1>2, <1>3, <1>5, OverHolds DEF Kill
<1>6. CASE \E c \in hand : store' = [store EXCEPT ![c] = TornRow]
  <2>1. PICK c \in hand : store' = [store EXCEPT ![c] = TornRow]
    BY <1>6
  <2>2. /\ store' \in [Cells -> Row]
        /\ \A d \in Cells : Whole(store'[d]) => store'[d] = store[d]
    BY <1>3, <1>4, <2>1
  <2>. QED BY <1>1, <1>2, <2>2, OverHolds DEF Kill
<1>. QED BY <1>5, <1>6 DEF Kill

\* A step of a call, or a call of a pass.
LEMMA CallsHold ==
  ASSUME IInv, UNCHANGED useCaseVars, CallInv',
         \/ chain' = chain /\ status # "idle" /\ status' # "idle"
         \/ pc = "idle"
         \/ UNCHANGED callVars
  PROVE  IInv'
<1>1. TypeOK'
  BY DEF IInv, TypeOK, CallInv, useCaseVars
<1>2. CallOf'
  BY DEF IInv, CallOf, useCaseVars, callVars
<1>3. WorkIsDue'
  BY DEF IInv, WorkIsDue, useCaseVars, Worked, Found, NeedsProcessing
<1>4. ReportSoFar'
  BY SameReport DEF IInv, useCaseVars
<1>5. ScoresCoherent'
  BY SameScores DEF IInv, useCaseVars
<1>. QED BY <1>1, <1>2, <1>3, <1>4, <1>5 DEF IInv

\* Every step keeps the inductive invariant.
LEMMA StepHolds == IInv /\ [Next]_vars => IInv'
<1>. SUFFICES ASSUME IInv, [Next]_vars PROVE IInv'
  OBVIOUS
<1>1. CASE \E f \in BOOLEAN : Execute(f)
  BY <1>1, ExecuteHolds
<1>2. CASE \E c \in {"generate", "batch", "judge"} : PassAsks(c)
  BY <1>2, DialHolds, CallsHold DEF PassAsks, Ask, Chains
<1>3. ASSUME NEW c \in Cells, StartRow(c) \/ Persist(c) \/ RowFails(c)
      PROVE  IInv'
  BY <1>3, StartRowHolds, PersistHolds, RowFailsHolds
<1>4. CASE TakeLayer1
  BY <1>4, TakeLayer1Holds
<1>5. CASE Report
  BY <1>5, ReportHolds
<1>6. CASE PassTakes
  BY <1>6, HangUpHolds, CallsHold DEF PassTakes
<1>7. CASE Call
  <2>1. CallInv' /\ chain' = chain /\ status = "asking" /\ status' # "idle"
    BY <1>7, CallStepHolds DEF Call, IInv
  <2>. QED BY <1>7, <2>1, CallsHold DEF Call
<1>8. CASE \E c \in Cells : \E left \in FailedWrite(store[c]) : WriteFails(c, left)
  BY <1>8, RowFailsHolds
<1>9. CASE Kill
  BY <1>9, KillHolds
<1>10. CASE UNCHANGED vars
  BY <1>10, UnchangedCall, CallsHold DEF vars, IInv
<1>. QED BY <1>1, <1>2, <1>3, <1>4, <1>5, <1>6, <1>7, <1>8, <1>9, <1>10 DEF Next, Progress, UseCase

-----------------------------------------------------------------------------
\* The inductive invariant: what is called for whom, what is still due, what
\* the tally counts, and what the scores come from.
THEOREM Invariant == Spec => []IInv
BY InitHolds, StepHolds, PTL DEF Spec

\* However retries are nested, those of RAGAS and of its client included, a call
\* sends no more requests than the product of its loops: the caller's tries, the
\* values, their prompts, the tries of a prompt and those of a request.
THEOREM RequestsAlwaysBounded == Spec => []RequestsBounded
<1>1. IInv => RequestsBounded
  BY DEF IInv, CallInv
<1>. QED BY <1>1, Invariant, PTL

\* The report of an execution accounts for every row of the round and agrees
\* with the store, whichever rows failed and however.
THEOREM ReportAlwaysAccounts == Spec => []ReportAccounts
<1>1. IInv => ReportAccounts
  <2>. SUFFICES ASSUME IInv, pc = "reported" PROVE Accounts({})
    BY DEF ReportAccounts
  <2>1. todo \cup hand = {}
    BY DEF IInv, WorkIsDue
  <2>. QED BY <2>1 DEF IInv, ReportSoFar
<1>. QED BY <1>1, Invariant, PTL

\* Without force an execution leaves a row that has its score alone.
THEOREM ScoredRowsKept == Spec => ScoredKept
<1>1. IInv /\ [Next]_vars =>
        [\A c \in Cells : (Whole(store[c]) /\ store[c].final # NaN /\ ~force) =>
           store'[c] = store[c]]_vars
  <2>. SUFFICES ASSUME IInv, Next, NEW c \in Cells,
                       Whole(store[c]), store[c].final # NaN, ~force
                PROVE  store'[c] = store[c]
    OBVIOUS
  <2>1. store \in [Cells -> Row]
    BY DEF IInv, TypeOK
  <2>2. c \notin hand
    BY DEF IInv, WorkIsDue, Worked, NeedsProcessing
  <2>3. \/ UNCHANGED store
        \/ \E d \in Cells : d \in hand /\ \A e \in Cells : e # d => store'[e] = store[e]
    BY <2>1 DEF Next, Progress, UseCase, Execute, PassAsks, StartRow, Persist, RowFails, TakeLayer1,
                Report, PassTakes, Call, WriteFails, Kill, useCaseVars, IInv, TypeOK
  <2>. QED BY <2>2, <2>3
<1>. QED BY <1>1, Invariant, PTL DEF Spec, ScoredKept

=============================================================================
