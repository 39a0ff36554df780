--------------------------- MODULE AirQuality_proofs ---------------------------
(***************************************************************************)
(* Proofs about AirQuality, for every length of the window, all nodes,     *)
(* counters and values.                                                    *)
(*                                                                         *)
(* The inductive invariant grows with what is asked of it: FrameOK says    *)
(* what macMsgData and ack_msg hold, WInv which hour each element of the   *)
(* window is, SlotOK and CalOK of which type the values are, LatestOK and  *)
(* MeanOK what a calculation may have read of the stores that overlap it,  *)
(* AqiOK what one that is not touched has computed so far.                 *)
(*                                                                         *)
(* What a recursive function computes is proved by induction over the set  *)
(* of the numbers for which it holds (NatSet).                             *)
(***************************************************************************)
EXTENDS AirQuality, LoRaMacFrame_proofs, SequenceTheorems, WellFoundedInduction, TLAPS

\* The constants' types.
LEMMA Constants ==
    ASSUME AirAssumption
    PROVE  /\ Hours \in Nat /\ Hours > 2 /\ Junk \subseteq Int
           /\ Dust \subseteq Nat /\ Gas \subseteq Int
<1>1. Hours \in Nat /\ Hours > 2 /\ Junk \subseteq Int /\ Dust \subseteq Nat
    BY DEF AirAssumption
<1>2. GasAbove \subseteq Nat /\ GasBelow \subseteq Nat
    BY DEF AirAssumption
<1>3. ASSUME NEW y \in Gas PROVE y \in Int
    <2>1. CASE y \in GasAbove
        BY <1>2, <2>1
    <2>2. CASE y \in {-x : x \in GasBelow}
        <3>1. PICK x \in GasBelow : y = -x
            BY <2>2
        <3>2. x \in Nat
            BY <1>2
        <3>. QED
            BY <3>1, <3>2
    <2>. QED
        BY <1>3, <2>1, <2>2 DEF Gas
<1>. QED
    BY <1>1, <1>3
------------------------------------------------------------------------------
(* Induction; powers, sums, ends of sets and fractions. *)

\* Induction over the natural numbers, on a set of them.
LEMMA NatSet ==
    ASSUME NEW S, 0 \in S, \A k \in Nat : k \in S => k + 1 \in S
    PROVE  \A k \in Nat : k \in S
<1> DEFINE R == OpToRel(<, Nat)
           T == Nat \ S
<1>1. \A x, y \in Nat : x < y => <<x, y>> \in R
    BY DEF OpToRel
<1>2. IsWellFoundedOn(R, Nat)
    BY NatLessThanWellFounded
<1>3. SUFFICES ASSUME T # {} PROVE FALSE
    OBVIOUS
<1>4. T \subseteq Nat
    OBVIOUS
<1> HIDE DEF R, T
<1>5. PICK x \in T : \A y \in T : ~(<<y, x>> \in R)
    BY <1>2, <1>3, <1>4, WFMin
<1>6. x \in Nat /\ x \notin S
    BY DEF T
<1>7. x - 1 \in Nat /\ x - 1 < x
    BY <1>6
<1>8. x - 1 \notin S
    BY <1>6, <1>7
<1>. QED
    BY <1>1, <1>5, <1>6, <1>7, <1>8 DEF T

\* The first z + 1 values of a recursion with the first value c and the step D.
Begins(h, z, c, D) == /\ h \in [0 .. z -> Int] /\ h[0] = c
                      /\ \A k \in 1 .. z : h[k] = D[<<h[k - 1], k>>]

\* Two of them agree as far as both go.
LEMMA BeginsUnique ==
    ASSUME NEW c \in Int, NEW D \in [Int \X Nat -> Int],
           NEW m \in Nat, NEW z \in Nat, m <= z,
           NEW g, Begins(g, m, c, D), NEW h, Begins(h, z, c, D)
    PROVE  \A k \in 0 .. m : g[k] = h[k]
<1> DEFINE S == {k \in Nat : k <= m => g[k] = h[k]}
<1>1. 0 \in S
    BY DEF Begins
<1>2. ASSUME NEW k \in Nat, k \in S PROVE k + 1 \in S
    <2>1. SUFFICES ASSUME k + 1 <= m PROVE g[k + 1] = h[k + 1]
        OBVIOUS
    <2>2. g[k] = h[k] /\ k + 1 \in 1 .. m /\ k + 1 \in 1 .. z /\ (k + 1) - 1 = k
        BY <1>2, <2>1
    <2>. QED
        BY <2>2 DEF Begins
<1> HIDE DEF S
<1>3. \A k \in Nat : k \in S
    BY <1>1, <1>2, NatSet
<1>. QED
    BY <1>3 DEF S

\* So there is a function that is one at every length.
LEMMA Recursion ==
    ASSUME NEW c \in Int, NEW D \in [Int \X Nat -> Int]
    PROVE  \E g \in [Nat -> Int] :
               g[0] = c /\ \A k \in Nat : g[k + 1] = D[<<g[k], k + 1>>]
<1> DEFINE S == {z \in Nat : \E h : Begins(h, z, c, D)}
<1>1. 0 \in S
    <2>1. Begins([k \in 0 .. 0 |-> c], 0, c, D)
        BY DEF Begins
    <2>. QED
        BY <2>1
<1>2. ASSUME NEW z \in Nat, z \in S PROVE z + 1 \in S
    <2>1. PICK h : Begins(h, z, c, D)
        BY <1>2
    <2> DEFINE e == [k \in 0 .. z + 1 |-> IF k = z + 1 THEN D[<<h[z], z + 1>>] ELSE h[k]]
    <2>2. h \in [0 .. z -> Int] /\ D[<<h[z], z + 1>>] \in Int
        BY <2>1 DEF Begins
    <2>3. e \in [0 .. z + 1 -> Int] /\ e[0] = c
        BY <2>1, <2>2 DEF Begins
    <2>4. ASSUME NEW k \in 1 .. z + 1 PROVE e[k] = D[<<e[k - 1], k>>]
        <3>1. CASE k = z + 1
            <4>1. e[k] = D[<<h[z], z + 1>>] /\ k - 1 = z /\ e[z] = h[z]
                BY <3>1
            <4>. QED
                BY <3>1, <4>1
        <3>2. CASE k <= z
            <4>1. k \in 1 .. z /\ e[k] = h[k] /\ e[k - 1] = h[k - 1]
                BY <3>2
            <4>. QED
                BY <2>1, <4>1 DEF Begins
        <3>. QED
            BY <3>1, <3>2
    <2>5. Begins(e, z + 1, c, D)
        <3> HIDE DEF e
        <3>. QED
            BY <2>3, <2>4 DEF Begins
    <2>. QED
        BY <2>5
<1> HIDE DEF S
<1>3. \A z \in Nat : z \in S
    BY <1>1, <1>2, NatSet
<1> DEFINE H(z) == CHOOSE h : Begins(h, z, c, D)
           g == [z \in Nat |-> H(z)[z]]
<1>4. \A z \in Nat : Begins(H(z), z, c, D)
    BY <1>3 DEF S
<1> HIDE DEF H
<1>5. \A z \in Nat : H(z)[z] \in Int
    BY <1>4 DEF Begins
<1>6. g \in [Nat -> Int] /\ g[0] = c
    BY <1>4, <1>5 DEF Begins
<1>7. ASSUME NEW k \in Nat PROVE g[k + 1] = D[<<g[k], k + 1>>]
    <2>1. Begins(H(k), k, c, D) /\ Begins(H(k + 1), k + 1, c, D)
        BY <1>4
    <2>2. H(k)[k] = H(k + 1)[k]
        <3>1. k + 1 \in Nat /\ k <= k + 1 /\ k \in 0 .. k
            OBVIOUS
        <3>2. \A i \in 0 .. k : H(k)[i] = H(k + 1)[i]
            BY <2>1, <3>1, BeginsUnique
        <3>. QED
            BY <3>1, <3>2
    <2>3. H(k + 1)[k + 1] = D[<<H(k + 1)[(k + 1) - 1], k + 1>>] /\ (k + 1) - 1 = k
        BY <2>1 DEF Begins
    <2>. QED
        BY <2>2, <2>3
<1> HIDE DEF g
<1>. QED
    BY <1>6, <1>7

\* Power is what its definition says: there is a function that satisfies it.
LEMMA PowerStep ==
    ASSUME NEW b \in Int
    PROVE  /\ Power(b, 0) = 1
           /\ \A k \in Nat : Power(b, k) \in Int /\ Power(b, k + 1) = b * Power(b, k)
<1> DEFINE D == [x \in Int \X Nat |-> b * x[1]]
           Def(f) == [j \in Nat |-> IF j = 0 THEN 1 ELSE b * f[j - 1]]
           power == CHOOSE f : f = Def(f)
<1>1. D \in [Int \X Nat -> Int] /\ \A x \in Int, k \in Nat : D[<<x, k>>] = b * x
    OBVIOUS
<1>2. PICK g \in [Nat -> Int] : g[0] = 1 /\ \A k \in Nat : g[k + 1] = D[<<g[k], k + 1>>]
    <2>1. 1 \in Int
        OBVIOUS
    <2> HIDE DEF D
    <2>. QED
        BY <1>1, <2>1, Recursion
<1>3. g = Def(g)
    <2>1. \A j \in Nat : g[j] = IF j = 0 THEN 1 ELSE b * g[j - 1]
        <3> TAKE j \in Nat
        <3>1. CASE j = 0
            BY <1>2, <3>1
        <3>2. CASE j # 0
            <4>1. j - 1 \in Nat /\ (j - 1) + 1 = j /\ g[j - 1] \in Int
                BY <3>2
            <4>. QED
                BY <1>1, <1>2, <3>2, <4>1
        <3>. QED
            BY <3>1, <3>2
    <2>. QED
        BY <2>1
<1>4. power = Def(power)
    BY <1>3
<1>5. \A k : Power(b, k) = power[k]
    BY DEF Power
<1> HIDE DEF power
<1>6. power[0] = 1 /\ \A k \in Nat : power[k + 1] = b * power[k]
    BY <1>4
<1> DEFINE S == {k \in Nat : power[k] \in Int}
<1>7. 0 \in S /\ \A k \in Nat : k \in S => k + 1 \in S
    BY <1>6
<1> HIDE DEF S
<1>8. \A k \in Nat : k \in S
    BY <1>7, NatSet
<1>. QED
    BY <1>5, <1>6, <1>8 DEF S

\* Sum is the last of the partial sums.
LEMMA SumStep ==
    ASSUME Hours \in Nat, NEW f \in [Slot -> Int]
    PROVE  \E s \in [0 .. Hours -> Int] : /\ s[0] = 0 /\ s[Hours] = Sum(f)
                         /\ \A i \in 1 .. Hours : s[i] = s[i - 1] + f[i]
<1> DEFINE D == [x \in Int \X Nat |-> x[1] + IF x[2] \in Slot THEN f[x[2]] ELSE 0]
           Def(s) == [i \in 0 .. Hours |-> IF i = 0 THEN 0 ELSE s[i - 1] + f[i]]
           sum == CHOOSE s : s = Def(s)
<1>1. /\ D \in [Int \X Nat -> Int]
      /\ \A x \in Int, k \in Slot : D[<<x, k>>] = x + f[k]
    BY DEF Slot
<1>2. PICK g \in [Nat -> Int] : g[0] = 0 /\ \A k \in Nat : g[k + 1] = D[<<g[k], k + 1>>]
    <2>1. 0 \in Int
        OBVIOUS
    <2> HIDE DEF D
    <2>. QED
        BY <1>1, <2>1, Recursion
<1> HIDE DEF D
<1> DEFINE h == [i \in 0 .. Hours |-> g[i]]
<1>3. h = Def(h)
    <2>1. \A i \in 0 .. Hours : g[i] = IF i = 0 THEN 0 ELSE h[i - 1] + f[i]
        <3> TAKE i \in 0 .. Hours
        <3>1. CASE i = 0
            BY <1>2, <3>1
        <3>2. CASE i # 0
            <4>1. /\ i - 1 \in Nat /\ (i - 1) + 1 = i /\ g[i - 1] \in Int /\ i \in Slot
                  /\ i - 1 \in 0 .. Hours
                BY <3>2 DEF Slot
            <4>2. g[(i - 1) + 1] = g[i - 1] + f[i]
                BY <1>1, <1>2, <4>1
            <4>. QED
                BY <3>2, <4>1, <4>2
        <3>. QED
            BY <3>1, <3>2
    <2>. QED
        BY <2>1
<1>4. sum = Def(sum)
    BY <1>3
<1>5. Sum(f) = sum[Hours]
    BY DEF Sum
<1> HIDE DEF sum
<1>6. sum[0] = 0 /\ \A i \in 1 .. Hours : sum[i] = sum[i - 1] + f[i]
    BY <1>4
<1> DEFINE S == {k \in Nat : k <= Hours => sum[k] \in Int}
<1>7. 0 \in S
    BY <1>6
<1>8. ASSUME NEW k \in Nat, k \in S PROVE k + 1 \in S
    <2>1. SUFFICES ASSUME k + 1 <= Hours PROVE sum[k + 1] \in Int
        OBVIOUS
    <2>2. k + 1 \in 1 .. Hours /\ k + 1 \in Slot /\ sum[k] \in Int
        BY <1>8, <2>1 DEF Slot
    <2>. QED
        BY <1>6, <2>2
<1> HIDE DEF S
<1>9. \A k \in Nat : k \in S
    BY <1>7, <1>8, NatSet
<1>10. sum = [i \in 0 .. Hours |-> sum[i]]
    BY <1>4
<1>11. sum \in [0 .. Hours -> Int]
    BY <1>9, <1>10 DEF S
<1>. QED
    BY <1>5, <1>6, <1>11

\* Powers of a number that is not negative are not negative, those of 2 are more than 0.
LEMMA PowerSign ==
    ASSUME NEW b \in Nat
    PROVE  \A k \in Nat : Power(b, k) \in Nat /\ (b > 0 => Power(b, k) > 0)
<1>1. /\ Power(b, 0) = 1
      /\ \A k \in Nat : Power(b, k) \in Int /\ Power(b, k + 1) = b * Power(b, k)
    BY PowerStep
<1> DEFINE S == {k \in Nat : Power(b, k) \in Nat /\ (b > 0 => Power(b, k) > 0)}
<1>2. 0 \in S
    BY <1>1
<1>3. ASSUME NEW k \in Nat, k \in S PROVE k + 1 \in S
    <2>1. Power(b, k) \in Nat /\ (b > 0 => Power(b, k) > 0)
        BY <1>3
    <2>2. Power(b, k + 1) = b * Power(b, k)
        BY <1>1
    <2>3. \A x \in Nat : b * x \in Nat /\ (b > 0 /\ x > 0 => b * x > 0)
        OBVIOUS
    <2>. QED
        BY <2>1, <2>2, <2>3
<1> HIDE DEF S
<1>4. \A k \in Nat : k \in S
    BY <1>2, <1>3, NatSet
<1>. QED
    BY <1>4 DEF S

\* Max and Min of a set are its element that is at one end.
LEMMA MaxIs ==
    ASSUME NEW S \in SUBSET Int, NEW x \in S
    PROVE  /\ (\A y \in S : x >= y) => Max(S) = x
           /\ (\A y \in S : x <= y) => Min(S) = x
<1>1. ASSUME \A y \in S : x >= y PROVE Max(S) = x
    <2> DEFINE m == CHOOSE m \in S : \A y \in S : m >= y
    <2>1. m \in S /\ \A y \in S : m >= y
        BY <1>1
    <2>2. Max(S) = m
        BY DEF Max
    <2> HIDE DEF m
    <2>3. m >= x /\ x >= m /\ m \in Int /\ x \in Int
        BY <1>1, <2>1
    <2>. QED
        BY <2>2, <2>3
<1>2. ASSUME \A y \in S : x <= y PROVE Min(S) = x
    <2> DEFINE m == CHOOSE m \in S : \A y \in S : m <= y
    <2>1. m \in S /\ \A y \in S : m <= y
        BY <1>2
    <2>2. Min(S) = m
        BY DEF Min
    <2> HIDE DEF m
    <2>3. m <= x /\ x <= m /\ m \in Int /\ x \in Int
        BY <1>2, <2>1
    <2>. QED
        BY <2>2, <2>3
<1>. QED
    BY <1>1, <1>2

\* The hours of a past and one more have a least and a greatest.
LEMMA HoursHaveEnds ==
    ASSUME NEW s \in Seq(Int), NEW x \in Int, NEW S, S = Range(s) \cup {x}
    PROVE  /\ S \subseteq Int
           /\ Max(S) \in S /\ \A y \in S : Max(S) >= y
           /\ Min(S) \in S /\ \A y \in S : Min(S) <= y
<1>1. Len(s) \in Nat /\ DOMAIN s = 1 .. Len(s) /\ \A i \in 1 .. Len(s) : s[i] \in Int
    OBVIOUS
<1> DEFINE First(k) == {s[i] : i \in 1 .. k} \cup {x}
           Ends(A) == /\ \E a \in A : \A y \in A : a >= y
                      /\ \E a \in A : \A y \in A : a <= y
           T == {k \in Nat : k <= Len(s) => Ends(First(k))}
<1>2. 0 \in T
    <2>1. First(0) = {x} /\ Ends({x})
        OBVIOUS
    <2> HIDE DEF First, Ends
    <2>. QED
        BY <2>1
<1>3. ASSUME NEW k \in Nat, k \in T PROVE k + 1 \in T
    <2>1. SUFFICES ASSUME k + 1 <= Len(s) PROVE Ends(First(k + 1))
        OBVIOUS
    <2>2. Ends(First(k))
        <3> HIDE DEF First, Ends
        <3>. QED
            BY <1>1, <1>3, <2>1
    <2>3. PICK a \in First(k), c \in First(k) : \A y \in First(k) : a >= y /\ c <= y
        <3> HIDE DEF First
        <3>. QED
            BY <2>2
    <2>4. s[k + 1] \in Int /\ \A y \in First(k) : y \in Int
        BY <1>1, <2>1
    <2>5. First(k + 1) = First(k) \cup {s[k + 1]}
        <3>1. \A i \in 1 .. k + 1 : i \in 1 .. k \/ i = k + 1
            OBVIOUS
        <3>2. \A i \in 1 .. k : i \in 1 .. k + 1
            OBVIOUS
        <3>3. k + 1 \in 1 .. k + 1
            OBVIOUS
        <3>. QED
            BY <3>1, <3>2, <3>3
    <2> HIDE DEF First
    <2>6. \E b \in First(k) \cup {s[k + 1]} : \A y \in First(k) \cup {s[k + 1]} : b >= y
        <3>1. CASE a >= s[k + 1]
            BY <2>3, <2>4, <3>1
        <3>2. CASE ~(a >= s[k + 1])
            BY <2>3, <2>4, <3>2
        <3>. QED
            BY <3>1, <3>2
    <2>7. \E b \in First(k) \cup {s[k + 1]} : \A y \in First(k) \cup {s[k + 1]} : b <= y
        <3>1. CASE c <= s[k + 1]
            BY <2>3, <2>4, <3>1
        <3>2. CASE ~(c <= s[k + 1])
            BY <2>3, <2>4, <3>2
        <3>. QED
            BY <3>1, <3>2
    <2>. QED
        BY <2>5, <2>6, <2>7
<1>4. S = First(Len(s))
    BY <1>1 DEF Range
<1>5. \A k \in Nat : k \in T
    <2> HIDE DEF T
    <2>. QED
        BY <1>2, <1>3, NatSet
<1>6. Ends(S)
    <2> HIDE DEF First, Ends
    <2>1. \A k \in Nat : k <= Len(s) => Ends(First(k))
        BY <1>5
    <2>2. Ends(First(Len(s)))
        BY <1>1, <2>1
    <2>. QED
        BY <1>4, <2>2
<1>7. S \subseteq Int
    BY <1>1 DEF Range
<1>8. PICK a \in S, c \in S : \A y \in S : a >= y /\ c <= y
    BY <1>6
<1>9. Max(S) = a /\ Min(S) = c
    BY <1>7, <1>8, MaxIs
<1>. QED
    BY <1>7, <1>8, <1>9

\* A fraction of a, cut to an integer, is between 0 and a.
LEMMA Fraction ==
    ASSUME NEW a \in Nat, NEW x \in Nat, NEW u \in Nat, u > 0, x <= u
    PROVE  /\ (a * x) \div u \in 0 .. a
           /\ ((a * x) \div u) * u <= a * x
           /\ a * x < ((a * x) \div u + 1) * u
<1> DEFINE p == a * x
           q == p \div u
<1>1. p \in Nat /\ p <= a * u
    OBVIOUS
<1> HIDE DEF p
<1>2. q \in Int /\ u * q <= p /\ p < u * q + u
    BY <1>1
<1> HIDE DEF q
<1>3. q >= 0
    <2>1. SUFFICES ASSUME q <= -1 PROVE FALSE
        BY <1>2
    <2>2. u * q <= u * (-1)
        BY <1>2, <2>1
    <2>. QED
        BY <1>1, <1>2, <2>2
<1>4. q <= a
    <2>1. SUFFICES ASSUME q >= a + 1 PROVE FALSE
        BY <1>2
    <2>2. u * q >= u * (a + 1) /\ u * (a + 1) = a * u + u
        BY <1>2, <2>1
    <2>. QED
        BY <1>1, <1>2, <2>2
<1>5. q * u <= p /\ p < (q + 1) * u
    BY <1>2
<1>. QED
    BY <1>3, <1>4, <1>5, <1>2 DEF p, q
------------------------------------------------------------------------------
(* What thread_up holds of the packets. *)

\* The address is one of the network.
FromNode(msg) == msg.DevAddr[3] = 255 /\ msg.DevAddr[4] = 255

\* What a packet leaves in macMsgData. what is the frame, or NoNode.
Arrived(msg, what) ==
    /\ msg \in Message(12, 2) /\ what \in Sent \cup {NoNode}
    /\ \A i \in 1 .. 4 : msg.DevAddr[i] = msg.Buffer[i + 1]
    /\ FromNode(msg) =>
          /\ \E f \in Sent : /\ msg.DevAddr = NetworkAddr(f.node)
                             /\ msg.FRMPayload[1] = f.dust /\ msg.FRMPayload[2] = f.gas
          /\ what = NoNode => msg.BufSize <= 4
          /\ what # NoNode => /\ msg.DevAddr = NetworkAddr(what.node)
                              /\ msg.FCnt = what.cnt
                              /\ msg.FRMPayload[1] = what.dust
                              /\ msg.FRMPayload[2] = what.gas

\* What thread_up holds: its acknowledgement is to the address in macMsgData.
FrameOK ==
    /\ Arrived(macMsgData, sent) /\ ackMsg \in Message(12, 2)
    /\ upPc \in {"pm", "co"} => FromNode(macMsgData)
    /\ upPc = "co" => macMsgData.DevAddr[1] = Own
    /\ upPc = "pm" => \E m \in Message(12, 2) :
           ackMsg = SetUpACKMessage(m, macMsgData.DevAddr, macMsgData.FCnt)

\* The frames of this system fit their messages.
LEMMA RoomOfFrames == Room(12, 2)
BY DEF Room, HeaderSize

\* So does a message after "= {0}".
LEMMA ZeroIsMessage == ZeroFrame \in Message(12, 2)
BY DEF ZeroFrame, ZeroMessage, Message, Bytes

\* What nodes send.
LEMMA SentType ==
    ASSUME AirAssumption, NEW f \in Sent
    PROVE  /\ f.node \in NodeSet /\ f.node \in Byte /\ f.cnt \in Cnt /\ f.cnt \in Word
           /\ f.dust \in Dust /\ f.gas \in Gas /\ f.dust \in Int /\ f.gas \in Int
           /\ f # NoNode
<1>1. /\ Own \in Byte /\ Others \subseteq Byte /\ Cnt \subseteq Word /\ Dust \subseteq Int
      /\ GasAbove \subseteq Int /\ Gas \subseteq Int /\ GasAbove \subseteq Gas
    <2>1. Own \in Byte /\ Others \subseteq Byte /\ Cnt \subseteq Word
        BY DEF AirAssumption
    <2>2. GasAbove \subseteq Gas
        BY DEF Gas
    <2>. QED
        BY <2>1, <2>2, Constants
<1>2. \A S \in {Dust, GasAbove} : \E x \in S : \A y \in S : x >= y
    BY DEF AirAssumption
<1>3. Max(Dust) \in Dust /\ Max(GasAbove) \in GasAbove
    BY <1>1, <1>2, MaxIs
<1>4. Max(Gas) \in Gas
    <2>1. PICK x \in GasAbove : \A y \in GasAbove : x >= y
        BY <1>2
    <2>2. x \in Nat /\ \A y \in GasBelow : y \in Nat
        BY <2>1 DEF AirAssumption
    <2>3. x \in Gas /\ \A y \in Gas : x >= y
        BY <1>1, <2>1, <2>2 DEF Gas
    <2>. QED
        BY <1>1, <2>3, MaxIs
<1>5. /\ f.node \in NodeSet /\ f.node \in Byte /\ f.cnt \in Cnt /\ f.cnt \in Word
      /\ f.dust \in Dust /\ f.gas \in Gas /\ f.dust \in Int /\ f.gas \in Int
    <2>1. CASE f \in [node : {Own}, cnt : Cnt, dust : Dust, gas : Gas]
        BY <1>1, <2>1 DEF NodeSet
    <2>2. CASE f \in [node : Others, cnt : Cnt, dust : {Max(Dust)}, gas : {Max(Gas)}]
        BY <1>1, <1>3, <1>4, <2>2 DEF NodeSet
    <2>. QED
        BY <2>1, <2>2 DEF Sent
<1>6. f # NoNode
    BY <1>5 DEF NoNode, Byte
<1>. QED
    BY <1>5, <1>6

\* The address of a node.
LEMMA AddressType ==
    ASSUME NEW b \in Byte
    PROVE  NetworkAddr(b) \in Address /\ NetworkAddr(b) \in Bytes(4) /\ NetworkAddr(b)[1] = b
<1>1. NetworkAddr(b) \in Address /\ NetworkAddr(b)[1] = b
    BY DEF NetworkAddr, Address, Byte
<1>. QED
    BY <1>1, HeaderNumbers

\* What is parsed of a node's packet is what the node sent.
LEMMA NodeArrives ==
    ASSUME AirAssumption, NEW f \in Sent, NEW old \in Message(12, 2),
           NEW in, in = Received(old, NodePacket[f])
    PROVE  ~ParseFails(in) /\ Arrived(Parse(in), f)
<1> DEFINE addr == NetworkAddr(f.node)
           data == <<f.dust, f.gas>>
           got  == Parse(in)
<1>1. /\ f.node \in Byte /\ f.cnt \in Word /\ f.cnt \in Int /\ f.dust \in Int /\ f.gas \in Int
      /\ f # NoNode
    BY SentType, HeaderNumbers
<1>2. addr \in Address /\ addr \in Bytes(4)
    BY <1>1, AddressType
<1>3. data \in Bytes(2) /\ data[1] = f.dust /\ data[2] = f.gas
    BY <1>1 DEF Bytes
<1>4. NodePacket[f] = OnAirBytes(SetUpDataMessage(ZeroFrame, addr, f.cnt, data))
    BY DEF NodePacket
<1> HIDE DEF addr, data
<1>5. 2 \in Nat /\ 2 > 0 /\ 2 <= 244 /\ 2 <= 2 /\ 1 \in 1 .. 2 /\ 2 \in 1 .. 2
    OBVIOUS
<1>6. PICK g : /\ Ready(g, 12, 2)
               /\ SetUpDataMessage(ZeroFrame, addr, f.cnt, data) = SerializePacket(g)
               /\ g.DevAddr = addr /\ g.FCnt = f.cnt /\ g.FRMPayloadSize = 2
               /\ \A i \in 1 .. 2 : g.FRMPayload[i] = data[i]
    BY <1>1, <1>2, <1>3, <1>5, RoomOfFrames, ZeroIsMessage, DataIsReady
<1>7. in = Received(old, Frame(g))
    BY <1>4, <1>6, OnAirIsFrame, RoomOfFrames
<1>8. /\ ~ParseFails(in) /\ got \in Message(12, 2) /\ got.Buffer = in.Buffer
      /\ got.DevAddr = g.DevAddr /\ got.FCnt = g.FCnt
      /\ got.FRMPayloadSize = g.FRMPayloadSize
      /\ \A i \in 1 .. g.FRMPayloadSize : got.FRMPayload[i] = g.FRMPayload[i]
    BY <1>6, <1>7, ParseFrame, RoomOfFrames
<1>9. \A i \in 1 .. 4 : got.DevAddr[i] = in.Buffer[i + 1]
    <2>1. FrameSize(g) = 12
        BY <1>6, SizeType, RoomOfFrames
    <2>2. Frame(g) \in Bytes(12)
        BY <1>6, <2>1, FrameType, RoomOfFrames
    <2>3. in \in Message(12, 2) /\ in.BufSize = 12
        BY <1>7, <2>2, ReceivedBytes, RoomOfFrames
    <2>4. in.BufSize \in 0 .. 12
        BY <2>3
    <2>. QED
        BY <2>3, <2>4, ParseShape, RoomOfFrames
<1>10. /\ got.DevAddr = addr /\ got.FCnt = f.cnt
       /\ got.FRMPayload[1] = f.dust /\ got.FRMPayload[2] = f.gas
    <2>1. \A i \in 1 .. 2 : got.FRMPayload[i] = data[i]
        BY <1>6, <1>8
    <2>. QED
        BY <1>3, <1>5, <1>6, <1>8, <2>1
<1> HIDE DEF got
<1>11. Arrived(got, f)
    BY <1>1, <1>8, <1>9, <1>10 DEF Arrived, addr
<1>. QED
    BY <1>8, <1>11 DEF got

\* A packet of another network shows so in its fourth byte, unless it ends before it.
LEMMA ForeignBytes ==
    ASSUME AirAssumption, NEW bytes \in ForeignPackets
    PROVE  \/ bytes = <<0>>
           \/ \E k \in Nat : k <= 12 /\ k >= 9 /\ bytes \in Bytes(k) /\ bytes[4] = 1
<1> DEFINE addr  == <<Own, 0, 1, 1>>
           data  == <<7, 7>>
           whole == OnAirBytes(SetUpDataMessage(ZeroFrame, addr, 0, data))
<1>1. bytes \in {<<0>>, SubSeq(whole, 1, 9), whole, [whole EXCEPT ![9] = 9]}
    BY DEF ForeignPackets, HeaderSize
<1>2. addr \in Bytes(4) /\ addr[3] = 1
    BY DEF Bytes, AirAssumption, Byte
<1>3. data \in Bytes(2)
    BY DEF Bytes
<1>4. 2 \in Nat /\ 2 > 0 /\ 2 <= 244 /\ 2 <= 2
    OBVIOUS
<1> HIDE DEF addr, data
<1>5. PICK g : /\ Ready(g, 12, 2)
               /\ SetUpDataMessage(ZeroFrame, addr, 0, data) = SerializePacket(g)
               /\ g.DevAddr = addr /\ g.FRMPayloadSize = 2
    BY <1>2, <1>3, <1>4, RoomOfFrames, ZeroIsMessage, DataIsReady, Literals
<1>6. whole = Frame(g)
    BY <1>5, OnAirIsFrame, RoomOfFrames
<1>7. FrameSize(g) = 12
    BY <1>5, SizeType, RoomOfFrames
<1>8. Frame(g) \in Bytes(12)
    BY <1>5, <1>7, FrameType, RoomOfFrames
<1>9. Frame(g)[4] = 1
    BY <1>2, <1>5, <1>7 DEF Frame, HeaderSize, Header
<1> HIDE DEF whole
<1>10. CASE bytes = SubSeq(whole, 1, 9)
    <2> DEFINE w == whole
    <2>1. w \in [1 .. 12 -> Int] /\ w[4] = 1
        BY <1>6, <1>8, <1>9 DEF Bytes
    <2> HIDE DEF w
    <2>2. \A i \in 1 .. 9 : w[i] \in Int
        BY <2>1
    <2>3. /\ SubSeq(w, 1, 9) \in Seq(Int) /\ Len(SubSeq(w, 1, 9)) = 9
          /\ \A i \in 1 .. 9 : SubSeq(w, 1, 9)[i] = w[i]
        <3>1. 1 \in Int /\ 9 \in Int /\ Len(w) = 12
            BY <2>1
        <3>. QED
            BY <2>2, <3>1, SubSeqProperties
    <2>4. bytes = SubSeq(w, 1, 9)
        BY <1>10 DEF w
    <2> DEFINE c == SubSeq(w, 1, 9)
    <2>5. bytes = c /\ c \in Seq(Int) /\ Len(c) = 9 /\ c[4] = 1
        <3>1. 4 \in 1 .. 9
            OBVIOUS
        <3>. QED
            BY <2>1, <2>3, <2>4, <3>1
    <2> HIDE DEF c
    <2>6. c \in Bytes(9)
        BY <2>5, LenProperties DEF Bytes
    <2>7. 9 \in Nat /\ 9 <= 12 /\ 9 >= 9
        OBVIOUS
    <2>. QED
        BY <2>5, <2>6, <2>7
<1>11. CASE bytes = whole
    BY <1>6, <1>8, <1>9, <1>11
<1>12. CASE bytes = [whole EXCEPT ![9] = 9]
    <2>1. bytes \in Bytes(12) /\ bytes[4] = 1
        BY <1>6, <1>8, <1>9, <1>12 DEF Bytes
    <2>. QED
        BY <2>1
<1>. QED
    BY <1>1, <1>10, <1>11, <1>12

\* What a packet of another network leaves: the address of no node, or that and the
\* payload of the packet before.
LEMMA ForeignArrives ==
    ASSUME AirAssumption, NEW bytes \in ForeignPackets, NEW old, NEW what, Arrived(old, what),
           NEW in, in = Received(old, bytes)
    PROVE  Arrived(Parse(in), NoNode)
<1> DEFINE got == Parse(in)
<1>1. /\ old \in Message(12, 2)
      /\ \A i \in 1 .. 4 : old.DevAddr[i] = old.Buffer[i + 1]
      /\ FromNode(old) =>
            \E f \in Sent : /\ old.DevAddr = NetworkAddr(f.node)
                            /\ old.FRMPayload[1] = f.dust /\ old.FRMPayload[2] = f.gas
    BY DEF Arrived
<1>2. CASE bytes = <<0>>
    <2>1. bytes \in Bytes(1) /\ 1 \in Nat /\ 1 <= 12
        BY <1>2 DEF Bytes
    <2>2. /\ in \in Message(12, 2) /\ in.BufSize = 1 /\ in.FRMPayload = old.FRMPayload
          /\ \A i \in 1 .. 12 : ~(i <= 1) => in.Buffer[i] = old.Buffer[i]
        BY <1>1, <2>1, ReceivedBytes, RoomOfFrames
    <2>3. in.BufSize \in 0 .. 12
        BY <2>2
    <2>4. ~HasPort(in)
        BY <2>2 DEF HasPort, HeaderSize
    <2>5. /\ got \in Message(12, 2) /\ got.Buffer = in.Buffer /\ got.BufSize = in.BufSize
          /\ \A i \in 1 .. 4 : got.DevAddr[i] = in.Buffer[i + 1]
          /\ got.FRMPayload = in.FRMPayload
        BY <2>2, <2>3, <2>4, ParseShape, RoomOfFrames
    <2> HIDE DEF got
    <2>6. \A i \in 1 .. 4 : got.DevAddr[i] = old.DevAddr[i]
        <3> TAKE i \in 1 .. 4
        <3>1. i + 1 \in 1 .. 12 /\ ~(i + 1 <= 1)
            OBVIOUS
        <3>. QED
            BY <1>1, <2>2, <2>5, <3>1
    <2>7. got.DevAddr = old.DevAddr
        <3>1. got.DevAddr \in Bytes(4) /\ old.DevAddr \in Bytes(4)
            BY <1>1, <2>5 DEF Message
        <3>. QED
            BY <2>6, <3>1 DEF Bytes
    <2>8. got.BufSize <= 4
        BY <2>2, <2>5
    <2>9. Arrived(got, NoNode)
        BY <1>1, <2>2, <2>5, <2>7, <2>8 DEF Arrived, FromNode
    <2>. QED
        BY <2>9 DEF got
<1>3. ASSUME NEW k \in Nat, k <= 12, k >= 9, bytes \in Bytes(k), bytes[4] = 1
      PROVE  Arrived(got, NoNode)
    <2>1. /\ in \in Message(12, 2) /\ in.BufSize = k
          /\ \A i \in 1 .. 12 : i <= k => in.Buffer[i] = bytes[i]
        BY <1>1, <1>3, ReceivedBytes, RoomOfFrames
    <2>2. in.BufSize \in 0 .. 12
        BY <1>3, <2>1
    <2>3. /\ got \in Message(12, 2) /\ got.Buffer = in.Buffer
          /\ \A i \in 1 .. 4 : got.DevAddr[i] = in.Buffer[i + 1]
        BY <2>1, <2>2, ParseShape, RoomOfFrames
    <2> HIDE DEF got
    <2>4. 4 \in 1 .. 12 /\ 4 <= k /\ 3 \in 1 .. 4 /\ 3 + 1 = 4
        BY <1>3
    <2>5. got.DevAddr[3] = 1
        BY <1>3, <2>1, <2>3, <2>4
    <2>6. ~FromNode(got)
        BY <2>5 DEF FromNode
    <2>. QED
        BY <2>3, <2>6 DEF Arrived
<1>. QED
    BY <1>2, <1>3, ForeignBytes

\* Both messages are {0} at first.
LEMMA FInit ==
    ASSUME Init
    PROVE  FrameOK
<1>1. macMsgData = ZeroFrame /\ ackMsg = ZeroFrame /\ sent = NoNode /\ upPc = "fetch"
    BY DEF Init
<1>2. /\ \A i \in 1 .. 4 : ZeroFrame.DevAddr[i] = 0
      /\ \A i \in 1 .. 12 : ZeroFrame.Buffer[i] = 0
    BY DEF ZeroFrame, ZeroMessage
<1>3. ~FromNode(ZeroFrame)
    BY <1>2 DEF FromNode
<1>4. \A i \in 1 .. 4 : ZeroFrame.DevAddr[i] = ZeroFrame.Buffer[i + 1]
    BY <1>2
<1>5. Arrived(ZeroFrame, NoNode)
    BY <1>3, <1>4, ZeroIsMessage DEF Arrived
<1>. QED
    BY <1>1, <1>5, ZeroIsMessage DEF FrameOK

\* What arrives is kept, and acknowledged if it is taken for a node's.
LEMMA ReceiveKeeps ==
    ASSUME AirAssumption, FrameOK, NEW bytes, NEW what, UpReceive(bytes, what),
           Arrived(Parse(Received(macMsgData, bytes)), what)
    PROVE  FrameOK'
<1> DEFINE msg == Received(macMsgData, bytes)
           got == Parse(msg)
<1>1. /\ upPc = "fetch" /\ macMsgData' = got /\ sent' = what
      /\ \/ upPc' = "ended" /\ UNCHANGED ackMsg
         \/ upPc' = upPc /\ UNCHANGED ackMsg
         \/ /\ got.DevAddr[3] = 255 /\ got.DevAddr[4] = 255
            /\ ackMsg' = SetUpACKMessage(ackMsg, got.DevAddr, got.FCnt)
            /\ upPc' = "pm"
    BY DEF UpReceive, MayReceive
<1>2. Arrived(got, what)
    OBVIOUS
<1> HIDE DEF got
<1>3. Arrived(macMsgData, sent)'
    BY <1>1, <1>2 DEF Arrived, FromNode
<1>4. ackMsg \in Message(12, 2)
    BY DEF FrameOK
<1>5. CASE upPc' # "pm" /\ UNCHANGED ackMsg
    BY <1>1, <1>3, <1>4, <1>5 DEF FrameOK
<1>6. CASE /\ got.DevAddr[3] = 255 /\ got.DevAddr[4] = 255
           /\ ackMsg' = SetUpACKMessage(ackMsg, got.DevAddr, got.FCnt)
           /\ upPc' = "pm"
    <2>1. got.DevAddr \in Bytes(4) /\ got.FCnt \in Int
        BY <1>2 DEF Arrived, Message
    <2>2. PICK f : /\ Ready(f, 12, 2)
                   /\ SetUpACKMessage(ackMsg, got.DevAddr, got.FCnt) = SerializePacket(f)
        BY <1>4, <2>1, RoomOfFrames, AckIsReady
    <2>3. SerializePacket(f) \in Message(12, 2)
        BY <2>2, RoomOfFrames, OnAirIsFrame
    <2>4. FromNode(macMsgData)'
        BY <1>1, <1>6 DEF FromNode
    <2>. QED
        BY <1>1, <1>3, <1>4, <1>6, <2>2, <2>3, <2>4 DEF FrameOK
<1>. QED
    BY <1>1, <1>5, <1>6

\* Steps that leave the frame alone, and come to no place that asks more of it.
LEMMA FrameUnchanged ==
    ASSUME FrameOK, UNCHANGED frameVars, upPc' = upPc \/ upPc' \notin {"pm", "co"}
    PROVE  FrameOK'
BY DEF FrameOK, frameVars, Arrived, FromNode

\* Every step keeps what thread_up holds of the packets.
LEMMA FStep ==
    ASSUME AirAssumption, FrameOK, [Next]_vars
    PROVE  FrameOK'
<1>1. CASE UpPacket
    <2>1. Arrived(macMsgData, sent)
        BY DEF FrameOK
    <2>2. ASSUME NEW p \in ForeignPackets, UpReceive(p, NoNode) PROVE FrameOK'
        BY <2>1, <2>2, ForeignArrives, ReceiveKeeps
    <2>3. ASSUME NEW f \in Sent, UpReceive(NodePacket[f], f) PROVE FrameOK'
        <3>1. macMsgData \in Message(12, 2)
            BY <2>1 DEF Arrived
        <3>2. Arrived(Parse(Received(macMsgData, NodePacket[f])), f)
            BY <3>1, NodeArrives
        <3>. QED
            BY <2>3, <3>2, ReceiveKeeps
    <2>. QED
        BY <1>1, <2>2, <2>3 DEF UpPacket
<1>2. CASE UpPm
    <2>1. /\ upPc = "pm" /\ UNCHANGED frameVars
          /\ (upPc' = "co" /\ macMsgData.DevAddr[1] = Own) \/ upPc' = "fetch"
        BY <1>2 DEF UpPm
    <2>. QED
        BY <2>1 DEF FrameOK, frameVars, Arrived, FromNode
<1>3. CASE UpCo \/ UpHour \/ UpCount \/ UpShift \/ UpLast
    <2>1. UNCHANGED frameVars /\ upPc' \notin {"pm", "co"}
        BY <1>3 DEF UpCo, UpHour, UpCount, UpShift, UpLast
    <2>. QED
        BY <2>1, FrameUnchanged
<1>4. CASE CalCo \/ CalTest \/ CalBounds \/ CalWeigh \/ CalThree \/ CalSleep
    <2>1. UNCHANGED <<frameVars, upVars>>
        BY <1>4 DEF CalCo, CalTest, CalBounds, CalWeigh, CalThree, CalSleep
    <2>2. UNCHANGED frameVars /\ upPc' = upPc
        BY <2>1 DEF upVars
    <2>. QED
        BY <2>2, FrameUnchanged
<1>5. CASE UNCHANGED vars
    <2>1. UNCHANGED frameVars /\ upPc' = upPc
        BY <1>5 DEF vars, upVars
    <2>. QED
        BY <2>1, FrameUnchanged
<1>. QED
    BY <1>1, <1>2, <1>3, <1>4, <1>5 DEF Next

\* At the place before the store, it is what was sent.
LEMMA FImpliesStored ==
    ASSUME FrameOK
    PROVE  StoredIsSent
BY DEF FrameOK, Arrived, StoredIsSent, PkgCo, PkgPm25

\* Two nodes have the same address only if they are the same.
LEMMA AddressesDiffer ==
    ASSUME NEW a, NEW b, NetworkAddr(a) = NetworkAddr(b)
    PROVE  a = b
<1>1. NetworkAddr(a)[1] = a /\ NetworkAddr(b)[1] = b
    BY DEF NetworkAddr
<1>. QED
    BY <1>1

\* The acknowledgement is to the address and the counter of the frame.
LEMMA FImpliesAck ==
    ASSUME AirAssumption, FrameOK
    PROVE  AckReachesSender
<1>1. SUFFICES ASSUME upPc = "pm", sent # NoNode, NEW b \in NodeSet, NEW c \in Cnt
               PROVE  RxHandle(b, c, OnAirBytes(ackMsg)) <=> b = sent.node /\ c = sent.cnt
    BY DEF AckReachesSender
<1>2. PICK m \in Message(12, 2) :
          ackMsg = SetUpACKMessage(m, macMsgData.DevAddr, macMsgData.FCnt)
    BY <1>1 DEF FrameOK
<1>3. /\ macMsgData.DevAddr = NetworkAddr(sent.node) /\ macMsgData.FCnt = sent.cnt
      /\ sent \in Sent
    BY <1>1 DEF FrameOK, Arrived
<1>4. sent.node \in Byte /\ sent.cnt \in Word
    BY <1>3, SentType
<1> DEFINE in  == Received(ZeroFrame, OnAirBytes(ackMsg))
           got == Parse(in)
<1>5. NetworkAddr(sent.node) \in Address
    BY <1>4, AddressType
<1>6. /\ ~ParseFails(in)
      /\ got.DevAddr = NetworkAddr(sent.node) /\ got.FCnt = sent.cnt
      /\ got.FCtrl \div Ack = 1
    <2>1. ackMsg = SetUpACKMessage(m, NetworkAddr(sent.node), sent.cnt)
        BY <1>2, <1>3
    <2>. QED
        BY <1>2, <1>4, <1>5, <2>1, AckRoundTrip, RoomOfFrames, ZeroIsMessage
<1>7. RxHandle(b, c, OnAirBytes(ackMsg)) <=>
          NetworkAddr(sent.node) = NetworkAddr(b) /\ sent.cnt = c
    BY <1>6 DEF RxHandle
<1>. QED
    BY <1>7, AddressesDiffer

\* StoredIsSent of AirQuality for all nodes, counters and values: whatever packets
\* macMsgData held before, what is stored is what a node has just sent, unless the
\* packet ends before its address.
THEOREM OnlySentIsStored == Spec => []StoredIsSent
<1>1. Init => FrameOK
    BY FInit
<1>2. FrameOK /\ [Next]_vars => FrameOK'
    BY FStep, AirAssumption
<1>3. FrameOK => StoredIsSent
    BY FImpliesStored
<1>. QED
    BY <1>1, <1>2, <1>3, PTL DEF Spec

\* AckReachesSender of AirQuality for all nodes and counters: the acknowledgement is
\* taken by the node that sent the frame while its counter is that of the frame, and by
\* no other.
THEOREM AckIsForTheSender == Spec => []AckReachesSender
<1>1. Init => FrameOK
    BY FInit
<1>2. FrameOK /\ [Next]_vars => FrameOK'
    BY FStep, AirAssumption
<1>3. FrameOK => AckReachesSender
    BY FImpliesAck, AirAssumption
<1>. QED
    BY <1>1, <1>2, <1>3, PTL DEF Spec
------------------------------------------------------------------------------
(* The window. Its values are left open: only their places matter here. *)

PastOK == \E S : past \in Seq(S)
WinOK  == win = [i \in Slot |-> win[i]]

\* Where thread_up is, and what it has seen of n there.
PlaceOK ==
    /\ n \in 0 .. Hours /\ n <= Len(past)
    /\ upPc \in {"hour", "count"} => n < Hours
    /\ upPc \in {"shift", "last"} => n = Hours
    /\ upPc = "shift" => upI \in Slot

\* Element i of the window is the hour that belongs there, or the one after it.
Kept(i)  == win[i] = past[Len(past) - n + i]
Moved(i) == win[i] = past[Len(past) - n + i + 1]

\* What the window holds at each place of store_new_data.
WindowOK ==
    /\ upPc \notin {"shift", "last"} => \A i \in 1 .. n : Kept(i)
    /\ upPc = "count" => win[n + 1] = pm
    /\ upPc = "shift" => /\ \A i \in 1 .. upI - 1 : Moved(i)
                         /\ \A i \in upI .. Hours : Kept(i)
    /\ upPc = "last" => \A i \in 1 .. Hours - 1 : Moved(i)

WInv == PastOK /\ WinOK /\ PlaceOK /\ WindowOK

\* What an hour's end makes of the past: it drops the oldest value if there is one
\* more than the window holds, and ends with the newest.
LEMMA PastGrows ==
    ASSUME PastOK, Hours \in Nat
    PROVE  /\ \E S : NextPast \in Seq(S)
           /\ Len(NextPast) \in Nat /\ Len(past) \in Nat
           /\ Len(NextPast) = IF Len(past) > Hours THEN Len(past) ELSE Len(past) + 1
           /\ NextPast[Len(NextPast)] = pm
           /\ \A i \in 1 .. Len(NextPast) - 1 :
                  NextPast[Len(NextPast) - i] = past[Len(past) - i + 1]
<1>1. PICK S : past \in Seq(S)
    BY DEF PastOK
<1> DEFINE T == S \cup {pm}
<1>2. past \in Seq(T) /\ pm \in T /\ Len(past) \in Nat
    BY <1>1, SeqMonotonic, LenProperties
<1>3. CASE Len(past) > Hours
    <2>1. past # <<>>
        BY <1>2, <1>3
    <2>2. /\ Tail(past) \in Seq(T) /\ Len(Tail(past)) = Len(past) - 1
          /\ \A i \in 1 .. Len(past) - 1 : Tail(past)[i] = past[i + 1]
        BY <1>2, <2>1, HeadTailProperties
    <2>3. NextPast = Append(Tail(past), pm)
        BY <1>3 DEF NextPast
    <2>4. /\ NextPast \in Seq(T) /\ Len(NextPast) = Len(past)
          /\ NextPast[Len(past)] = pm
          /\ \A i \in 1 .. Len(past) - 1 : NextPast[i] = Tail(past)[i]
        <3> DEFINE t == Tail(past)
        <3>1. t \in Seq(T) /\ Len(t) = Len(past) - 1
            BY <2>2
        <3> HIDE DEF t, T
        <3>2. /\ Append(t, pm) \in Seq(T) /\ Len(Append(t, pm)) = Len(t) + 1
              /\ \A i \in 1 .. Len(t) : Append(t, pm)[i] = t[i]
              /\ Append(t, pm)[Len(t) + 1] = pm
            BY <3>1, <1>2, AppendProperties
        <3>3. NextPast = Append(t, pm)
            BY <2>3 DEF t
        <3>. QED
            BY <3>1, <3>2, <3>3, <1>2 DEF t
    <2>5. \A i \in 1 .. Len(past) - 1 : NextPast[Len(past) - i] = past[Len(past) - i + 1]
        <3> TAKE i \in 1 .. Len(past) - 1
        <3>1. Len(past) - i \in 1 .. Len(past) - 1
            BY <1>2
        <3>. QED
            BY <3>1, <2>2, <2>4
    <2>. QED
        BY <1>2, <1>3, <2>4, <2>5
<1>4. CASE ~(Len(past) > Hours)
    <2>1. NextPast = Append(past, pm)
        BY <1>4 DEF NextPast
    <2>2. /\ NextPast \in Seq(T) /\ Len(NextPast) = Len(past) + 1
          /\ NextPast[Len(past) + 1] = pm
          /\ \A i \in 1 .. Len(past) : NextPast[i] = past[i]
        BY <1>2, <2>1, AppendProperties
    <2>3. \A i \in 1 .. Len(past) :
              NextPast[Len(past) + 1 - i] = past[Len(past) - i + 1]
        BY <1>2, <2>2
    <2>. QED
        BY <1>2, <1>4, <2>2, <2>3
<1>. QED
    BY <1>3, <1>4

\* Nothing has been stored at first.
LEMMA WInit ==
    ASSUME AirAssumption, Init
    PROVE  WInv
<1>1. past = <<>> /\ n = 0 /\ upPc = "fetch" /\ win = [i \in Slot |-> 0] /\ Hours \in Nat
    BY DEF Init, AirAssumption
<1>2. PastOK
    BY <1>1, EmptySeq DEF PastOK
<1>3. WinOK
    BY <1>1 DEF WinOK
<1>4. PlaceOK /\ WindowOK
    BY <1>1 DEF PlaceOK, WindowOK
<1>. QED
    BY <1>2, <1>3, <1>4 DEF WInv

\* Steps that leave the slot alone, and come to no place that asks more of it.
LEMMA SlotUnchanged ==
    ASSUME WInv, UNCHANGED slotVars,
           \/ UNCHANGED upVars
           \/ upPc \notin {"shift", "last"} /\ upPc' \in {"fetch", "pm", "ended"}
    PROVE  WInv'
<1>1. PastOK' /\ WinOK'
    BY DEF WInv, PastOK, WinOK, slotVars
<1>2. PlaceOK'
    BY DEF WInv, PlaceOK, slotVars, upVars
<1>3. WindowOK'
    BY DEF WInv, WindowOK, Kept, Moved, slotVars, upVars
<1>. QED
    BY <1>1, <1>2, <1>3 DEF WInv

\* A sample is stored; the window is next if it is full.
LEMMA SampleKeeps ==
    ASSUME WInv, UpPm \/ UpCo, Hours \in Nat, Hours > 2
    PROVE  WInv'
<1>1. CASE UpPm
    <2>1. /\ upPc = "pm" /\ upPc' \in {"co", "fetch"}
          /\ UNCHANGED <<win, n, past>>
        BY <1>1 DEF UpPm
    <2>. QED
        BY <2>1 DEF WInv, PastOK, WinOK, PlaceOK, WindowOK, Kept, Moved
<1>2. CASE UpCo
    <2>1. /\ upPc = "co" /\ upPc' = (IF n = Hours THEN "shift" ELSE "hour") /\ upI' = 1
          /\ UNCHANGED <<win, n, past, pm>>
        BY <1>2 DEF UpCo
    <2>2. PlaceOK'
        BY <2>1 DEF WInv, PlaceOK, Slot
    <2>3. WindowOK'
        BY <2>1 DEF WInv, PlaceOK, WindowOK, Kept, Moved
    <2>. QED
        BY <2>1, <2>2, <2>3 DEF WInv, PastOK, WinOK
<1>. QED
    BY <1>1, <1>2

\* The hour is written behind those in the window.
LEMMA HourKeeps ==
    ASSUME WInv, UpHour, Hours \in Nat
    PROVE  WInv'
<1>1. /\ upPc = "hour" /\ upPc' = "count" /\ win' = [win EXCEPT ![n + 1] = pm]
      /\ UNCHANGED <<n, past, pm>>
    BY DEF UpHour
<1>2. n \in 0 .. Hours - 1 /\ n + 1 \in Slot
    BY <1>1 DEF WInv, PlaceOK, Slot
<1>3. DOMAIN win = Slot
    BY DEF WInv, WinOK
<1>4. win' = [i \in Slot |-> IF i = n + 1 THEN pm ELSE win[i]]
    BY <1>1, <1>3
<1>5. win' = [i \in Slot |-> win'[i]] /\ win'[n + 1] = pm
      /\ \A i \in 1 .. n : win'[i] = win[i]
    BY <1>4, <1>2 DEF Slot
<1>6. PlaceOK' /\ WindowOK'
    BY <1>1, <1>2, <1>5 DEF WInv, PlaceOK, WindowOK, Kept, Moved
<1>. QED
    BY <1>1, <1>5, <1>6 DEF WInv, PastOK, WinOK

\* It is counted, and is past.
LEMMA CountKeeps ==
    ASSUME WInv, UpCount, Hours \in Nat
    PROVE  WInv'
<1>1. /\ upPc = "count" /\ upPc' = "fetch" /\ n' = n + 1 /\ past' = NextPast
      /\ UNCHANGED <<win, pm>>
    BY DEF UpCount
<1>2. n \in 0 .. Hours - 1 /\ n <= Len(past) /\ win[n + 1] = pm
      /\ \A i \in 1 .. n : win[i] = past[Len(past) - n + i]
    BY <1>1 DEF WInv, PlaceOK, WindowOK, Kept
<1> DEFINE m == Len(past)
           l == Len(past')
<1>3. /\ PastOK' /\ l \in Nat /\ m \in Nat /\ l >= m
      /\ (m <= Hours => l = m + 1)
      /\ past'[l] = pm
      /\ \A i \in 1 .. l - 1 : past'[l - i] = past[m - i + 1]
    BY <1>1, PastGrows DEF PastOK, WInv
<1> HIDE DEF m, l
<1>4. n + 1 <= l
    BY <1>2, <1>3 DEF m
<1>5. \A i \in 1 .. n + 1 : win[i] = past'[l - (n + 1) + i]
    <2> TAKE i \in 1 .. n + 1
    <2>1. CASE i = n + 1
        BY <2>1, <1>2, <1>3
    <2>2. CASE i <= n
        <3> DEFINE j == n + 1 - i
        <3>1. j \in 1 .. l - 1 /\ l - (n + 1) + i = l - j /\ m - n + i = m - j + 1
            BY <2>2, <1>2, <1>3, <1>4
        <3>2. past'[l - j] = past[m - j + 1]
            BY <3>1, <1>3
        <3>3. win[i] = past[m - n + i]
            BY <2>2, <1>2 DEF m
        <3>. QED
            BY <3>1, <3>2, <3>3
    <2>. QED
        BY <2>1, <2>2, <1>2
<1>6. PlaceOK'
    BY <1>1, <1>2, <1>4 DEF PlaceOK, l
<1>7. WindowOK'
    BY <1>1, <1>5 DEF WindowOK, Kept, l
<1>. QED
    BY <1>1, <1>3, <1>6, <1>7 DEF WInv, WinOK

\* One element of a full window is moved; the last one takes what lies past it.
LEMMA ShiftKeeps ==
    ASSUME WInv, UpShift, Hours \in Nat
    PROVE  WInv'
<1>1. /\ upPc = "shift" /\ upI' = upI + 1
      /\ upPc' = IF upI = Hours THEN "last" ELSE "shift"
      /\ win' = [win EXCEPT ![upI] = IF upI = Hours THEN pm ELSE win[upI + 1]]
      /\ UNCHANGED <<n, past, pm>>
    BY DEF UpShift
<1>2. /\ n = Hours /\ upI \in Slot /\ DOMAIN win = Slot
      /\ \A i \in 1 .. upI - 1 : Moved(i)
      /\ \A i \in upI .. Hours : Kept(i)
    BY <1>1 DEF WInv, WinOK, PlaceOK, WindowOK
<1>3. win' = [i \in Slot |-> IF i = upI THEN IF upI = Hours THEN pm ELSE win[upI + 1]
                             ELSE win[i]]
    BY <1>1, <1>2
<1>4. WinOK'
    BY <1>3 DEF WinOK
<1>5. PlaceOK'
    BY <1>1, <1>2 DEF WInv, PlaceOK, Slot
<1>6. \A i \in 1 .. upI - 1 : Moved(i)'
    BY <1>1, <1>2, <1>3 DEF Moved, Slot
<1>7. upI # Hours => win'[upI] = past'[Len(past') - n' + upI + 1]
    <2>1. SUFFICES ASSUME upI # Hours
                   PROVE  win'[upI] = past'[Len(past') - n' + upI + 1]
        OBVIOUS
    <2>2. upI + 1 \in upI .. Hours /\ win'[upI] = win[upI + 1]
        BY <1>2, <1>3, <2>1 DEF Slot
    <2>3. PICK S : past \in Seq(S)
        BY DEF WInv, PastOK
    <2>4. Len(past) \in Nat
        BY <2>3, LenProperties
    <2>5. win[upI + 1] = past[Len(past) - n + (upI + 1)]
        BY <1>2, <2>2 DEF Kept
    <2>6. Len(past) - n + (upI + 1) = Len(past) - n + upI + 1
        BY <1>2, <2>4 DEF Slot
    <2>. QED
        BY <1>1, <2>2, <2>5, <2>6
<1>8. \A i \in upI + 1 .. Hours : Kept(i)'
    BY <1>1, <1>2, <1>3 DEF Kept, Slot
<1>9. WindowOK'
    <2>1. CASE upI = Hours
        <3>1. upPc' = "last" /\ \A i \in 1 .. Hours - 1 : Moved(i)'
            BY <1>1, <1>6, <2>1
        <3>. QED
            BY <3>1 DEF WindowOK
    <2>2. CASE upI # Hours
        <3>1. \A i \in 1 .. upI : Moved(i)'
            BY <1>2, <1>6, <1>7, <2>2 DEF Moved, Slot
        <3>2. upPc' = "shift" /\ upI' - 1 = upI
            BY <1>1, <1>2, <2>2 DEF Slot
        <3>3. \A i \in upI' .. Hours : Kept(i)'
            BY <1>1, <1>8
        <3>. QED
            BY <3>1, <3>2, <3>3 DEF WindowOK
    <2>. QED
        BY <2>1, <2>2
<1>. QED
    BY <1>1, <1>4, <1>5, <1>9 DEF WInv, PastOK

\* The last element takes the newest hour, and the oldest one is past the window.
LEMMA LastKeeps ==
    ASSUME WInv, UpLast, Hours \in Nat, Hours > 2
    PROVE  WInv'
<1>1. /\ upPc = "last" /\ upPc' = "fetch" /\ past' = NextPast
      /\ win' = [win EXCEPT ![Hours] = pm] /\ UNCHANGED n
    BY DEF UpLast
<1>2. /\ n = Hours /\ n <= Len(past) /\ DOMAIN win = Slot
      /\ \A i \in 1 .. Hours - 1 : win[i] = past[Len(past) - n + i + 1]
    BY <1>1 DEF WInv, WinOK, PlaceOK, WindowOK, Moved
<1>3. win' = [i \in Slot |-> IF i = Hours THEN pm ELSE win[i]]
    BY <1>1, <1>2
<1> DEFINE m == Len(past)
           l == Len(past')
<1>4. /\ PastOK' /\ l \in Nat /\ m \in Nat /\ l >= m
      /\ past'[l] = pm
      /\ \A i \in 1 .. l - 1 : past'[l - i] = past[m - i + 1]
    BY <1>1, PastGrows DEF PastOK, WInv
<1> HIDE DEF m, l
<1>5. n <= l
    BY <1>2, <1>4 DEF m
<1>6. \A i \in 1 .. n : win'[i] = past'[l - n + i]
    <2> TAKE i \in 1 .. n
    <2>1. CASE i = n
        BY <2>1, <1>2, <1>3, <1>4 DEF Slot
    <2>2. CASE i <= n - 1
        <3> DEFINE j == n - i
        <3>1. j \in 1 .. l - 1 /\ l - n + i = l - j /\ m - n + i + 1 = m - j + 1
            BY <2>2, <1>2, <1>4, <1>5
        <3>2. past'[l - j] = past[m - j + 1]
            BY <3>1, <1>4
        <3>3. win'[i] = past[m - n + i + 1]
            BY <2>2, <1>2, <1>3 DEF m, Slot
        <3>. QED
            BY <3>1, <3>2, <3>3
    <2>. QED
        BY <2>1, <2>2, <1>2
<1>7. WinOK'
    BY <1>3 DEF WinOK
<1>8. PlaceOK'
    BY <1>1, <1>2, <1>5 DEF WInv, PlaceOK, l
<1>9. WindowOK'
    BY <1>1, <1>6 DEF WindowOK, Kept, l
<1>. QED
    BY <1>4, <1>7, <1>8, <1>9 DEF WInv

\* Every step keeps what the window holds at each place.
LEMMA WStep ==
    ASSUME AirAssumption, WInv, [Next]_vars
    PROVE  WInv'
<1>1. Hours \in Nat /\ Hours > 2
    BY DEF AirAssumption
<1>2. CASE UpPacket
    <2>1. PICK bytes, what : UpReceive(bytes, what)
        BY <1>2 DEF UpPacket
    <2>2. upPc = "fetch" /\ upPc' \in {"fetch", "pm", "ended"} /\ UNCHANGED slotVars
        BY <2>1 DEF UpReceive, MayReceive
    <2>. QED
        BY <2>2, SlotUnchanged
<1>3. CASE UpPm \/ UpCo
    BY <1>1, <1>3, SampleKeeps
<1>4. CASE UpHour
    BY <1>1, <1>4, HourKeeps
<1>5. CASE UpCount
    BY <1>1, <1>5, CountKeeps
<1>6. CASE UpShift
    BY <1>1, <1>6, ShiftKeeps
<1>7. CASE UpLast
    BY <1>1, <1>7, LastKeeps
<1>8. CASE CalCo \/ CalTest \/ CalBounds \/ CalWeigh \/ CalThree \/ CalSleep
    BY <1>8, SlotUnchanged DEF CalCo, CalTest, CalBounds, CalWeigh, CalThree, CalSleep
<1>9. CASE UNCHANGED vars
    BY <1>9, SlotUnchanged DEF vars
<1>. QED
    BY <1>2, <1>3, <1>4, <1>5, <1>6, <1>7, <1>8, <1>9 DEF Next

\* What each place asks is, outside the move, that the window is the history.
LEMMA WImplies ==
    ASSUME WInv, Hours \in Nat
    PROVE  WindowIsHistory
<1>1. SUFFICES ASSUME upPc \notin {"shift", "last"}
               PROVE  SubSeq(win, 1, n) = Recent
    BY DEF WindowIsHistory
<1>2. PICK S : past \in Seq(S)
    BY DEF WInv, PastOK
<1>3. /\ n \in Nat /\ n <= Len(past) /\ Len(past) \in Nat
      /\ past \in [1 .. Len(past) -> S]
      /\ \A i \in 1 .. n : win[i] = past[Len(past) - n + i]
    BY <1>1, <1>2, LenProperties DEF WInv, PlaceOK, WindowOK, Kept
<1> DEFINE a == SubSeq(win, 1, n)
           b == SubSeq(past, Len(past) - n + 1, Len(past))
<1>4. \A i \in 1 .. n : win[i] \in S
    <2> TAKE i \in 1 .. n
    <2>1. Len(past) - n + i \in 1 .. Len(past)
        BY <1>3
    <2>2. past[Len(past) - n + i] \in S
        BY <1>3, <2>1
    <2>. QED
        BY <1>3, <2>2
<1>5. a \in Seq(S) /\ Len(a) = n /\ \A i \in 1 .. n : a[i] = win[i]
    BY <1>3, <1>4, SubSeqProperties
<1>6. /\ b \in Seq(S) /\ Len(b) = n
      /\ \A i \in 1 .. n : b[i] = past[Len(past) - n + i]
    BY <1>3, SubSeqProperties
<1>7. a = b
    <2>1. \A i \in 1 .. n : a[i] = b[i]
        BY <1>3, <1>5, <1>6
    <2> HIDE DEF a, b
    <2>. QED
        BY <1>5, <1>6, <2>1, SeqEqual
<1>. QED
    BY <1>7 DEF Recent

\* WindowIsHistory of AirQuality for every length of the window: whenever
\* store_new_data is not moving it, buff_12_h holds the last hours, oldest first.
THEOREM WindowHoldsHistory == Spec => []WindowIsHistory
<1>1. Init => WInv
    BY WInit, AirAssumption
<1>2. WInv /\ [Next]_vars => WInv'
    BY WStep, AirAssumption
<1>3. WInv => WindowIsHistory
    BY WImplies, AirAssumption DEF AirAssumption
<1>. QED
    BY <1>1, <1>2, <1>3, PTL DEF Spec
------------------------------------------------------------------------------
(* The tables and the types. *)

\* The tables ascend.
LEMMA Tables ==
    ASSUME NEW T \in {I, BP_CO, BP_PM25}
    PROVE  /\ \A j \in 1 .. 8 : T[j] \in Nat /\ T[j] <= 500
           /\ \A j \in 1 .. 7 : T[j + 1] - T[j] \in Nat /\ T[j + 1] - T[j] > 0
<1> DEFINE S == <<0, 50, 100, 150, 200, 300, 400, 500>>
           C == <<0, 10, 30, 45, 60, 90, 120, 150>>
           P == <<0, 25, 50, 80, 150, 250, 350, 500>>
           J == {1, 2, 3, 4, 5, 6, 7}
<1>1. 1 .. 8 = J \cup {8} /\ 1 .. 7 = J
    OBVIOUS
<1>2. CASE T = S
    BY <1>1, <1>2
<1>3. CASE T = C
    BY <1>1, <1>3
<1>4. CASE T = P
    BY <1>1, <1>4
<1>. QED
    BY <1>2, <1>3, <1>4 DEF I, BP_CO, BP_PM25

\* A set of classes has a last one.
LEMMA LastClass ==
    ASSUME NEW C \in SUBSET (1 .. 8), C # {}
    PROVE  Max(C) \in C /\ \A j \in C : Max(C) >= j
<1>1. \E x \in C : \A y \in C : x >= y
    <2>1. CASE 8 \in C
        BY <2>1
    <2>2. CASE 8 \notin C /\ 7 \in C
        BY <2>2
    <2>3. CASE 8 \notin C /\ 7 \notin C /\ 6 \in C
        BY <2>3
    <2>4. CASE 8 \notin C /\ 7 \notin C /\ 6 \notin C /\ 5 \in C
        BY <2>4
    <2>5. CASE C \subseteq 1 .. 4 /\ 4 \in C
        BY <2>5
    <2>6. CASE C \subseteq 1 .. 3 /\ 3 \in C
        BY <2>6
    <2>7. CASE C \subseteq 1 .. 2 /\ 2 \in C
        BY <2>7
    <2>8. CASE C \subseteq {1}
        <3>1. 1 \in C /\ \A y \in C : y = 1
            BY <2>8
        <3>. QED
            BY <3>1
    <2>. QED
        BY <2>1, <2>2, <2>3, <2>4, <2>5, <2>6, <2>7, <2>8
<1>2. PICK x \in C : \A y \in C : x >= y
    BY <1>1
<1>3. C \subseteq Int
    OBVIOUS
<1>. QED
    BY <1>2, <1>3, MaxIs

\* The result for a quotient that is above 0 is one, and it is the interpolation.
LEMMA IndexOf ==
    ASSUME NEW num \in Int, NEW den \in Nat, den > 0, num > 0,
           NEW BP \in {BP_CO, BP_PM25}, NEW r \in Results(num, den, BP)
    PROVE  r \in 0 .. 500 /\ Interpolates(r, num, den, BP)
<1> DEFINE C == Classes(num, den, BP)
           m == Max(C)
<1>1. /\ \A j \in 1 .. 8 : BP[j] \in Nat
      /\ \A j \in 1 .. 7 : BP[j + 1] - BP[j] \in Nat /\ BP[j + 1] - BP[j] > 0
    BY Tables
<1>2. /\ \A j \in 1 .. 8 : I[j] \in Nat /\ I[j] <= 500
      /\ \A j \in 1 .. 7 : I[j + 1] - I[j] \in Nat /\ I[j + 1] - I[j] > 0
    BY Tables
<1>3. 1 \in C
    <2>1. BP[1] = 0 /\ 1 \in 1 .. 8
        BY DEF BP_CO, BP_PM25
    <2>. QED
        BY <2>1 DEF Classes
<1>4. m \in C /\ \A j \in C : m >= j
    <2>1. C \subseteq 1 .. 8
        BY DEF Classes
    <2> HIDE DEF C
    <2>. QED
        BY <1>3, <2>1, LastClass
<1>5. m \in 1 .. 8 /\ num > BP[m] * den
    BY <1>4 DEF Classes
<1>6. r = Line(num, den, BP, m)
    BY <1>3 DEF Results
<1>7. m # 8 => num <= BP[m + 1] * den
    <2>1. SUFFICES ASSUME m # 8 PROVE num <= BP[m + 1] * den
        OBVIOUS
    <2>2. m + 1 \in 1 .. 8 /\ ~(m >= m + 1)
        BY <1>5, <2>1
    <2>3. m + 1 \notin C
        BY <1>4, <2>2
    <2>4. ~(num > BP[m + 1] * den)
        BY <2>2, <2>3 DEF Classes
    <2> HIDE DEF m
    <2>5. BP[m + 1] * den \in Int
        BY <1>1, <2>2
    <2>. QED
        BY <2>4, <2>5
<1> HIDE DEF m, C
<1>8. CASE m = 8
    <2>1. r = I[8] /\ num > BP[8] * den /\ I[8] = 500
        BY <1>5, <1>6, <1>8 DEF Line, I
    <2>. QED
        BY <2>1 DEF Interpolates
<1>9. CASE m # 8
    <2>1. m \in 1 .. 7 /\ m + 1 \in 1 .. 8
        BY <1>5, <1>9
    <2> DEFINE a == I[m + 1] - I[m]
               x == num - BP[m] * den
               u == (BP[m + 1] - BP[m]) * den
               q == (a * x) \div u
    <2>2. r = q + I[m]
        BY <1>6, <1>9 DEF Line
    <2>3. a \in Nat /\ I[m] \in Nat /\ I[m + 1] \in Nat /\ I[m + 1] <= 500
        BY <1>2, <2>1
    <2>4. x \in Nat /\ u \in Nat /\ u > 0 /\ x <= u
        <3>1. /\ BP[m] \in Nat /\ BP[m + 1] \in Nat /\ BP[m + 1] - BP[m] > 0
              /\ num > BP[m] * den /\ num <= BP[m + 1] * den
            BY <1>1, <1>5, <1>7, <1>9, <2>1
        <3>2. \A c, d \in Nat : /\ (d - c) * den = d * den - c * den
                                /\ c * den \in Int /\ d * den \in Int
                                /\ d - c > 0 => (d - c) * den > 0
            OBVIOUS
        <3>. QED
            BY <3>1, <3>2
    <2>5. q \in 0 .. a /\ q * u <= a * x /\ a * x < (q + 1) * u
        <3> HIDE DEF a, x, u
        <3>. QED
            BY <2>3, <2>4, Fraction
    <2>6. r - I[m] = q /\ r \in 0 .. 500
        <3>1. I[m] + a = I[m + 1]
            BY <2>3
        <3>2. q \in Int /\ 0 <= q /\ q <= a
            <4> HIDE DEF q, a
            <4>. QED
                BY <2>3, <2>5
        <3>3. \A i, z, k \in Int : 0 <= z /\ z <= k /\ 0 <= i /\ i + k <= 500 =>
                  (z + i) - i = z /\ z + i \in 0 .. 500
            OBVIOUS
        <3>4. I[m] \in Int /\ a \in Int /\ 0 <= I[m] /\ I[m] + a <= 500
            BY <2>3
        <3> HIDE DEF q, a
        <3>5. (q + I[m]) - I[m] = q /\ q + I[m] \in 0 .. 500
            BY <3>2, <3>3, <3>4
        <3>. QED
            BY <2>2, <3>5
    <2>7. /\ BP[m] * den < num /\ num <= BP[m + 1] * den
          /\ (r - I[m]) * u <= a * x /\ a * x < (r - I[m] + 1) * u
        <3>1. BP[m] * den \in Int
            BY <1>1, <2>1
        <3>2. BP[m] * den < num /\ num <= BP[m + 1] * den
            BY <1>5, <1>7, <1>9, <3>1
        <3> HIDE DEF q, a, x, u
        <3>. QED
            BY <2>5, <2>6, <3>2
    <2>8. Interpolates(r, num, den, BP)
        BY <2>1, <2>7 DEF Interpolates
    <2>. QED
        BY <2>6, <2>8
<1>. QED
    BY <1>8, <1>9

\* The result is junk otherwise.
LEMMA NoIndex ==
    ASSUME NEW num \in Int, NEW den \in Nat, num <= 0, NEW BP \in {BP_CO, BP_PM25}
    PROVE  Results(num, den, BP) = Junk
<1>1. \A j \in 1 .. 8 : BP[j] \in Nat
    BY Tables
<1>2. \A c \in Nat : ~(num > c * den)
    <2>1. \A c \in Nat : c * den >= 0 /\ c * den \in Int
        OBVIOUS
    <2>. QED
        BY <2>1
<1>3. Classes(num, den, BP) = {}
    BY <1>1, <1>2 DEF Classes
<1>. QED
    BY <1>3 DEF Results

\* The samples of the slot. What ends an hour is a sample.
SlotOK ==
    /\ upPc \in UpPc /\ upI \in 0 .. Hours + 1
    /\ pm \in Gas \cup {0} /\ co \in Dust \cup {0}
    /\ win \in [Slot -> Gas \cup {0}]
    /\ past \in Seq(Gas) /\ Len(past) <= Hours + 1
    /\ upPc \in {"co", "hour", "count", "shift", "last"} => pm \in Gas

\* The values of the calculation. A divisor of 0 has a dividend of 0.
CalOK ==
    /\ calPc \in CalPc /\ calI \in 0 .. Hours
    /\ calPc \in {"bounds", "weigh"} => calI \in Slot
    /\ aqiCO \in I[1] .. I[8] \cup Junk /\ aqi \in -1 .. I[8] \cup Junk
    /\ cmin \in Gas \cup {0} /\ cmax \in Gas \cup {0}
    /\ up \in Int /\ down \in Nat
    /\ calPc = "bounds" => up = 0 /\ down = 0
    /\ calPc \in {"weigh", "three"} /\ down = 0 => up = 0
    /\ overlap \in {"no", "yes"}

\* What is stored is of a node.
LEMMA StoredType ==
    ASSUME AirAssumption, FrameOK, upPc \in {"pm", "co"}
    PROVE  PkgPm25(macMsgData) \in Gas /\ PkgCo(macMsgData) \in Dust
<1>1. PICK f \in Sent : /\ macMsgData.FRMPayload[1] = f.dust
                        /\ macMsgData.FRMPayload[2] = f.gas
    BY DEF FrameOK, Arrived
<1>. QED
    BY <1>1, SentType DEF PkgPm25, PkgCo

\* The past stays a sequence of samples, of the window's hours and one.
LEMMA PastType ==
    ASSUME AirAssumption, SlotOK, pm \in Gas
    PROVE  NextPast \in Seq(Gas) /\ Len(NextPast) <= Hours + 1
<1>1. past \in Seq(Gas) /\ Len(past) <= Hours + 1 /\ Len(past) \in Nat /\ Hours \in Nat
    BY Constants, LenProperties DEF SlotOK
<1>2. CASE Len(past) > Hours
    <2> DEFINE t == Tail(past)
    <2>1. past # <<>>
        BY <1>1, <1>2
    <2>2. t \in Seq(Gas) /\ Len(t) = Len(past) - 1
        BY <1>1, <2>1, HeadTailProperties
    <2>3. NextPast = Append(t, pm)
        BY <1>2 DEF NextPast
    <2> HIDE DEF t
    <2>4. Append(t, pm) \in Seq(Gas) /\ Len(Append(t, pm)) = Len(t) + 1
        BY <2>2, AppendProperties
    <2>. QED
        BY <1>1, <2>2, <2>3, <2>4
<1>3. CASE ~(Len(past) > Hours)
    <2>1. NextPast = Append(past, pm)
        BY <1>3 DEF NextPast
    <2>2. Append(past, pm) \in Seq(Gas) /\ Len(Append(past, pm)) = Len(past) + 1
        BY <1>1, AppendProperties
    <2>. QED
        BY <1>1, <1>3, <2>1, <2>2
<1>. QED
    BY <1>2, <1>3

\* An element of the window may be replaced by a sample.
LEMMA WinType ==
    ASSUME AirAssumption, SlotOK
    PROVE  /\ \A i \in Slot : win[i] \in Gas \cup {0} /\ win[i] \in Int
           /\ \A i \in Slot, x \in Gas \cup {0} : [win EXCEPT ![i] = x] \in [Slot -> Gas \cup {0}]
           /\ past # <<>> => past[Len(past)] \in Gas
<1>1. Gas \subseteq Int /\ win \in [Slot -> Gas \cup {0}] /\ past \in Seq(Gas)
    BY Constants DEF SlotOK
<1>2. past # <<>> => past[Len(past)] \in Gas
    <2>1. past # <<>> => Len(past) \in 1 .. Len(past)
        BY <1>1, EmptySeq
    <2>. QED
        BY <1>1, <2>1, ElementOfSeq
<1> DEFINE G == Gas \cup {0}
<1>4. win \in [Slot -> G] /\ G \subseteq Int
    BY <1>1, Literals
<1> HIDE DEF G
<1>3. \A i \in Slot : win[i] \in G /\ win[i] \in Int
    BY <1>4
<1>5. \A i \in Slot, x \in G : [win EXCEPT ![i] = x] \in [Slot -> G]
    BY <1>4
<1>. QED
    BY <1>2, <1>3, <1>5 DEF G

\* Nothing has been stored at first.
LEMMA SInit ==
    ASSUME AirAssumption, Init
    PROVE  SlotOK
<1>1. Hours \in Nat
    BY Constants
<1>2. past = <<>> /\ past \in Seq(Gas) /\ Len(past) = 0
    BY EmptySeq DEF Init
<1>. QED
    BY <1>1, <1>2 DEF Init, SlotOK, UpPc

\* Every step keeps the types of the slot.
LEMMA SStep ==
    ASSUME AirAssumption, FrameOK, WInv, SlotOK, [Next]_vars
    PROVE  SlotOK'
<1>1. Hours \in Nat /\ Hours > 2
    BY Constants
<1>2. CASE UpPacket
    <2>1. PICK bytes, what : UpReceive(bytes, what)
        BY <1>2 DEF UpPacket
    <2>2. /\ upPc = "fetch" /\ upPc' \in {"fetch", "pm", "ended"}
          /\ UNCHANGED <<pm, co, win, past, upI>>
        BY <2>1 DEF UpReceive, MayReceive, slotVars
    <2>. QED
        BY <2>2 DEF SlotOK, UpPc
<1>3. CASE UpPm
    <2>1. upPc = "pm" /\ UNCHANGED <<co, win, past, upI>>
        BY <1>3 DEF UpPm
    <2>2. \/ pm' = PkgPm25(macMsgData) /\ upPc' = "co"
          \/ upPc' = "fetch" /\ UNCHANGED pm
        BY <1>3 DEF UpPm
    <2>3. PkgPm25(macMsgData) \in Gas
        BY <2>1, StoredType
    <2>. QED
        BY <2>1, <2>2, <2>3 DEF SlotOK, UpPc
<1>4. CASE UpCo
    <2>1. /\ upPc = "co" /\ co' = PkgCo(macMsgData) /\ upPc' \in {"shift", "hour"} /\ upI' = 1
          /\ UNCHANGED <<pm, win, past>>
        BY <1>4 DEF UpCo
    <2>2. PkgCo(macMsgData) \in Dust
        BY <2>1, StoredType
    <2>3. 1 \in 0 .. Hours + 1
        BY <1>1
    <2>. QED
        BY <2>1, <2>2, <2>3 DEF SlotOK, UpPc
<1>5. CASE UpHour
    <2>1. /\ upPc = "hour" /\ win' = [win EXCEPT ![n + 1] = pm] /\ upPc' = "count"
          /\ UNCHANGED <<pm, co, past, upI>>
        BY <1>5 DEF UpHour
    <2>2. n + 1 \in Slot
        BY <1>1, <2>1 DEF WInv, PlaceOK, Slot
    <2>3. win' \in [Slot -> Gas \cup {0}]
        BY <2>1, <2>2, WinType DEF SlotOK
    <2>. QED
        BY <2>1, <2>3 DEF SlotOK, UpPc
<1>6. CASE UpCount
    <2>1. /\ upPc = "count" /\ past' = NextPast /\ upPc' = "fetch"
          /\ UNCHANGED <<pm, co, win, upI>>
        BY <1>6 DEF UpCount
    <2>2. NextPast \in Seq(Gas) /\ Len(NextPast) <= Hours + 1
        BY <2>1, PastType DEF SlotOK
    <2>. QED
        BY <2>1, <2>2 DEF SlotOK, UpPc
<1>7. CASE UpShift
    <2>1. /\ upPc = "shift" /\ upI' = upI + 1 /\ upPc' \in {"last", "shift"}
          /\ win' = [win EXCEPT ![upI] = IF upI = Hours THEN pm ELSE win[upI + 1]]
          /\ UNCHANGED <<pm, co, past>>
        BY <1>7 DEF UpShift
    <2>2. upI \in Slot
        BY <2>1 DEF WInv, PlaceOK
    <2>3. upI + 1 \in 0 .. Hours + 1 /\ (upI # Hours => upI + 1 \in Slot)
        BY <1>1, <2>2 DEF Slot
    <2>4. win' \in [Slot -> Gas \cup {0}]
        <3>1. pm \in Gas
            BY <2>1 DEF SlotOK
        <3>2. (IF upI = Hours THEN pm ELSE win[upI + 1]) \in Gas \cup {0}
            BY <2>3, <3>1, WinType
        <3>. QED
            BY <2>1, <2>2, <3>2, WinType
    <2>. QED
        BY <2>1, <2>3, <2>4 DEF SlotOK, UpPc
<1>8. CASE UpLast
    <2>1. /\ upPc = "last" /\ win' = [win EXCEPT ![Hours] = pm] /\ past' = NextPast
          /\ upPc' = "fetch" /\ UNCHANGED <<pm, co, upI>>
        BY <1>8 DEF UpLast
    <2>2. NextPast \in Seq(Gas) /\ Len(NextPast) <= Hours + 1
        BY <2>1, PastType DEF SlotOK
    <2>3. Hours \in Slot /\ pm \in Gas
        BY <1>1, <2>1 DEF SlotOK, Slot
    <2>4. win' \in [Slot -> Gas \cup {0}]
        BY <2>1, <2>3, WinType
    <2>. QED
        BY <2>1, <2>2, <2>4 DEF SlotOK, UpPc
<1>9. CASE CalCo \/ CalTest \/ CalBounds \/ CalWeigh \/ CalThree \/ CalSleep
    <2>1. UNCHANGED <<slotVars, upVars>>
        BY <1>9 DEF CalCo, CalTest, CalBounds, CalWeigh, CalThree, CalSleep
    <2>. QED
        BY <2>1 DEF SlotOK, slotVars, upVars
<1>10. CASE UNCHANGED vars
    BY <1>10 DEF SlotOK, vars, slotVars, upVars
<1>. QED
    BY <1>2, <1>3, <1>4, <1>5, <1>6, <1>7, <1>8, <1>9, <1>10 DEF Next

\* A magnitude is not negative.
LEMMA AbsType ==
    ASSUME NEW x \in Int
    PROVE  Abs(x) \in Nat /\ (x # 0 => Abs(x) > 0) /\ (x >= 0 => Abs(x) = x)
BY DEF Abs

\* The elements read are in the window, and their weights are not negative.
LEMMA WeightType ==
    ASSUME AirAssumption, NEW lo \in Int, NEW hi \in Int, NEW i \in Slot, NEW low
    PROVE  /\ Weight(low, lo, hi, i) \in Nat /\ Element(low, i) \in Slot
           /\ Power(2, Hours) \in Nat /\ Power(2, Hours) > 0
<1>1. Hours \in Nat /\ i - 1 \in Nat /\ Hours - i \in Nat /\ Hours + 1 - i \in Slot
    BY Constants DEF Slot
<1>2. Abs(lo) \in Nat /\ Abs(hi) \in Nat /\ 2 \in Nat /\ 2 > 0
    BY AbsType
<1>3. /\ Power(2, Hours) \in Nat /\ Power(2, Hours) > 0 /\ Power(2, Hours - i) \in Nat
      /\ Power(Abs(lo), i - 1) \in Nat /\ Power(Abs(hi), Hours - i) \in Nat
    BY <1>1, <1>2, PowerSign
<1>4. \A x, y \in Nat : x * y \in Nat
    OBVIOUS
<1>. QED
    BY <1>1, <1>3, <1>4 DEF Weight, Element

\* An index is within the tables, or junk.
LEMMA ResultType ==
    ASSUME NEW num \in Int, NEW den \in Nat, den = 0 => num = 0,
           NEW BP \in {BP_CO, BP_PM25}, NEW r \in Results(num, den, BP)
    PROVE  r \in I[1] .. I[8] \cup Junk
<1>1. I[1] = 0 /\ I[8] = 500
    BY DEF I
<1>2. CASE num > 0
    <2>1. den > 0
        BY <1>2
    <2>2. r \in 0 .. 500
        BY <1>2, <2>1, IndexOf
    <2>. QED
        BY <1>1, <2>2
<1>3. CASE num <= 0
    BY <1>3, NoIndex
<1>. QED
    BY <1>2, <1>3

\* The greater of two indices is one of them.
LEMMA AqiType ==
    ASSUME AirAssumption, NEW p \in -1 .. I[8] \cup Junk, NEW c \in I[1] .. I[8] \cup Junk
    PROVE  CalAqi(p, c) \in -1 .. I[8] \cup Junk
<1>1. I[1] = 0 /\ I[8] = 500
    BY DEF I
<1>. QED
    BY <1>1 DEF CalAqi

\* Nothing has been computed at first.
LEMMA CInit ==
    ASSUME AirAssumption, Init
    PROVE  CalOK
<1>1. I[1] = 0 /\ I[8] = 500 /\ Hours \in Nat
    BY Constants DEF I
<1>. QED
    BY <1>1 DEF Init, CalOK, CalPc

\* Every step keeps the types of the calculation.
LEMMA CStep ==
    ASSUME AirAssumption, SlotOK, CalOK, [Next]_vars
    PROVE  CalOK'
<1>1. Hours \in Nat /\ Hours > 2 /\ Junk \subseteq Int /\ Dust \subseteq Nat /\ Gas \subseteq Int
    BY Constants
<1>2. I[1] = 0 /\ I[8] = 500
    BY DEF I
<1>3. CASE UpPacket \/ UpPm \/ UpCo \/ UpHour \/ UpCount \/ UpShift \/ UpLast
    <2>1. UNCHANGED calVars /\ overlap' \in {overlap, "yes"}
        BY <1>3 DEF UpPacket, UpReceive, UpPm, UpCo, UpHour, UpCount, UpShift, UpLast, Touch
    <2>. QED
        BY <2>1 DEF CalOK, calVars, sumVars
<1>4. CASE CalCo
    <2>1. /\ aqiCO' \in Results(co, 1, BP_CO) /\ calPc' = "test" /\ overlap' \in {"no", "yes"}
          /\ UNCHANGED <<calI, cmin, cmax, up, down, aqi>>
        BY <1>4 DEF CalCo, sumVars
    <2>2. co \in Int /\ 1 \in Nat /\ (1 = 0 => co = 0)
        BY <1>1 DEF SlotOK
    <2>3. aqiCO' \in I[1] .. I[8] \cup Junk
        BY <2>1, <2>2, ResultType
    <2>. QED
        BY <2>1, <2>3 DEF CalOK, CalPc
<1>5. CASE CalTest
    <2>1. UNCHANGED <<aqiCO, overlap>>
        BY <1>5 DEF CalTest
    <2>2. \/ Done(-1) /\ UNCHANGED sumVars
          \/ /\ cmin' = win[1] /\ cmax' = win[1] /\ up' = 0 /\ down' = 0
             /\ calPc' = "bounds" /\ calI' = 1 /\ UNCHANGED aqi
        BY <1>5 DEF CalTest
    <2>3. CASE Done(-1) /\ UNCHANGED sumVars
        <3>1. aqi' \in -1 .. I[8] \cup Junk
            <4>1. -1 \in -1 .. I[8] \cup Junk
                BY <1>2
            <4>2. aqiCO \in I[1] .. I[8] \cup Junk
                BY DEF CalOK
            <4>3. aqi' = CalAqi(-1, aqiCO)
                BY <2>3 DEF Done
            <4>. QED
                BY <4>1, <4>2, <4>3, AqiType
        <3>2. 0 \in 0 .. Hours
            BY <1>1
        <3>. QED
            BY <2>1, <2>3, <3>1, <3>2 DEF Done, CalOK, CalPc, sumVars
    <2>4. CASE /\ cmin' = win[1] /\ cmax' = win[1] /\ up' = 0 /\ down' = 0
               /\ calPc' = "bounds" /\ calI' = 1 /\ UNCHANGED aqi
        <3>1. 1 \in Slot /\ 1 \in 0 .. Hours
            BY <1>1 DEF Slot
        <3>2. win[1] \in Gas \cup {0}
            BY <3>1, WinType
        <3>. QED
            BY <2>1, <2>4, <3>1, <3>2 DEF CalOK, CalPc
    <2>. QED
        BY <2>2, <2>3, <2>4
<1>6. CASE CalBounds
    <2>1. /\ calPc = "bounds" /\ UNCHANGED <<aqiCO, up, down, aqi, overlap>>
          /\ cmax' \in {win[calI], cmax} /\ cmin' \in {win[calI], cmin}
          /\ calI' = (IF calI = Hours THEN 1 ELSE calI + 1)
          /\ calPc' = IF calI = Hours THEN "weigh" ELSE "bounds"
        BY <1>6 DEF CalBounds
    <2>2. calI \in Slot /\ up = 0 /\ down = 0
        BY <2>1 DEF CalOK
    <2>3. calI' \in Slot /\ calI' \in 0 .. Hours
        BY <1>1, <2>1, <2>2 DEF Slot
    <2>4. cmin' \in Gas \cup {0} /\ cmax' \in Gas \cup {0}
        BY <2>1, <2>2, WinType DEF CalOK
    <2>. QED
        BY <2>1, <2>2, <2>3, <2>4 DEF CalOK, CalPc
<1>7. CASE CalWeigh
    <2> DEFINE low == Low(cmin, cmax)
               w   == Weight(low, cmin, cmax, calI)
               e   == win[Element(low, calI)]
    <2>1. /\ calPc = "weigh" /\ UNCHANGED <<aqiCO, cmin, cmax, aqi, overlap>>
          /\ up' = up + w * e
          /\ down' = (IF low THEN Power(2, Hours) ELSE down + w)
          /\ calI' = (IF calI = Hours THEN 1 ELSE calI + 1)
          /\ calPc' \in {"weigh", "three"}
        BY <1>7 DEF CalWeigh
    <2>2. calI \in Slot /\ up \in Int /\ down \in Nat /\ (down = 0 => up = 0)
        BY <2>1 DEF CalOK
    <2>3. calI' \in Slot /\ calI' \in 0 .. Hours
        BY <1>1, <2>1, <2>2 DEF Slot
    <2>4. cmin \in Int /\ cmax \in Int
        BY <1>1 DEF CalOK
    <2>5. /\ w \in Nat /\ Element(low, calI) \in Slot
          /\ Power(2, Hours) \in Nat /\ Power(2, Hours) > 0
        BY <2>2, <2>4, WeightType
    <2>6. e \in Int
        BY <2>5, WinType
    <2> HIDE DEF low, w, e
    <2>7. w * e \in Int /\ (w = 0 => w * e = 0)
        <3>1. \A x \in Nat, y \in Int : x * y \in Int /\ (x = 0 => x * y = 0)
            OBVIOUS
        <3>. QED
            BY <2>5, <2>6, <3>1
    <2>8. up' \in Int /\ down' \in Nat /\ (down' = 0 => up' = 0)
        BY <2>1, <2>2, <2>5, <2>7
    <2>. QED
        BY <2>1, <2>3, <2>8 DEF CalOK, CalPc
<1>8. CASE CalThree
    <2>1. calPc = "three" /\ UNCHANGED <<aqiCO, cmin, cmax, up, down, overlap>>
        BY <1>8 DEF CalThree, sumVars
    <2>2. up \in Int /\ down \in Nat /\ (down = 0 => up = 0)
        BY <2>1 DEF CalOK
    <2>3. PICK r \in -1 .. I[8] \cup Junk : Done(r)
        <3>1. CASE Done(-1)
            BY <1>2, <3>1
        <3>2. CASE \E r \in Results(up, down, BP_PM25) : Done(r)
            <4>1. PICK r \in Results(up, down, BP_PM25) : Done(r)
                BY <3>2
            <4>2. r \in I[1] .. I[8] \cup Junk
                BY <2>2, <4>1, ResultType
            <4>. QED
                BY <1>2, <4>1, <4>2
        <3>. QED
            BY <1>8, <3>1, <3>2 DEF CalThree
    <2>4. aqi' \in -1 .. I[8] \cup Junk
        BY <2>3, AqiType DEF Done, CalOK
    <2>5. calPc' = "done" /\ calI' = 0 /\ 0 \in 0 .. Hours
        BY <1>1, <2>3 DEF Done
    <2>. QED
        BY <2>1, <2>4, <2>5 DEF CalOK, CalPc
<1>9. CASE CalSleep
    <2>1. /\ calPc' = "sleep" /\ overlap' = "no" /\ calI' = calI
          /\ aqiCO' = 0 /\ aqi' = 0 /\ cmin' = 0 /\ cmax' = 0 /\ up' = 0 /\ down' = 0
        BY <1>9 DEF CalSleep
    <2>. QED
        BY <1>2, <2>1 DEF CalOK, CalPc
<1>10. CASE UNCHANGED vars
    BY <1>10 DEF CalOK, vars, calVars, sumVars
<1>. QED
    BY <1>3, <1>4, <1>5, <1>6, <1>7, <1>8, <1>9, <1>10 DEF Next

\* What is always so of the frames, the slot and the calculation.
TInv == FrameOK /\ WInv /\ SlotOK /\ CalOK

\* All of this holds at first.
LEMMA TInit ==
    ASSUME AirAssumption, Init
    PROVE  TInv
BY FInit, WInit, SInit, CInit DEF TInv

\* Every step keeps it.
LEMMA TStep ==
    ASSUME AirAssumption, TInv, [Next]_vars
    PROVE  TInv'
<1>1. FrameOK' /\ WInv'
    BY FStep, WStep DEF TInv
<1>2. SlotOK'
    BY SStep DEF TInv
<1>3. CalOK'
    BY CStep DEF TInv
<1>. QED
    BY <1>1, <1>2, <1>3 DEF TInv

\* The arrays of a message keep their lengths.
LEMMA MessageLengths ==
    ASSUME NEW m \in Message(12, 2), NEW f \in {"DevAddr", "Buffer", "FRMPayload"}
    PROVE  Len(m[f]) = Len(ZeroFrame[f])
<1>1. ZeroFrame \in Message(12, 2)
    BY ZeroIsMessage
<1>2. \A z \in Message(12, 2) :
          Len(z.DevAddr) = 4 /\ Len(z.Buffer) = 12 /\ Len(z.FRMPayload) = 2
    <2> TAKE z \in Message(12, 2)
    <2>1. z.DevAddr \in Bytes(4) /\ z.Buffer \in Bytes(12) /\ z.FRMPayload \in Bytes(2)
        BY DEF Message
    <2>. QED
        BY <2>1, LenOfBytes
<1>. QED
    BY <1>1, <1>2

\* It has the types asked for.
LEMMA TImplies ==
    ASSUME AirAssumption, TInv
    PROVE  TypeOK
<1>1. macMsgData \in Message(12, 2) /\ ackMsg \in Message(12, 2) /\ sent \in Sent \cup {NoNode}
    BY DEF TInv, FrameOK, Arrived
<1>2. n \in 0 .. Hours
    BY DEF TInv, WInv, PlaceOK
<1>. QED
    BY <1>1, <1>2, MessageLengths DEF TInv, SlotOK, CalOK, TypeOK

\* TypeOK of AirQuality for all constants: n never passes the window, no number of
\* another network is stored, and a division by 0 gives no index but an unset one.
THEOREM TypeCorrect == Spec => []TypeOK
<1>1. Init => TInv
    BY TInit, AirAssumption
<1>2. TInv /\ [Next]_vars => TInv'
    BY TStep, AirAssumption
<1>3. TInv => TypeOK
    BY TImplies, AirAssumption
<1>. QED
    BY <1>1, <1>2, <1>3, PTL DEF Spec
------------------------------------------------------------------------------
(* The weighted mean, with stores between the passes over the window. *)

\* Where thread_up is when it is not storing.
Waiting == {"fetch", "ended", "pm"}

\* Which hour is the newest, and what a calculation has seen of the stores.
LatestOK ==
    /\ upPc = "pm" => overlap = "no"
    /\ calPc # "sleep" /\ overlap = "no" => upPc \in Waiting
    /\ past # <<>> /\ upPc \in Waiting => pm = past[Len(past)]
    /\ calPc # "sleep" => past # <<>>
    /\ calPc \in {"bounds", "weigh", "three"} => n = Hours
    /\ upPc = "last" => win[Hours] = pm

\* The hours that a calculation may have read: those of the window and the newest one;
\* those that are past, once a store is over.
Reach ==
    {past[Len(past) - Hours + i] : i \in Slot} \cup {pm}
        \cup IF overlap = "yes" /\ upPc \notin {"co", "shift", "last"} THEN Range(past) ELSE {}

\* The sum of the weights of the first i elements.
Share(i) == IF Low(cmin, cmax) THEN Power(2, Hours) - Power(2, Hours - i) ELSE down

\* The weighted sum is within every bound of the hours.
Within(i) ==
    \A m \in Int : /\ (\A x \in Reach : x <= m) => up <= m * Share(i)
                   /\ (\A x \in Reach : m <= x) => m * Share(i) <= up

\* What the loop over the weights has summed.
MeanOK ==
    /\ calPc = "weigh" => Within(calI - 1)
    /\ calPc = "three" => Within(Hours) /\ (Low(cmin, cmax) => down = Power(2, Hours))

\* No calculation runs at first.
LEMMA LInit ==
    ASSUME Init
    PROVE  LatestOK /\ MeanOK
BY DEF Init, LatestOK, MeanOK

\* Once an hour is over, the newest one ends the past.
LEMMA PastNotEmpty ==
    ASSUME AirAssumption, TInv
    PROVE  /\ NextPast # <<>> /\ NextPast[Len(NextPast)] = pm
           /\ Hours \in Nat /\ Hours > 2 /\ Hours \in Slot
<1>1. Hours \in Nat /\ Hours > 2
    BY Constants
<1>2. PastOK
    BY DEF TInv, WInv
<1>3. NextPast[Len(NextPast)] = pm
    BY <1>1, <1>2, PastGrows
<1>4. NextPast # <<>>
    <2>1. PICK S : past \in Seq(S)
        BY <1>2 DEF PastOK
    <2>2. Len(past) \in Nat /\ Len(NextPast) > 0
        BY <1>1, <1>2, PastGrows
    <2>3. Len(<<>>) = 0
        OBVIOUS
    <2>. QED
        BY <2>2, <2>3
<1>. QED
    BY <1>1, <1>3, <1>4 DEF Slot

\* Every step keeps which hour is the newest.
LEMMA LStep ==
    ASSUME AirAssumption, TInv, LatestOK, [Next]_vars
    PROVE  LatestOK'
<1>1. /\ NextPast # <<>> /\ NextPast[Len(NextPast)] = pm
      /\ Hours \in Nat /\ Hours > 2 /\ Hours \in Slot
    BY PastNotEmpty
<1>2. CASE UpPacket
    <2>1. PICK bytes, what : UpReceive(bytes, what)
        BY <1>2 DEF UpPacket
    <2>2. /\ upPc = "fetch" /\ upPc' \in {"fetch", "pm", "ended"} /\ overlap = "no"
          /\ UNCHANGED <<pm, win, past, n, calPc, overlap>>
        BY <2>1 DEF UpReceive, MayReceive, slotVars, calVars
    <2>. QED
        BY <2>2 DEF LatestOK, Waiting
<1>3. CASE UpPm
    <2>1. /\ upPc = "pm" /\ UNCHANGED <<win, past, n, calPc>>
          /\ \/ upPc' = "co" /\ Touch
             \/ upPc' = "fetch" /\ UNCHANGED <<pm, overlap>>
        BY <1>3 DEF UpPm, calVars
    <2>. QED
        BY <2>1 DEF LatestOK, Waiting, Touch
<1>4. CASE UpCo
    <2>1. /\ upPc = "co" /\ upPc' \in {"shift", "hour"} /\ Touch
          /\ UNCHANGED <<pm, win, past, n, calPc>>
        BY <1>4 DEF UpCo, calVars
    <2>. QED
        BY <2>1 DEF LatestOK, Waiting, Touch
<1>5. CASE UpHour
    <2>1. /\ upPc = "hour" /\ upPc' = "count" /\ Touch /\ UNCHANGED <<pm, past, n, calPc>>
        BY <1>5 DEF UpHour, calVars
    <2>. QED
        BY <2>1 DEF LatestOK, Waiting, Touch
<1>6. CASE UpCount
    <2>1. /\ upPc = "count" /\ upPc' = "fetch" /\ Touch /\ past' = NextPast
          /\ UNCHANGED <<pm, calPc>>
        BY <1>6 DEF UpCount, calVars
    <2>2. n # Hours
        BY <1>1, <2>1 DEF TInv, WInv, PlaceOK
    <2>. QED
        BY <1>1, <2>1, <2>2 DEF LatestOK, Waiting, Touch
<1>7. CASE UpShift
    <2>1. /\ upPc = "shift" /\ Touch /\ UNCHANGED <<pm, past, n, calPc>>
          /\ upPc' = (IF upI = Hours THEN "last" ELSE "shift")
          /\ win' = [win EXCEPT ![upI] = IF upI = Hours THEN pm ELSE win[upI + 1]]
        BY <1>7 DEF UpShift, calVars
    <2>2. upI = Hours => win'[Hours] = pm
        BY <1>1, <2>1 DEF TInv, SlotOK
    <2>. QED
        BY <2>1, <2>2 DEF LatestOK, Waiting, Touch
<1>8. CASE UpLast
    <2>1. /\ upPc = "last" /\ upPc' = "fetch" /\ Touch /\ past' = NextPast
          /\ UNCHANGED <<pm, n, calPc>>
        BY <1>8 DEF UpLast, calVars
    <2>. QED
        BY <1>1, <2>1 DEF LatestOK, Waiting, Touch
<1>9. CASE CalCo
    <2>1. /\ past # <<>> /\ calPc' = "test" /\ UNCHANGED <<pm, win, past, n, upPc>>
          /\ overlap' = IF upPc \in {"fetch", "ended", "pm"} THEN "no" ELSE "yes"
        BY <1>9 DEF CalCo, slotVars, upVars
    <2>. QED
        BY <2>1 DEF LatestOK, Waiting
<1>10. CASE CalTest
    <2>1. calPc = "test" /\ UNCHANGED <<pm, win, past, n, upPc, overlap>>
        BY <1>10 DEF CalTest, slotVars, upVars
    <2>2. calPc' = "done" \/ (calPc' = "bounds" /\ n = Hours)
        BY <1>10 DEF CalTest, Done
    <2>. QED
        BY <2>1, <2>2 DEF LatestOK, Waiting
<1>11. CASE CalBounds \/ CalWeigh \/ CalThree
    <2>1. /\ calPc \in {"bounds", "weigh", "three"}
          /\ calPc' \in {"bounds", "weigh", "three", "done"}
          /\ UNCHANGED <<pm, win, past, n, upPc, overlap>>
        BY <1>11 DEF CalBounds, CalWeigh, CalThree, Done, slotVars, upVars
    <2>. QED
        BY <2>1 DEF LatestOK, Waiting
<1>12. CASE CalSleep
    <2>1. calPc' = "sleep" /\ overlap' = "no" /\ UNCHANGED <<pm, win, past, n, upPc>>
        BY <1>12 DEF CalSleep, slotVars, upVars
    <2>. QED
        BY <2>1 DEF LatestOK, Waiting
<1>13. CASE UNCHANGED vars
    BY <1>13 DEF LatestOK, Waiting, vars, slotVars, upVars, calVars
<1>. QED
    BY <1>2, <1>3, <1>4, <1>5, <1>6, <1>7, <1>8, <1>9, <1>10, <1>11, <1>12, <1>13 DEF Next

\* What a calculation reads of the window, moved or not, is within its reach.
LEMMA ReadInReach ==
    ASSUME AirAssumption, TInv, LatestOK, n = Hours, NEW i \in Slot
    PROVE  win[i] \in Reach
<1>1. Hours \in Nat /\ Len(past) \in Nat
    <2>1. past \in Seq(Gas)
        BY DEF TInv, SlotOK
    <2>. QED
        BY <2>1, Constants, LenProperties
<1> DEFINE Last == {past[Len(past) - Hours + j] : j \in Slot} \cup {pm}
<1>2. Last \subseteq Reach
    BY DEF Reach
<1>3. Kept(i) => win[i] \in Last
    BY DEF Kept
<1>4. i < Hours /\ Moved(i) => win[i] \in Last
    <2>1. i < Hours => i + 1 \in Slot /\ Len(past) - Hours + i + 1 = Len(past) - Hours + (i + 1)
        BY <1>1 DEF Slot
    <2>. QED
        BY <2>1 DEF Moved
<1>5. i \in 1 .. Hours
    BY DEF Slot
<1>6. CASE upPc \notin {"shift", "last"}
    <2>1. Kept(i)
        BY <1>5, <1>6 DEF TInv, WInv, WindowOK
    <2>. QED
        BY <1>2, <1>3, <2>1
<1>7. CASE upPc = "shift"
    <2>1. /\ \A j \in 1 .. upI - 1 : Moved(j)
          /\ \A j \in upI .. Hours : Kept(j)
          /\ upI \in 1 .. Hours
        BY <1>7 DEF TInv, WInv, WindowOK, PlaceOK, Slot
    <2>2. (i \in 1 .. upI - 1 /\ i < Hours) \/ i \in upI .. Hours
        BY <1>1, <1>5, <2>1
    <2>. QED
        BY <1>2, <1>3, <1>4, <2>1, <2>2
<1>8. CASE upPc = "last"
    <2>1. \A j \in 1 .. Hours - 1 : Moved(j)
        BY <1>8 DEF TInv, WInv, WindowOK
    <2>2. CASE i = Hours
        BY <1>2, <1>8, <2>2 DEF LatestOK
    <2>3. CASE i # Hours
        <3>1. i \in 1 .. Hours - 1 /\ i < Hours
            BY <1>1, <1>5, <2>3
        <3>. QED
            BY <1>2, <1>4, <2>1, <3>1
    <2>. QED
        BY <2>2, <2>3
<1>. QED
    BY <1>6, <1>7, <1>8

\* A store only adds to the reach of a calculation.
LEMMA ReachGrows ==
    ASSUME AirAssumption, TInv, LatestOK, calPc \in {"weigh", "three"},
           UpPacket \/ UpPm \/ UpCo \/ UpHour \/ UpCount \/ UpShift \/ UpLast
    PROVE  Reach \subseteq Reach'
<1>1. /\ Hours \in Nat /\ Hours > 2 /\ past \in Seq(Gas) /\ Len(past) \in Nat
      /\ Len(past) <= Hours + 1 /\ Hours <= Len(past) /\ n = Hours /\ past # <<>>
    <2>1. past \in Seq(Gas) /\ n <= Len(past) /\ n = Hours /\ Len(past) <= Hours + 1
        BY DEF TInv, SlotOK, WInv, PlaceOK, LatestOK
    <2>2. past # <<>>
        BY DEF LatestOK
    <2>. QED
        BY <2>1, <2>2, Constants, LenProperties
<1>2. CASE UpPacket
    <2>1. PICK bytes, what : UpReceive(bytes, what)
        BY <1>2 DEF UpPacket
    <2>2. /\ upPc = "fetch" /\ upPc' \in {"fetch", "pm", "ended"}
          /\ UNCHANGED <<pm, past, overlap>>
        BY <2>1 DEF UpReceive, MayReceive, slotVars
    <2>. QED
        BY <2>2 DEF Reach
<1>3. CASE UpPm
    <2>1. upPc = "pm" /\ UNCHANGED past
        BY <1>3 DEF UpPm
    <2>2. overlap = "no" /\ pm = past[Len(past)]
        BY <1>1, <2>1 DEF LatestOK, Waiting
    <2>3. pm \in {past[Len(past) - Hours + i] : i \in Slot}
        <3>1. Hours \in Slot /\ Len(past) - Hours + Hours = Len(past)
            BY <1>1 DEF Slot
        <3>. QED
            BY <2>2, <3>1
    <2>. QED
        BY <2>1, <2>2, <2>3 DEF Reach
<1>4. CASE UpCo
    <2>1. upPc = "co" /\ upPc' = "shift" /\ UNCHANGED <<pm, past>>
        BY <1>1, <1>4 DEF UpCo
    <2>. QED
        BY <2>1 DEF Reach
<1>5. CASE UpHour \/ UpCount
    <2>1. n # Hours
        BY <1>1, <1>5 DEF UpHour, UpCount, TInv, WInv, PlaceOK
    <2>. QED
        BY <1>1, <2>1
<1>6. CASE UpShift
    <2>1. upPc = "shift" /\ upPc' \in {"shift", "last"} /\ UNCHANGED <<pm, past>>
        BY <1>6 DEF UpShift
    <2>. QED
        BY <2>1 DEF Reach
<1>7. CASE UpLast
    <2> DEFINE m == Len(past)
               l == Len(past')
    <2>1. upPc = "last" /\ upPc' = "fetch" /\ past' = NextPast /\ overlap' = "yes"
          /\ UNCHANGED pm
        BY <1>7 DEF UpLast, Touch
    <2>2. PastOK
        BY DEF TInv, WInv
    <2>3. /\ l = (IF m > Hours THEN m ELSE m + 1) /\ past'[l] = pm
          /\ \A i \in 1 .. l - 1 : past'[l - i] = past[m - i + 1]
        BY <1>1, <2>1, <2>2, PastGrows
    <2>4. past' \in Seq(Gas)
        <3>1. pm \in Gas
            BY <2>1 DEF TInv, SlotOK
        <3>. QED
            BY <2>1, <3>1, PastType DEF TInv
    <2>5. DOMAIN past' = 1 .. l
        BY <2>4, LenProperties
    <2>6. l = Hours + 1
        BY <1>1, <2>3
    <2>7. Range(past') \subseteq Reach' /\ pm \in Reach'
        BY <2>1 DEF Reach
    <2>8. \A i \in Slot : past[m - Hours + i] \in Range(past')
        <3> TAKE i \in Slot
        <3> DEFINE k == Hours - i + 1
        <3>1. k \in 1 .. l - 1 /\ m - k + 1 = m - Hours + i /\ l - k \in 1 .. l
            BY <1>1, <2>6 DEF Slot
        <3>2. past'[l - k] = past[m - Hours + i]
            BY <2>3, <3>1
        <3>. QED
            BY <2>5, <3>1, <3>2 DEF Range
    <2>9. Reach = {past[m - Hours + i] : i \in Slot} \cup {pm}
        BY <2>1 DEF Reach
    <2>. QED
        BY <2>7, <2>8, <2>9
<1>. QED
    BY <1>2, <1>3, <1>4, <1>5, <1>6, <1>7

\* One element more, of weight w, keeps a weighted sum within a bound of the elements.
LEMMA OneMore ==
    ASSUME NEW m \in Int, NEW x \in Int, NEW w \in Nat, NEW s \in Int, NEW v \in Int
    PROVE  /\ x <= m /\ s <= m * v => s + w * x <= m * (v + w)
           /\ m <= x /\ m * v <= s => m * (v + w) <= s + w * x
<1>1. m * (v + w) = m * v + w * m
    OBVIOUS
<1>2. x <= m => w * x <= w * m
    OBVIOUS
<1>3. m <= x => w * m <= w * x
    OBVIOUS
<1>4. m * v \in Int /\ w * x \in Int /\ w * m \in Int
    OBVIOUS
<1>. QED
    BY <1>1, <1>2, <1>3, <1>4

\* What is within reach is a number.
LEMMA ReachType ==
    ASSUME AirAssumption, TInv, n = Hours, NEW x \in Reach
    PROVE  x \in Int
<1>1. /\ past \in Seq(Gas) /\ Gas \subseteq Int /\ Hours \in Nat /\ Len(past) \in Nat
      /\ Hours <= Len(past) /\ pm \in Gas \cup {0}
    <2>1. past \in Seq(Gas) /\ pm \in Gas \cup {0} /\ n <= Len(past)
        BY DEF TInv, SlotOK, WInv, PlaceOK
    <2>. QED
        BY <2>1, Constants, LenProperties
<1>2. \A k \in 1 .. Len(past) : past[k] \in Int
    BY <1>1, ElementOfSeq
<1>3. \A i \in Slot : past[Len(past) - Hours + i] \in Int
    <2>1. \A i \in Slot : Len(past) - Hours + i \in 1 .. Len(past)
        BY <1>1 DEF Slot
    <2>. QED
        BY <1>2, <2>1
<1>4. \A y \in Range(past) : y \in Int
    BY <1>1, <1>2, LenProperties DEF Range
<1>5. pm \in Int
    BY <1>1, Literals
<1>6. \/ \E i \in Slot : x = past[Len(past) - Hours + i]
      \/ x = pm
      \/ x \in Range(past)
    BY DEF Reach
<1>. QED
    BY <1>3, <1>4, <1>5, <1>6

\* A step of the loop over the weights.
LEMMA WeighKeeps ==
    ASSUME AirAssumption, TInv, LatestOK, MeanOK, CalWeigh
    PROVE  MeanOK'
<1> DEFINE low == Low(cmin, cmax)
           w   == Weight(low, cmin, cmax, calI)
           e   == win[Element(low, calI)]
<1>1. /\ calPc = "weigh" /\ UNCHANGED <<cmin, cmax, overlap, pm, past, upPc>>
      /\ up' = up + w * e
      /\ down' = (IF low THEN Power(2, Hours) ELSE down + w)
      /\ calI' = (IF calI = Hours THEN 1 ELSE calI + 1)
      /\ calPc' = IF calI = Hours THEN "three" ELSE "weigh"
    BY DEF CalWeigh, slotVars, upVars
<1>2. /\ calI \in Slot /\ up \in Int /\ down \in Nat /\ n = Hours
      /\ cmin \in Int /\ cmax \in Int /\ Hours \in Nat
    <2>1. calI \in Slot /\ up \in Int /\ down \in Nat /\ n = Hours
        BY <1>1 DEF TInv, CalOK, LatestOK
    <2>2. cmin \in Gas \cup {0} /\ cmax \in Gas \cup {0}
        BY DEF TInv, CalOK
    <2>. QED
        BY <2>1, <2>2, Constants, Literals
<1>3. /\ w \in Nat /\ Element(low, calI) \in Slot
      /\ Power(2, Hours) \in Nat
    BY <1>2, WeightType
<1>4. e \in Reach
    BY <1>2, <1>3, ReadInReach
<1>5. e \in Int
    BY <1>2, <1>4, ReachType
<1>6. PICK k \in Slot : k = calI
    BY <1>2
<1>7. Share(k - 1) \in Int /\ Share(k)' = Share(k - 1) + w
    <2>1. CASE low
        <3>1. Hours - k \in Nat /\ Hours - (k - 1) = (Hours - k) + 1 /\ 2 \in Int
            BY <1>2, <1>6 DEF Slot
        <3>2. /\ Power(2, Hours - k) \in Int
              /\ Power(2, (Hours - k) + 1) = 2 * Power(2, Hours - k)
            BY <3>1, PowerStep
        <3>3. w = Power(2, Hours - k)
            BY <1>6, <2>1 DEF Weight
        <3>4. Share(k - 1) = Power(2, Hours) - Power(2, (Hours - k) + 1)
            BY <2>1, <3>1 DEF Share
        <3>5. Share(k)' = Power(2, Hours) - Power(2, Hours - k)
            BY <1>1, <2>1 DEF Share
        <3>. QED
            BY <1>3, <3>2, <3>3, <3>4, <3>5
    <2>2. CASE ~low
        <3>1. Share(k - 1) = down
            BY <2>2 DEF Share
        <3>2. Share(k)' = down'
            BY <1>1, <2>2 DEF Share
        <3>. QED
            BY <1>1, <1>2, <1>3, <2>2, <3>1, <3>2
    <2>. QED
        BY <2>1, <2>2
<1>8. Reach' = Reach
    BY <1>1 DEF Reach
<1>9. Within(k - 1)
    BY <1>1, <1>6 DEF MeanOK
<1> HIDE DEF low, w, e
<1>10. Within(k)'
    <2>1. SUFFICES ASSUME NEW m \in Int
                   PROVE  /\ (\A x \in Reach : x <= m) => up' <= m * Share(k)'
                          /\ (\A x \in Reach : m <= x) => m * Share(k)' <= up'
        BY <1>8 DEF Within
    <2>2. /\ (\A x \in Reach : x <= m) => up <= m * Share(k - 1)
          /\ (\A x \in Reach : m <= x) => m * Share(k - 1) <= up
        BY <1>9 DEF Within
    <2>3. ASSUME \A x \in Reach : x <= m PROVE up' <= m * Share(k)'
        <3>1. up + w * e <= m * (Share(k - 1) + w)
            BY <1>2, <1>3, <1>4, <1>5, <1>7, <2>2, <2>3, OneMore
        <3>. QED
            BY <1>1, <1>7, <3>1
    <2>4. ASSUME \A x \in Reach : m <= x PROVE m * Share(k)' <= up'
        <3>1. m * (Share(k - 1) + w) <= up + w * e
            BY <1>2, <1>3, <1>4, <1>5, <1>7, <2>2, <2>4, OneMore
        <3>. QED
            BY <1>1, <1>7, <3>1
    <2>. QED
        BY <2>3, <2>4
<1>11. CASE k = Hours
    <2>1. Within(Hours)'
        BY <1>10, <1>11
    <2>2. calPc' = "three" /\ (Low(cmin, cmax)' => down' = Power(2, Hours))
        BY <1>1, <1>6, <1>11 DEF low
    <2>. QED
        BY <2>1, <2>2 DEF MeanOK
<1>12. CASE k # Hours
    <2>1. calPc' = "weigh" /\ calI' - 1 = k
        BY <1>1, <1>2, <1>6, <1>12 DEF Slot
    <2>2. Within(calI - 1)'
        BY <1>10, <2>1 DEF Within, Share
    <2>. QED
        BY <2>1, <2>2 DEF MeanOK
<1>. QED
    BY <1>11, <1>12

\* Every step keeps the sum within the bounds of the hours.
LEMMA MStep ==
    ASSUME AirAssumption, TInv, LatestOK, MeanOK, [Next]_vars
    PROVE  MeanOK'
<1>1. CASE UpPacket \/ UpPm \/ UpCo \/ UpHour \/ UpCount \/ UpShift \/ UpLast
    <2>1. UNCHANGED <<calPc, calI, cmin, cmax, up, down>>
        BY <1>1 DEF UpPacket, UpReceive, UpPm, UpCo, UpHour, UpCount, UpShift, UpLast,
                    calVars, sumVars
    <2>2. calPc \in {"weigh", "three"} => Reach \subseteq Reach'
        BY <1>1, ReachGrows
    <2>3. ASSUME NEW k, Within(k), Reach \subseteq Reach' PROVE Within(k)'
        <3>1. Share(k)' = Share(k)
            BY <2>1 DEF Share
        <3>. QED
            BY <2>1, <2>3, <3>1 DEF Within
    <2>4. calPc = "weigh" => Within(calI - 1)'
        <3>1. PICK k : k = calI - 1
            OBVIOUS
        <3>2. calPc = "weigh" => Within(k)'
            BY <2>2, <2>3, <3>1 DEF MeanOK
        <3>3. k = calI' - 1
            BY <2>1, <3>1
        <3>. QED
            BY <3>2, <3>3 DEF Within, Share
    <2>5. calPc = "three" => Within(Hours)'
        BY <2>2, <2>3 DEF MeanOK
    <2>. QED
        BY <2>1, <2>4, <2>5 DEF MeanOK
<1>2. CASE CalBounds
    <2>1. /\ calPc = "bounds" /\ UNCHANGED <<up, down>>
          /\ calI' = (IF calI = Hours THEN 1 ELSE calI + 1)
          /\ calPc' = IF calI = Hours THEN "weigh" ELSE "bounds"
        BY <1>2 DEF CalBounds
    <2>2. up' = 0 /\ down' = 0
        BY <2>1 DEF TInv, CalOK
    <2>3. CASE calI = Hours
        <3>1. calPc' = "weigh" /\ calI' - 1 = 0
            BY <2>1, <2>3
        <3>2. Share(0)' = 0
            <4>1. Hours \in Nat /\ Hours - 0 = Hours /\ 2 \in Nat
                BY Constants
            <4>2. Power(2, Hours) \in Nat
                BY <4>1, PowerSign
            <4>. QED
                BY <2>2, <4>1, <4>2 DEF Share
        <3>3. Within(0)'
            BY <2>2, <3>2 DEF Within
        <3>4. Within(calI - 1)'
            BY <3>1, <3>3 DEF Within, Share
        <3>. QED
            BY <3>1, <3>4 DEF MeanOK
    <2>4. CASE calI # Hours
        BY <2>1, <2>4 DEF MeanOK
    <2>. QED
        BY <2>3, <2>4
<1>3. CASE CalWeigh
    BY <1>3, WeighKeeps
<1>4. CASE CalCo \/ CalTest \/ CalThree \/ CalSleep
    <2>1. calPc' \in {"test", "bounds", "done", "sleep"}
        BY <1>4 DEF CalCo, CalTest, CalThree, CalSleep, Done
    <2>. QED
        BY <2>1 DEF MeanOK
<1>5. CASE UNCHANGED vars
    BY <1>5 DEF MeanOK, Within, Share, Reach, vars, slotVars, upVars, calVars, sumVars
<1>. QED
    BY <1>1, <1>2, <1>3, <1>4, <1>5 DEF Next

\* What is within reach is among the hours.
LEMMA ReachIsHours ==
    ASSUME AirAssumption, TInv, n = Hours
    PROVE  Reach \subseteq Range(past) \cup {pm}
<1>1. /\ past \in Seq(Gas) /\ Hours \in Nat /\ Len(past) \in Nat /\ Hours <= Len(past)
      /\ DOMAIN past = 1 .. Len(past)
    <2>1. past \in Seq(Gas) /\ n <= Len(past)
        BY DEF TInv, SlotOK, WInv, PlaceOK
    <2>. QED
        BY <2>1, Constants, LenProperties
<1>2. \A i \in Slot : past[Len(past) - Hours + i] \in Range(past)
    <2>1. \A i \in Slot : Len(past) - Hours + i \in DOMAIN past
        BY <1>1 DEF Slot
    <2>. QED
        BY <2>1 DEF Range
<1>. QED
    BY <1>2 DEF Reach

\* A mean within the bounds of hours that are not negative.
LEMMA MeanBounds ==
    ASSUME NEW p \in Nat, p > 0, NEW lo \in Nat, NEW hi \in Nat, NEW s \in Int, NEW d \in Nat,
           NEW v \in Int, v = d \/ (v = p - 1 /\ d = p), lo * v <= s, s <= hi * v
    PROVE  s <= hi * d /\ (p - 1) * lo * d <= s * p
<1>1. hi * (p - 1) <= hi * p
    OBVIOUS
<1>2. CASE v = p - 1 /\ d = p
    <2>1. \A a, b \in Int : a <= b => a * p <= b * p
        OBVIOUS
    <2>2. (lo * (p - 1)) * p <= s * p
        BY <1>2, <2>1
    <2>3. (lo * (p - 1)) * p = (p - 1) * lo * d
        BY <1>2
    <2>. QED
        BY <1>1, <1>2, <2>2, <2>3
<1>3. CASE v = d
    <2>1. \A a \in Nat, b \in Int : a <= b => (p - 1) * a <= b * p
        <3>1. \A a, b \in Nat : a <= b => (p - 1) * a <= b * p
            <4>1. \A a, b \in Nat : a <= b => p * a <= p * b
                OBVIOUS
            <4>2. \A a \in Nat : (p - 1) * a = p * a - a
                OBVIOUS
            <4>3. \A b \in Nat : b * p = p * b
                OBVIOUS
            <4>. QED
                BY <4>1, <4>2, <4>3
        <3>. QED
            BY <3>1
    <2>2. lo * d \in Nat
        OBVIOUS
    <2>3. (p - 1) * (lo * d) <= s * p
        BY <1>3, <2>1, <2>2
    <2>4. (p - 1) * lo * d = (p - 1) * (lo * d)
        OBVIOUS
    <2>. QED
        BY <1>3, <2>3, <2>4
<1>. QED
    BY <1>2, <1>3

\* So the mean that is computed from the sum is within them.
LEMMA MImplies ==
    ASSUME AirAssumption, TInv, LatestOK, MeanOK
    PROVE  NowcastBounded
<1> DEFINE hours == Range(past) \cup {pm}
<1>1. SUFFICES ASSUME calPc = "three", Min(hours) >= 0
               PROVE  /\ up <= Max(hours) * down
                      /\ up * Power(2, Hours) >= (Power(2, Hours) - 1) * Min(hours) * down
    BY DEF NowcastBounded
<1>2. /\ n = Hours /\ Within(Hours) /\ (Low(cmin, cmax) => down = Power(2, Hours))
      /\ up \in Int /\ down \in Nat /\ past \in Seq(Gas) /\ pm \in Gas \cup {0}
    BY <1>1 DEF TInv, CalOK, SlotOK, LatestOK, MeanOK
<1>3. past \in Seq(Int) /\ pm \in Int
    BY <1>2, Constants, Literals, SeqMonotonic
<1> DEFINE lo == Min(hours)
           hi == Max(hours)
<1>4. /\ lo \in Int /\ hi \in Int /\ lo <= hi
      /\ \A y \in hours : lo <= y /\ y <= hi
    <2>1. /\ hours \subseteq Int
          /\ hi \in hours /\ \A y \in hours : hi >= y
          /\ lo \in hours /\ \A y \in hours : lo <= y
        <3> HIDE DEF hours
        <3>1. \E S : S = hours /\ S = Range(past) \cup {pm}
            BY DEF hours
        <3>. QED
            BY <1>3, <3>1, HoursHaveEnds
    <2> HIDE DEF hours, lo, hi
    <2>. QED
        BY <2>1
<1>5. Reach \subseteq hours
    BY <1>2, ReachIsHours
<1> HIDE DEF hours, lo, hi
<1>6. /\ up <= hi * Share(Hours) /\ lo * Share(Hours) <= up
    BY <1>2, <1>4, <1>5 DEF Within
<1>7. /\ Power(2, Hours) \in Nat /\ Power(2, Hours) > 0
      /\ Hours - Hours = 0 /\ Power(2, 0) = 1
    <2>1. Hours \in Nat /\ 2 \in Nat /\ 2 \in Int /\ 2 > 0 /\ Hours - Hours = 0
        BY Constants
    <2>. QED
        BY <2>1, PowerSign, PowerStep
<1>8. /\ Share(Hours) \in Int
      /\ Share(Hours) = down \/ (Share(Hours) = Power(2, Hours) - 1 /\ down = Power(2, Hours))
    BY <1>2, <1>7 DEF Share
<1>9. lo \in Nat /\ hi \in Nat
    BY <1>1, <1>4 DEF lo
<1>10. up <= hi * down /\ (Power(2, Hours) - 1) * lo * down <= up * Power(2, Hours)
    BY <1>2, <1>6, <1>7, <1>8, <1>9, MeanBounds
<1>11. /\ up * Power(2, Hours) \in Int
       /\ (Power(2, Hours) - 1) * lo * down \in Int
    BY <1>2, <1>7, <1>9
<1>. QED
    BY <1>10, <1>11 DEF lo, hi

\* NowcastBounded of AirQuality for every length of the window and all values: the
\* mean stays within the bounds of the hours although a store may move the window
\* under the calculation.
THEOREM NowcastWithinBounds == Spec => []NowcastBounded
<1> DEFINE IInv == TInv /\ LatestOK /\ MeanOK
<1>1. Init => IInv
    BY TInit, LInit, AirAssumption
<1>2. IInv /\ [Next]_vars => IInv'
    BY TStep, LStep, MStep, AirAssumption
<1>3. IInv => NowcastBounded
    BY MImplies, AirAssumption
<1>. QED
    BY <1>1, <1>2, <1>3, PTL DEF Spec
------------------------------------------------------------------------------
(* The index of a calculation that no store has touched. *)

\* The terms of the weighted sum, and their weights, with the bounds found.
Weights == [i \in Slot |-> Weight(Low(cmin, cmax), cmin, cmax, i)]
Terms   == [i \in Slot |-> Weight(Low(cmin, cmax), cmin, cmax, i)
                               * win[Element(Low(cmin, cmax), i)]]

\* s[i] is the sum of the first i values of f.
PartialSums(s, f) == /\ s \in [0 .. Hours -> Int] /\ s[0] = 0 /\ s[Hours] = Sum(f)
                     /\ \A i \in 1 .. Hours : s[i] = s[i - 1] + f[i]

\* Of the first i elements, cmin is the least and cmax the greatest.
Extremes(i) == /\ cmin \in Range(win) /\ cmax \in Range(win)
               /\ \A j \in 1 .. i : cmin <= win[j] /\ win[j] <= cmax

\* The sums are those of the first i terms and weights.
Summed(i) == /\ \A s : PartialSums(s, Terms) => up = s[i]
             /\ ~Low(cmin, cmax) => \A s : PartialSums(s, Weights) => down = s[i]

\* What is written: the index of the weighted mean, if there is one, or that of CO.
Outcome ==
    /\ n = Hours /\ ~Missing(win) =>
          \E u \in Int, d \in Nat :
              /\ RefNowcast(win) = <<u, d>> /\ (d = 0 => u = 0)
              /\ \E r \in Results(u, d, BP_PM25) : aqi = CalAqi(r, aqiCO)
    /\ n # Hours \/ Missing(win) => aqi = CalAqi(-1, aqiCO)

\* What a calculation has computed at each of its places.
SoFar ==
    /\ aqiCO \in Results(co, 1, BP_CO)
    /\ calPc = "bounds" => Extremes(calI - 1)
    /\ calPc \in {"weigh", "three"} => Extremes(Hours)
    /\ calPc = "weigh" => Summed(calI - 1)
    /\ calPc = "three" => Summed(Hours)
    /\ calPc = "done" => Outcome

\* A calculation that no store has touched has what its place asks for.
AqiOK == calPc # "sleep" /\ overlap = "no" => SoFar

\* A step of thread_up touches a calculation, or leaves the slot alone.
LEMMA TouchOrNot ==
    ASSUME LatestOK, calPc # "sleep", overlap' = "no",
           UpPacket \/ UpPm \/ UpCo \/ UpHour \/ UpCount \/ UpShift \/ UpLast
    PROVE  overlap = "no" /\ UNCHANGED <<slotVars, calVars>>
<1>1. CASE UpPacket
    BY <1>1 DEF UpPacket, UpReceive
<1>2. CASE UpPm
    <2>1. upPc' = "fetch" /\ UNCHANGED <<pm, overlap>>
        BY <1>2 DEF UpPm, Touch
    <2>2. UNCHANGED <<co, win, n, past, calVars>>
        BY <1>2 DEF UpPm
    <2>. QED
        BY <2>1, <2>2 DEF slotVars
<1>3. CASE UpCo \/ UpHour \/ UpCount \/ UpShift \/ UpLast
    <2>1. Touch
        BY <1>3 DEF UpCo, UpHour, UpCount, UpShift, UpLast
    <2>. QED
        BY <2>1 DEF Touch
<1>. QED
    BY <1>1, <1>2, <1>3

\* The window's elements are those of Slot.
LEMMA WinRange ==
    ASSUME AirAssumption, SlotOK
    PROVE  /\ Range(win) = {win[j] : j \in Slot} /\ Range(win) \subseteq Int
           /\ \A j \in Slot : win[j] \in Int /\ win[j] \in Range(win)
<1>1. DOMAIN win = Slot
    BY DEF SlotOK
<1>2. \A j \in Slot : win[j] \in Int
    BY WinType
<1>. QED
    BY <1>1, <1>2 DEF Range

\* The next element extends the bounds found.
LEMMA BoundsKeep ==
    ASSUME AirAssumption, TInv, AqiOK, CalBounds
    PROVE  AqiOK'
<1>1. SUFFICES ASSUME overlap' = "no" PROVE SoFar'
    BY DEF AqiOK
<1>2. /\ calPc = "bounds" /\ UNCHANGED <<aqiCO, up, down, co, win, overlap>>
      /\ cmax' = (IF cmax < win[calI] THEN win[calI] ELSE cmax)
      /\ cmin' = (IF cmin > win[calI] THEN win[calI] ELSE cmin)
      /\ calI' = (IF calI = Hours THEN 1 ELSE calI + 1)
      /\ calPc' = (IF calI = Hours THEN "weigh" ELSE "bounds")
    BY DEF CalBounds, slotVars
<1>3. SoFar
    BY <1>1, <1>2 DEF AqiOK
<1>4. calI \in Slot /\ Hours \in Nat /\ Hours > 2 /\ up = 0 /\ down = 0
    BY <1>2, Constants DEF TInv, CalOK
<1>5. PICK k \in Slot : k = calI
    BY <1>4
<1>6. /\ cmin \in Range(win) /\ cmax \in Range(win)
      /\ \A j \in 1 .. k - 1 : cmin <= win[j] /\ win[j] <= cmax
    BY <1>2, <1>3, <1>5 DEF SoFar, Extremes
<1>7. /\ cmin \in Int /\ cmax \in Int /\ win[k] \in Range(win)
      /\ \A j \in Slot : win[j] \in Int
    BY <1>5, <1>6, WinRange DEF TInv
<1>8. /\ cmin' \in Range(win) /\ cmax' \in Range(win)
      /\ cmin' <= cmin /\ cmax <= cmax' /\ cmin' <= win[k] /\ win[k] <= cmax'
      /\ cmin' \in Int /\ cmax' \in Int
    BY <1>2, <1>5, <1>6, <1>7
<1>9. ASSUME NEW j \in 1 .. k PROVE cmin' <= win[j] /\ win[j] <= cmax'
    <2>1. CASE j = k
        BY <1>8, <2>1
    <2>2. CASE j # k
        <3>1. j \in 1 .. k - 1 /\ j \in Slot
            BY <1>4, <2>2 DEF Slot
        <3>2. cmin <= win[j] /\ win[j] <= cmax /\ win[j] \in Int
            BY <1>6, <1>7, <3>1
        <3>. QED
            BY <1>7, <1>8, <3>2
    <2>. QED
        BY <2>1, <2>2
<1>10. Extremes(k)'
    BY <1>2, <1>8, <1>9 DEF Extremes
<1>11. (aqiCO \in Results(co, 1, BP_CO))'
    BY <1>2, <1>3 DEF SoFar
<1>12. CASE k = Hours
    <2>1. Extremes(Hours)'
        BY <1>10, <1>12
    <2>2. calPc' = "weigh" /\ calI' - 1 = 0 /\ up' = 0 /\ down' = 0
        BY <1>2, <1>4, <1>5, <1>12
    <2>3. Summed(0)'
        BY <2>2 DEF Summed, PartialSums
    <2>4. Summed(calI - 1)'
        BY <2>2, <2>3 DEF Summed
    <2>. QED
        BY <1>11, <2>1, <2>2, <2>4 DEF SoFar
<1>13. CASE k # Hours
    <2>1. calPc' = "bounds" /\ calI' - 1 = k
        BY <1>2, <1>4, <1>5, <1>13 DEF Slot
    <2>2. Extremes(calI - 1)'
        BY <1>10, <2>1 DEF Extremes
    <2>. QED
        BY <1>11, <2>1, <2>2 DEF SoFar
<1>. QED
    BY <1>12, <1>13

\* The next term and its weight extend the sums.
LEMMA SumsKeep ==
    ASSUME AirAssumption, TInv, AqiOK, CalWeigh
    PROVE  AqiOK'
<1>1. SUFFICES ASSUME overlap' = "no" PROVE SoFar'
    BY DEF AqiOK
<1> DEFINE low == Low(cmin, cmax)
           w   == Weight(low, cmin, cmax, calI)
           e   == win[Element(low, calI)]
<1>2. /\ calPc = "weigh" /\ UNCHANGED <<aqiCO, cmin, cmax, co, win, overlap>>
      /\ up' = up + w * e
      /\ down' = (IF low THEN Power(2, Hours) ELSE down + w)
      /\ calI' = (IF calI = Hours THEN 1 ELSE calI + 1)
      /\ calPc' = (IF calI = Hours THEN "three" ELSE "weigh")
    BY DEF CalWeigh, slotVars
<1>3. SoFar
    BY <1>1, <1>2 DEF AqiOK
<1>4. calI \in Slot /\ Hours \in Nat /\ Hours > 2
    BY <1>2, Constants DEF TInv, CalOK
<1>5. PICK k \in Slot : k = calI
    BY <1>4
<1>6. Terms' = Terms /\ Weights' = Weights
    BY <1>2 DEF Terms, Weights
<1>7. Terms[k] = w * e /\ Weights[k] = w
    BY <1>5 DEF Terms, Weights
<1> HIDE DEF low, w, e
<1>8. Summed(k - 1)
    BY <1>2, <1>3, <1>5 DEF SoFar
<1>9. Summed(k)'
    <2>1. k \in 1 .. Hours
        BY DEF Slot
    <2>2. ASSUME NEW s, PartialSums(s, Terms) PROVE up' = s[k]
        <3>1. s[k] = s[k - 1] + Terms[k]
            BY <2>1, <2>2 DEF PartialSums
        <3>2. up = s[k - 1]
            BY <1>8, <2>2 DEF Summed
        <3>. QED
            BY <1>2, <1>7, <3>1, <3>2
    <2>3. ASSUME ~low, NEW s, PartialSums(s, Weights) PROVE down' = s[k]
        <3>1. s[k] = s[k - 1] + Weights[k]
            BY <2>1, <2>3 DEF PartialSums
        <3>2. down = s[k - 1]
            BY <1>8, <2>3 DEF Summed, low
        <3>. QED
            BY <1>2, <1>7, <2>3, <3>1, <3>2
    <2>4. Low(cmin, cmax)' = low
        BY <1>2 DEF low
    <2>. QED
        BY <1>6, <2>2, <2>3, <2>4 DEF Summed, PartialSums
<1>10. (aqiCO \in Results(co, 1, BP_CO))'
    BY <1>2, <1>3 DEF SoFar
<1>11. Extremes(Hours)'
    BY <1>2, <1>3 DEF SoFar, Extremes
<1>12. CASE k = Hours
    <2>1. calPc' = "three" /\ Summed(Hours)'
        BY <1>2, <1>5, <1>9, <1>12
    <2>. QED
        BY <1>10, <1>11, <2>1 DEF SoFar
<1>13. CASE k # Hours
    <2>1. calPc' = "weigh" /\ calI' - 1 = k
        BY <1>2, <1>4, <1>5, <1>13 DEF Slot
    <2>2. Summed(calI - 1)'
        BY <1>9, <2>1 DEF Summed
    <2>. QED
        BY <1>10, <1>11, <2>1, <2>2 DEF SoFar
<1>. QED
    BY <1>12, <1>13

\* The sums of all terms are the weighted mean.
LEMMA SumsAreNowcast ==
    ASSUME AirAssumption, TInv, Extremes(Hours), Summed(Hours),
           Low(cmin, cmax) => down = Power(2, Hours)
    PROVE  RefNowcast(win) = <<up, down>>
<1>1. Hours \in Nat /\ Hours > 2 /\ SlotOK
    BY Constants DEF TInv
<1>2. /\ Range(win) = {win[j] : j \in Slot} /\ Range(win) \subseteq Int
      /\ \A j \in Slot : win[j] \in Int
    BY <1>1, WinRange
<1>3. Min(Range(win)) = cmin /\ Max(Range(win)) = cmax
    <2>1. \A y \in Range(win) : cmin <= y /\ y <= cmax
        BY <1>2 DEF Extremes, Slot
    <2>2. /\ cmin \in Range(win) /\ cmax \in Range(win)
          /\ \A y \in Range(win) : cmax >= y
        BY <1>2, <2>1 DEF Extremes
    <2> DEFINE R == Range(win)
    <2>3. /\ R \in SUBSET Int /\ cmin \in R /\ cmax \in R
          /\ \A y \in R : cmin <= y /\ cmax >= y
        BY <1>2, <2>1, <2>2
    <2> HIDE DEF R
    <2>4. Min(R) = cmin /\ Max(R) = cmax
        BY <2>3, MaxIs
    <2>. QED
        BY <2>4 DEF R
<1>4. cmin \in Int /\ cmax \in Int
    BY <1>2 DEF Extremes
<1>5. \A i \in Slot : /\ Weight(Low(cmin, cmax), cmin, cmax, i) \in Nat
                      /\ Element(Low(cmin, cmax), i) \in Slot
    BY <1>4, WeightType
<1>6. Weights \in [Slot -> Int]
    BY <1>5 DEF Weights
<1>7. Terms \in [Slot -> Int]
    <2>1. \A x \in Nat, y \in Int : x * y \in Int
        OBVIOUS
    <2>. QED
        BY <1>2, <1>5, <2>1 DEF Terms
<1>8. Sum(Terms) = up
    <2>1. PICK s : PartialSums(s, Terms)
        BY <1>1, <1>7, SumStep DEF PartialSums
    <2>. QED
        BY <2>1 DEF Summed, PartialSums
<1>9. CASE Low(cmin, cmax)
    <2>1. Terms = [i \in Slot |-> Power(2, Hours - i) * win[i]]
        BY <1>9 DEF Terms, Weight, Element
    <2>2. RefNowcast(win) = <<Sum(Terms), Power(2, Hours)>>
        BY <1>3, <1>9, <2>1 DEF RefNowcast
    <2>. QED
        BY <1>8, <1>9, <2>2
<1>10. CASE ~Low(cmin, cmax)
    <2> DEFINE w == [i \in Slot |-> Power(Abs(cmin), i - 1) * Power(Abs(cmax), Hours - i)]
    <2>1. Weights = w
        BY <1>10 DEF Weights, Weight
    <2>2. Terms = [i \in Slot |-> w[i] * win[Hours + 1 - i]]
        BY <1>10 DEF Terms, Weight, Element
    <2>3. RefNowcast(win) = <<Sum(Terms), Sum(Weights)>>
        BY <1>3, <1>10, <2>1, <2>2 DEF RefNowcast
    <2>4. Sum(Weights) = down
        <3>1. PICK s : PartialSums(s, Weights)
            BY <1>1, <1>6, SumStep DEF PartialSums
        <3>. QED
            BY <1>10, <3>1 DEF Summed, PartialSums
    <2>. QED
        BY <1>8, <2>3, <2>4
<1>. QED
    BY <1>9, <1>10

\* The last step of a calculation writes the index of what was summed.
LEMMA ThreeKeeps ==
    ASSUME AirAssumption, TInv, LatestOK, MeanOK, AqiOK, CalThree
    PROVE  AqiOK'
<1>1. SUFFICES ASSUME overlap' = "no" PROVE SoFar'
    BY DEF AqiOK
<1>2. /\ calPc = "three" /\ UNCHANGED <<aqiCO, co, win, n, overlap>>
      /\ \/ Missing(win) /\ Done(-1)
         \/ ~Missing(win) /\ \E r \in Results(up, down, BP_PM25) : Done(r)
    BY DEF CalThree, slotVars
<1>3. SoFar
    BY <1>1, <1>2 DEF AqiOK
<1>4. calPc' = "done"
    BY <1>2 DEF Done
<1>5. /\ up \in Int /\ down \in Nat /\ (down = 0 => up = 0) /\ n = Hours
      /\ (Low(cmin, cmax) => down = Power(2, Hours))
    BY <1>2 DEF TInv, CalOK, LatestOK, MeanOK
<1>6. RefNowcast(win) = <<up, down>>
    BY <1>2, <1>3, <1>5, SumsAreNowcast DEF SoFar
<1>7. CASE Missing(win) /\ Done(-1)
    <2>1. aqi' = CalAqi(-1, aqiCO)
        BY <1>7 DEF Done
    <2>2. Outcome'
        <3>1. aqi' = CalAqi(-1, aqiCO)'
            BY <1>2, <2>1
        <3>. QED
            BY <1>2, <1>7, <3>1 DEF Outcome, Missing
    <2>. QED
        BY <1>2, <1>3, <1>4, <2>2 DEF SoFar
<1>8. CASE ~Missing(win) /\ \E r \in Results(up, down, BP_PM25) : Done(r)
    <2>1. PICK r \in Results(up, down, BP_PM25) : aqi' = CalAqi(r, aqiCO)
        BY <1>8 DEF Done
    <2>2. Outcome'
        BY <1>2, <1>5, <1>6, <1>8, <2>1 DEF Outcome, Missing, RefNowcast
    <2>. QED
        BY <1>2, <1>3, <1>4, <2>2 DEF SoFar
<1>. QED
    BY <1>2, <1>7, <1>8

\* Every step keeps what an untouched calculation has computed so far.
LEMMA AStep ==
    ASSUME AirAssumption, TInv, LatestOK, MeanOK, AqiOK, [Next]_vars
    PROVE  AqiOK'
<1>1. CASE UpPacket \/ UpPm \/ UpCo \/ UpHour \/ UpCount \/ UpShift \/ UpLast
    <2>1. SUFFICES ASSUME calPc' # "sleep", overlap' = "no" PROVE SoFar'
        BY DEF AqiOK
    <2>2. calPc' = calPc
        BY <1>1 DEF UpPacket, UpReceive, UpPm, UpCo, UpHour, UpCount, UpShift, UpLast, calVars
    <2>3. overlap = "no" /\ UNCHANGED <<slotVars, calVars>>
        BY <1>1, <2>1, <2>2, TouchOrNot
    <2>4. SoFar
        BY <2>1, <2>2, <2>3 DEF AqiOK
    <2>. QED
        BY <2>3, <2>4 DEF SoFar, Extremes, Summed, Terms, Weights, PartialSums, Outcome, Missing,
                          RefNowcast, slotVars, calVars, sumVars
<1>2. CASE CalCo
    <2>1. calPc' = "test" /\ aqiCO' \in Results(co, 1, BP_CO) /\ UNCHANGED co
        BY <1>2 DEF CalCo, slotVars
    <2>. QED
        BY <2>1 DEF AqiOK, SoFar
<1>3. CASE CalTest
    <2>1. SUFFICES ASSUME overlap' = "no" PROVE SoFar'
        BY DEF AqiOK
    <2>2. /\ calPc = "test" /\ UNCHANGED <<aqiCO, co, win, n, overlap>>
          /\ \/ n # Hours /\ Done(-1) /\ UNCHANGED sumVars
             \/ /\ cmin' = win[1] /\ cmax' = win[1] /\ up' = 0 /\ down' = 0
                /\ calPc' = "bounds" /\ calI' = 1
        BY <1>3 DEF CalTest, slotVars
    <2>3. SoFar
        BY <2>1, <2>2 DEF AqiOK
    <2>4. CASE n # Hours /\ Done(-1)
        <3>1. calPc' = "done" /\ aqi' = CalAqi(-1, aqiCO)
            BY <2>4 DEF Done
        <3>2. aqi' = CalAqi(-1, aqiCO)'
            BY <2>2, <3>1
        <3>3. Outcome'
            BY <2>2, <2>4, <3>2 DEF Outcome
        <3>. QED
            BY <2>2, <2>3, <3>1, <3>3 DEF SoFar
    <2>5. CASE cmin' = win[1] /\ cmax' = win[1] /\ calPc' = "bounds" /\ calI' = 1
        <3>1. 1 \in Slot
            BY Constants DEF Slot
        <3>2. win[1] \in Range(win)
            BY <3>1, WinRange DEF TInv
        <3>3. calI' - 1 = 0
            BY <2>5
        <3>4. Extremes(calI - 1)'
            BY <2>2, <2>5, <3>2, <3>3 DEF Extremes
        <3>. QED
            BY <2>2, <2>3, <2>5, <3>4 DEF SoFar
    <2>. QED
        BY <2>2, <2>4, <2>5
<1>4. CASE CalBounds
    BY <1>4, BoundsKeep
<1>5. CASE CalWeigh
    BY <1>5, SumsKeep
<1>6. CASE CalThree
    BY <1>6, ThreeKeeps
<1>7. CASE CalSleep
    BY <1>7 DEF CalSleep, AqiOK
<1>8. CASE UNCHANGED vars
    BY <1>8 DEF AqiOK, SoFar, Extremes, Summed, Terms, Weights, PartialSums, Outcome, Missing,
                RefNowcast, vars, slotVars, calVars, sumVars
<1>. QED
    BY <1>1, <1>2, <1>3, <1>4, <1>5, <1>6, <1>7, <1>8 DEF Next

\* Once the window is full, and is not being moved, it is the last hours.
LEMMA WindowIsRecent ==
    ASSUME AirAssumption, TInv, upPc \notin {"shift", "last"}
    PROVE  /\ Len(Recent) = n /\ n \in 0 .. Hours
           /\ n = Hours => Recent = win
<1>1. /\ past \in Seq(Gas) /\ n \in 0 .. Hours /\ n <= Len(past) /\ Hours \in Nat
      /\ Len(past) \in Nat /\ win = [i \in Slot |-> win[i]]
      /\ \A i \in 1 .. n : win[i] = past[Len(past) - n + i]
    <2>1. /\ past \in Seq(Gas) /\ n \in 0 .. Hours /\ n <= Len(past)
          /\ win = [i \in Slot |-> win[i]]
          /\ \A i \in 1 .. n : win[i] = past[Len(past) - n + i]
        BY DEF TInv, SlotOK, WInv, PlaceOK, WinOK, WindowOK, Kept
    <2>. QED
        BY <2>1, Constants, LenProperties
<1> DEFINE a == Len(past) - n + 1
           z == Len(past)
<1>2. a \in Int /\ z \in Int /\ z - a + 1 = n /\ \A i \in a .. z : past[i] \in Gas
    <2>1. \A i \in a .. z : i \in 1 .. Len(past)
        BY <1>1
    <2>. QED
        BY <1>1, <2>1, ElementOfSeq
<1>3. Recent = SubSeq(past, a, z)
    BY DEF Recent
<1> HIDE DEF a, z
<1>4. /\ Recent \in Seq(Gas)
      /\ Len(Recent) = IF a <= z THEN z - a + 1 ELSE 0
      /\ \A i \in 1 .. z - a + 1 : Recent[i] = past[a + i - 1]
    BY <1>2, <1>3, SubSeqProperties
<1>5. Len(Recent) = n
    BY <1>1, <1>2, <1>4
<1>6. ASSUME n = Hours PROVE Recent = win
    <2>1. Recent = [i \in 1 .. Hours |-> Recent[i]]
        BY <1>4, <1>5, <1>6, LenProperties
    <2>2. \A i \in 1 .. Hours : Recent[i] = win[i]
        <3> TAKE i \in 1 .. Hours
        <3>1. i \in 1 .. n /\ i \in 1 .. z - a + 1 /\ a + i - 1 = Len(past) - n + i
            BY <1>1, <1>2, <1>6 DEF a
        <3>. QED
            BY <1>1, <1>4, <3>1
    <2>. QED
        BY <1>1, <2>1, <2>2 DEF Slot
<1>. QED
    BY <1>1, <1>5, <1>6

\* The sum of three hours is one of them if two are zero, or cancel out.
LEMMA MissingHours ==
    ASSUME AirAssumption, NEW h \in [Slot -> Int]
    PROVE  Missing(h) <=> TwoZero(h) \/ Cancel(h)
<1>1. 1 \in Slot /\ 2 \in Slot /\ 3 \in Slot
    BY DEF AirAssumption, Slot
<1>2. h[1] \in Int /\ h[2] \in Int /\ h[3] \in Int
    BY <1>1
<1>3. Missing(h) <=> h[2] + h[3] = 0 \/ h[1] + h[3] = 0 \/ h[1] + h[2] = 0
    BY <1>2 DEF Missing
<1>4. TwoZero(h) \/ Cancel(h) <=> \E i, j \in {1, 2, 3} : i # j /\ h[i] = -h[j]
    <2>1. 1 .. 3 = {1, 2, 3}
        OBVIOUS
    <2>2. \A i, j \in {1, 2, 3} : h[i] = -h[j] => (h[i] = 0 <=> h[j] = 0)
        BY <1>2
    <2>3. \A i, j \in {1, 2, 3} : h[i] = 0 /\ h[j] = 0 => h[i] = -h[j]
        <3>1. ASSUME NEW x \in Int, NEW y \in Int, x + y = 0 PROVE x = -y
            BY <3>1
        <3>2. \A i, j \in {1, 2, 3} : h[i] = 0 /\ h[j] = 0 => h[i] + h[j] = 0
            BY <1>2
        <3>. QED
            BY <1>2, <3>1, <3>2
    <2>. QED
        BY <2>1, <2>2, <2>3 DEF TwoZero, Cancel
<1>5. (\E i, j \in {1, 2, 3} : i # j /\ h[i] = -h[j]) <=>
          h[2] + h[3] = 0 \/ h[1] + h[3] = 0 \/ h[1] + h[2] = 0
    BY <1>2
<1>. QED
    BY <1>3, <1>4, <1>5

\* What it has written is the index of the history.
LEMMA AImplies ==
    ASSUME AirAssumption, TInv, LatestOK, AqiOK
    PROVE  AqiOfHistory
<1>1. SUFFICES ASSUME calPc = "done", overlap = "no", co > 0
      PROVE  /\ Interpolates(aqiCO, co, 1, BP_CO)
             /\ IF Len(Recent) < Hours \/ TwoZero(Recent) THEN aqi = aqiCO
                ELSE LET mean == RefNowcast(Recent)
                     IN  mean[1] > 0 /\ ~Cancel(Recent) =>
                            \/ aqi = aqiCO
                               /\ \E r \in 0 .. aqi : Interpolates(r, mean[1], mean[2], BP_PM25)
                            \/ aqi > aqiCO /\ Interpolates(aqi, mean[1], mean[2], BP_PM25)
    BY DEF AqiOfHistory
<1>2. aqiCO \in Results(co, 1, BP_CO) /\ Outcome
    BY <1>1 DEF AqiOK, SoFar
<1>3. upPc \notin {"shift", "last"}
    BY <1>1 DEF LatestOK, Waiting
<1>4. Len(Recent) = n /\ n \in 0 .. Hours /\ Hours \in Nat /\ (n = Hours => Recent = win)
    BY <1>3, WindowIsRecent, Constants
<1>5. co \in Int /\ 1 \in Nat /\ 1 > 0
    <2>1. co \in Dust \cup {0}
        BY DEF TInv, SlotOK
    <2>. QED
        BY <2>1, Constants
<1>6. aqiCO \in 0 .. 500 /\ Interpolates(aqiCO, co, 1, BP_CO)
    BY <1>1, <1>2, <1>5, IndexOf
<1>9. n = Hours => (Missing(win) <=> TwoZero(Recent) \/ Cancel(Recent))
    <2>1. win \in [Slot -> Int]
        BY Constants DEF TInv, SlotOK
    <2>. QED
        BY <1>4, <2>1, MissingHours
<1>7. CASE Len(Recent) < Hours \/ TwoZero(Recent)
    <2>1. n # Hours \/ Missing(win)
        BY <1>4, <1>7, <1>9
    <2>2. aqi = CalAqi(-1, aqiCO)
        BY <1>2, <2>1 DEF Outcome
    <2>3. aqi = aqiCO
        BY <1>6, <2>2 DEF CalAqi
    <2>. QED
        BY <1>6, <1>7, <2>3
<1>8. CASE ~(Len(Recent) < Hours \/ TwoZero(Recent)) /\ ~Cancel(Recent)
    <2>1. n = Hours /\ Recent = win /\ ~Missing(win)
        BY <1>4, <1>8, <1>9
    <2>2. PICK u \in Int, d \in Nat :
              /\ RefNowcast(win) = <<u, d>> /\ (d = 0 => u = 0)
              /\ \E r \in Results(u, d, BP_PM25) : aqi = CalAqi(r, aqiCO)
        BY <1>2, <2>1 DEF Outcome
    <2>3. PICK r \in Results(u, d, BP_PM25) : aqi = CalAqi(r, aqiCO)
        BY <2>2
    <2>4. ASSUME u > 0
          PROVE  \/ aqi = aqiCO /\ \E x \in 0 .. aqi : Interpolates(x, u, d, BP_PM25)
                 \/ aqi > aqiCO /\ Interpolates(aqi, u, d, BP_PM25)
        <3>1. d > 0
            BY <2>2, <2>4
        <3>2. r \in 0 .. 500 /\ Interpolates(r, u, d, BP_PM25)
            BY <2>3, <2>4, <3>1, IndexOf
        <3>3. CASE aqiCO >= r
            <4>1. aqi = aqiCO /\ r \in 0 .. aqi
                BY <1>6, <2>3, <3>2, <3>3 DEF CalAqi
            <4>. QED
                BY <3>2, <4>1
        <3>4. CASE ~(aqiCO >= r)
            <4>1. aqi = r /\ aqi > aqiCO
                BY <1>6, <2>3, <3>2, <3>4 DEF CalAqi
            <4>. QED
                BY <3>2, <4>1
        <3>. QED
            BY <3>3, <3>4
    <2>5. RefNowcast(Recent)[1] = u /\ RefNowcast(Recent)[2] = d
        BY <2>1, <2>2
    <2>. QED
        BY <1>6, <1>8, <2>4, <2>5
<1>. QED
    BY <1>6, <1>7, <1>8

\* AqiOfHistory of AirQuality for every length of the window and all values: the index
\* that is written, if no store has touched the calculation, is the interpolation for
\* the last CO value or for the weighted mean of the last hours, the greater of the two. Where
\* no two of the three oldest hours cancel out, the sum tested in the code tells just the
\* hours of which two are zero.
THEOREM IndexIsOfHistory == Spec => []AqiOfHistory
<1> DEFINE IInv == TInv /\ LatestOK /\ MeanOK /\ AqiOK
<1>1. Init => IInv
    BY TInit, LInit, AirAssumption DEF Init, AqiOK
<1>2. IInv /\ [Next]_vars => IInv'
    BY TStep, LStep, MStep, AStep, AirAssumption
<1>3. IInv => AqiOfHistory
    BY AImplies, AirAssumption
<1>. QED
    BY <1>1, <1>2, <1>3, PTL DEF Spec
===============================================================================
