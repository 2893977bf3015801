---------------------------- MODULE CodecsProofs ----------------------------
(***************************************************************************)
(* The invariants of Codecs for every codec depth and any number of inputs *)
(* and initializations.                                                    *)
(***************************************************************************)
EXTENDS Codecs, TLAPS, SequenceTheorems, FiniteSetTheorems

\* What a codec holds: nothing before its first initialize(), and only what its
\* class has members for.  So the first initialize() overwrites nothing, and the
\* destructor of the class releases everything.
Ownership ==
    /\ inits = 0 => ptr = Empty
    /\ kind \in Encoders => Held(ptr) \subseteq {"codecCtx"}
    /\ kind = "h264" => Held(ptr) \subseteq {"codecCtx", "frame"}
    /\ OneInitializeReleasesAll

\* Only a living codec is ready, and encodeFrame() is under way only in an encoder
\* that is running.
InCall == (ready => alive) /\ (step \in {"plain", "intra"} => ready /\ kind = "x264")

\* A codec that is ready was made so by a call of initialize() that succeeded,
\* whatever the calls after it did.
OnceInitialized == ready => \E k \in 1..inits : k \notin failed

\* What the context holds came in after everything that has come out, under a
\* callback that only failed calls of initialize() have replaced since; a codec that
\* is not ready holds nothing.
PendingIsNew ==
    /\ ~ready => pending = <<>>
    /\ \A i \in 1..Len(pending) :
          OnlyFailures(failed, pending[i].meant, inits) /\ pending[i].input <= sent
    /\ \A i, j \in 1..Len(pending) : i < j => pending[i].input < pending[j].input
    /\ \A i \in 1..Len(delivered) : delivered[i].input <= sent
    /\ \A i \in 1..Len(delivered), j \in 1..Len(pending) : delivered[i].input < pending[j].input

Flow == PendingIsNew /\ OutputsReachTheirCallback /\ EncoderKeepsAll

IndInv == TypeOK /\ InCall /\ OnceInitialized /\ ReadyIsUsable /\ KeyframeNotLost /\ Ownership /\ Flow
-----------------------------------------------------------------------------
(***************************************************************************)
(* Outputs.                                                                *)
(***************************************************************************)
Input == [input : Nat, meant : Nat]
Output == [input : Nat, meant : Nat, got : Nat]

\* Delivery to callback c, as a constant operator.
To(c, out, skipped) ==
    [i \in 1..Len(out) |-> [input |-> out[i].input, meant |-> out[i].meant,
                           got |-> IF out[i].input \in skipped THEN 0 ELSE c]]

\* The sequence s followed by the outputs out, marked with what each callback got.
Appended(d, c, s, out, skipped) ==
    /\ d \in Seq(Output)
    /\ Len(d) = Len(s) + Len(out)
    /\ \A i \in 1..Len(s) : d[i] = s[i]
    /\ \A i \in 1..Len(out) :
          /\ d[Len(s) + i].input = out[i].input
          /\ d[Len(s) + i].meant = out[i].meant
          /\ d[Len(s) + i].got = IF out[i].input \in skipped THEN 0 ELSE c

\* That is what s becomes when the outputs out go to callback c.
LEMMA DeliveryAppends ==
    ASSUME NEW c \in Nat, NEW s \in Seq(Output), NEW out \in Seq(Input), NEW skipped
    PROVE  Appended(s \o To(c, out, skipped), c, s, out, skipped)
<1> DEFINE D == To(c, out, skipped)
           d == s \o D
<1>1. Len(out) \in Nat /\ \A i \in 1..Len(out) : out[i] \in Input
    OBVIOUS
<1>2. \A i \in 1..Len(out) : D[i] \in Output
    BY <1>1 DEF To, Input, Output
<1>3. D \in Seq(Output) /\ Len(D) = Len(out)
    BY <1>1, <1>2, IsASeq, SMT DEF To
<1>4. \A i \in 1..Len(out) :
         /\ D[i].input = out[i].input
         /\ D[i].meant = out[i].meant
         /\ D[i].got = IF out[i].input \in skipped THEN 0 ELSE c
    BY DEF To
<1> HIDE DEF D, d
<1>5. d = s \o D
    BY DEF d
<1>6. /\ d \in Seq(Output) /\ Len(d) = Len(s) + Len(D)
      /\ \A i \in 1..Len(s) : d[i] = s[i]
    <2>1. /\ s \o D \in Seq(Output)
          /\ Len(s \o D) = Len(s) + Len(D)
          /\ \A i \in 1..(Len(s) + Len(D)) :
                i <= Len(s) => (s \o D)[i] = s[i]
        BY <1>3, ConcatProperties
    <2>2. \A i \in 1..Len(s) : i \in 1..(Len(s) + Len(D)) /\ i <= Len(s)
        BY <1>1, <1>3
    <2> QED BY <1>5, <2>1, <2>2
<1>7. \A i \in 1..Len(out) : d[Len(s) + i] = D[i]
    <2> TAKE i \in 1..Len(out)
    <2>1. Len(s) \in Nat /\ Len(s) + i \in 1..(Len(s) + Len(D))
          /\ ~(Len(s) + i <= Len(s)) /\ (Len(s) + i) - Len(s) = i
        BY <1>1, <1>3
    <2>2. (s \o D)[Len(s) + i] = IF Len(s) + i <= Len(s) THEN s[Len(s) + i] ELSE D[(Len(s) + i) - Len(s)]
        BY <1>3, <2>1, ConcatProperties
    <2> QED BY <1>5, <2>1, <2>2
<1> QED
    <2>1. Appended(d, c, s, out, skipped)
        BY <1>3, <1>4, <1>6, <1>7 DEF Appended
    <2> QED BY <2>1 DEF d, D

\* One input goes in and the first n of what the context holds come out.
LEMMA AcceptKeeps ==
    ASSUME TypeOK, PendingIsNew, OutputsReachTheirCallback, ready,
           NEW skipped, Accept(skipped), UNCHANGED <<inits, ready, failed>>
    PROVE  /\ sent' = sent + 1 /\ overwritten' = overwritten
           /\ pending' \in Seq(Input) /\ delivered' \in Seq(Output)
           /\ PendingIsNew' /\ OutputsReachTheirCallback'
           /\ Len(delivered') + Len(pending') = Len(delivered) + Len(pending) + 1
           /\ (skipped = {} /\ inits # 0 /\ \A i \in 1..Len(delivered) : delivered[i].got # 0)
                 => \A i \in 1..Len(delivered') : delivered'[i].got # 0
<1> DEFINE all == Append(pending, [input |-> sent + 1, meant |-> inits])
<1>1. PICK n \in 0..(Len(pending) + 1) :
         /\ pending' = SubSeq(all, n + 1, Len(all))
         /\ delivered' = delivered \o Delivery(SubSeq(all, 1, n), skipped)
         /\ sent' = sent + 1 /\ overwritten' = overwritten
    BY DEF Accept
<1>2. /\ inits \in Nat /\ sent \in Nat
      /\ pending \in Seq(Input) /\ delivered \in Seq(Output)
    BY DEF TypeOK, Input, Output
<1>2a. \A i \in 1..Len(delivered) : delivered[i].input \in Nat
    <2>1. \A i \in 1..Len(delivered) : delivered[i] \in Output
        BY <1>2
    <2> QED BY <2>1 DEF Output
<1>3. /\ all \in Seq(Input) /\ Len(all) = Len(pending) + 1
      /\ \A i \in 1..Len(pending) : all[i] = pending[i]
      /\ all[Len(pending) + 1] = [input |-> sent + 1, meant |-> inits]
    BY <1>2 DEF Input
<1>4. /\ \A i \in 1..Len(all) :
            OnlyFailures(failed, all[i].meant, inits) /\ all[i].input <= sent + 1 /\ all[i].input \in Nat
      /\ \A i, j \in 1..Len(all) : i < j => all[i].input < all[j].input
      /\ \A i \in 1..Len(delivered), j \in 1..Len(all) : delivered[i].input < all[j].input
    <2>1. \A i \in 1..Len(pending) :
             OnlyFailures(failed, all[i].meant, inits) /\ all[i].input <= sent /\ all[i].input \in Nat
        <3>1. \A i \in 1..Len(pending) : pending[i] \in Input
            BY <1>2
        <3>2. \A i \in 1..Len(pending) : pending[i].input \in Nat
            BY <3>1 DEF Input
        <3> QED BY <1>3, <3>2 DEF PendingIsNew
    <2>2. \A i \in 1..Len(delivered) : delivered[i].input <= sent /\ delivered[i].input \in Nat
        BY <1>2a DEF PendingIsNew
    <2>3. all[Len(pending) + 1].input = sent + 1 /\ OnlyFailures(failed, all[Len(pending) + 1].meant, inits)
        BY <1>2, <1>3 DEF OnlyFailures
    <2>4. /\ \A i, j \in 1..Len(pending) : i < j => all[i].input < all[j].input
          /\ \A i \in 1..Len(delivered), j \in 1..Len(pending) : delivered[i].input < all[j].input
        BY <1>3 DEF PendingIsNew
    <2>5. Len(pending) \in Nat
        BY <1>2
    <2> HIDE DEF all
    <2>6. \A i \in 1..Len(all) : i \in 1..Len(pending) \/ i = Len(pending) + 1
        BY <1>3, <2>5
    <2>7. \A i \in 1..Len(all) :
             OnlyFailures(failed, all[i].meant, inits) /\ all[i].input <= sent + 1 /\ all[i].input \in Nat
        BY <1>2, <2>1, <2>3, <2>6
    <2>8. ASSUME NEW i \in 1..Len(all), NEW j \in 1..Len(all), i < j PROVE all[i].input < all[j].input
        <3>1. i \in 1..Len(pending)
            BY <1>3, <2>5, <2>8
        <3> QED BY <1>2, <2>1, <2>3, <2>4, <2>6, <2>8, <3>1
    <2>9. \A i \in 1..Len(delivered), j \in 1..Len(all) : delivered[i].input < all[j].input
        BY <1>2, <2>2, <2>3, <2>4, <2>6
    <2> QED BY <2>7, <2>8, <2>9
<1> HIDE DEF all
<1> DEFINE out == SubSeq(all, 1, n)
<1>5. /\ Len(pending) \in Nat /\ Len(delivered) \in Nat /\ Len(all) \in Nat
      /\ n \in Nat /\ n <= Len(all)
    BY <1>2, <1>3
<1>6. /\ out \in Seq(Input) /\ Len(out) = n
      /\ \A i \in 1..n : out[i] = all[i]
    BY <1>3, <1>5
<1>7. /\ pending' \in Seq(Input) /\ Len(pending') = Len(all) - n
      /\ \A i \in 1..Len(pending') : pending'[i] = all[n + i]
    BY <1>1, <1>3, <1>5
<1> HIDE DEF out
<1>8. /\ delivered' \in Seq(Output)
      /\ Len(delivered') = Len(delivered) + n
      /\ \A i \in 1..Len(delivered) : delivered'[i] = delivered[i]
      /\ \A i \in 1..n :
            /\ delivered'[Len(delivered) + i].input = all[i].input
            /\ delivered'[Len(delivered) + i].meant = all[i].meant
            /\ delivered'[Len(delivered) + i].got = IF all[i].input \in skipped THEN 0 ELSE inits
    <2>1. delivered' = delivered \o To(inits, out, skipped)
        BY <1>1 DEF out, Delivery, To
    <2>2. Appended(delivered', inits, delivered, out, skipped)
        BY <1>2, <1>6, <2>1, DeliveryAppends
    <2>3. \A i \in 1..n : i \in 1..Len(all)
        BY <1>5
    <2>4. ASSUME NEW i \in 1..n
          PROVE  /\ delivered'[Len(delivered) + i].input = all[i].input
                 /\ delivered'[Len(delivered) + i].meant = all[i].meant
                 /\ delivered'[Len(delivered) + i].got = IF all[i].input \in skipped THEN 0 ELSE inits
        <3>1. out[i] = all[i] /\ i \in 1..Len(out)
            BY <1>6, <2>3
        <3> QED BY <2>2, <3>1 DEF Appended
    <2> QED BY <1>6, <2>2, <2>4 DEF Appended
<1>9. \A i \in 1..Len(delivered') :
         i \in 1..Len(delivered) \/ \E k \in 1..n : i = Len(delivered) + k
    <2> TAKE i \in 1..Len(delivered')
    <2>1. i \notin 1..Len(delivered) => i - Len(delivered) \in 1..n /\ i = Len(delivered) + (i - Len(delivered))
        BY <1>5, <1>8
    <2> QED BY <2>1
<1>10. PendingIsNew'
    <2>1. \A i \in 1..Len(pending') :
             OnlyFailures(failed, pending'[i].meant, inits) /\ pending'[i].input <= sent + 1
        <3>1. \A i \in 1..Len(pending') : n + i \in 1..Len(all)
            BY <1>5, <1>7
        <3> QED BY <1>4, <1>7, <3>1
    <2>2. ASSUME NEW i \in 1..Len(pending'), NEW j \in 1..Len(pending'), i < j
          PROVE  pending'[i].input < pending'[j].input
        <3>1. n + i \in 1..Len(all) /\ n + j \in 1..Len(all) /\ n + i < n + j
            BY <1>5, <1>7, <2>2
        <3> QED BY <1>4, <1>7, <3>1
    <2>3. \A i \in 1..Len(delivered') : delivered'[i].input <= sent + 1
        <3>1. \A i \in 1..Len(delivered) : delivered'[i].input <= sent + 1
            <4>1. \A i \in 1..Len(delivered) : delivered[i].input <= sent
                BY DEF PendingIsNew
            <4>2. \A i \in 1..Len(delivered) : delivered'[i] = delivered[i]
                BY <1>8
            <4> QED BY <1>2, <1>2a, <4>1, <4>2
        <3>2. \A k \in 1..n : delivered'[Len(delivered) + k].input <= sent + 1
            <4>1. \A k \in 1..n : k \in 1..Len(all)
                BY <1>5
            <4>2. \A k \in 1..n : all[k].input <= sent + 1
                BY <1>4, <4>1
            <4>3. \A k \in 1..n : delivered'[Len(delivered) + k].input = all[k].input
                BY <1>8
            <4> QED BY <4>2, <4>3
        <3> QED BY <1>9, <3>1, <3>2
    <2>4. \A i \in 1..Len(delivered'), j \in 1..Len(pending') : delivered'[i].input < pending'[j].input
        <3> TAKE i \in 1..Len(delivered'), j \in 1..Len(pending')
        <3>1. pending'[j] = all[n + j] /\ n + j \in 1..Len(all)
            BY <1>5, <1>7
        <3>2. CASE i \in 1..Len(delivered)
            BY <1>4, <1>8, <3>1, <3>2
        <3>3. ASSUME NEW k \in 1..n, i = Len(delivered) + k PROVE delivered'[i].input < pending'[j].input
            <4>1. k \in 1..Len(all) /\ k < n + j
                BY <1>5, <1>7
            <4> QED BY <1>4, <1>8, <3>1, <3>3, <4>1
        <3> QED BY <1>9, <3>2, <3>3
    <2> QED BY <1>1, <2>1, <2>2, <2>3, <2>4 DEF PendingIsNew
<1>11. OutputsReachTheirCallback'
    <2>1. \A i \in 1..Len(delivered') :
             delivered'[i].got = 0 \/ OnlyFailures(failed, delivered'[i].meant, delivered'[i].got)
        <3>1. \A i \in 1..Len(delivered) :
                 delivered'[i].got = 0 \/ OnlyFailures(failed, delivered'[i].meant, delivered'[i].got)
            BY <1>8 DEF OutputsReachTheirCallback
        <3>2. ASSUME NEW k \in 1..n
              PROVE  LET d == delivered'[Len(delivered) + k]
                     IN  d.got = 0 \/ OnlyFailures(failed, d.meant, d.got)
            <4>1. k \in 1..Len(all)
                BY <1>5
            <4>2. OnlyFailures(failed, all[k].meant, inits)
                BY <1>4, <4>1
            <4> QED BY <1>8, <4>2
        <3> QED BY <1>9, <3>1, <3>2
    <2>2. ASSUME NEW i \in 1..Len(delivered'), NEW j \in 1..Len(delivered'), i < j
          PROVE  delivered'[i].input < delivered'[j].input
        <3>1. CASE j \in 1..Len(delivered)
            <4>1. i \in 1..Len(delivered)
                BY <1>5, <2>2, <3>1
            <4> QED BY <1>8, <2>2, <3>1, <4>1 DEF OutputsReachTheirCallback
        <3>2. ASSUME NEW k \in 1..n, j = Len(delivered) + k PROVE delivered'[i].input < delivered'[j].input
            <4>1. CASE i \in 1..Len(delivered)
                <5>1. k \in 1..Len(all)
                    BY <1>5
                <5>2. delivered'[i] = delivered[i] /\ delivered'[j].input = all[k].input
                    BY <1>8, <3>2, <4>1
                <5>3. delivered[i].input < all[k].input
                    BY <1>4, <4>1, <5>1
                <5> QED BY <5>2, <5>3
            <4>2. ASSUME NEW m \in 1..n, i = Len(delivered) + m PROVE delivered'[i].input < delivered'[j].input
                <5>1. m < k /\ m \in 1..Len(all) /\ k \in 1..Len(all)
                    BY <1>5, <2>2, <3>2, <4>2
                <5> QED BY <1>4, <1>8, <3>2, <4>2, <5>1
            <4> QED BY <1>9, <4>1, <4>2
        <3> QED BY <1>9, <3>1, <3>2
    <2> QED BY <2>1, <2>2 DEF OutputsReachTheirCallback
<1>12. Len(delivered') + Len(pending') = Len(delivered) + Len(pending) + 1
    BY <1>3, <1>5, <1>7, <1>8
<1>13. ASSUME skipped = {}, inits # 0, \A i \in 1..Len(delivered) : delivered[i].got # 0
       PROVE  \A i \in 1..Len(delivered') : delivered'[i].got # 0
    BY <1>8, <1>9, <1>13
<1> QED BY <1>1, <1>7, <1>8, <1>10, <1>11, <1>12, <1>13

\* Everything the context holds comes out, to the callback in place.
LEMMA FlushKeeps ==
    ASSUME TypeOK, PendingIsNew, OutputsReachTheirCallback,
           delivered' = delivered \o Delivery(pending, {}), pending' = <<>>,
           UNCHANGED <<inits, sent, failed>>
    PROVE  /\ delivered' \in Seq(Output)
           /\ PendingIsNew' /\ OutputsReachTheirCallback'
           /\ Len(delivered') + Len(pending') = Len(delivered) + Len(pending)
           /\ (inits # 0 \/ pending = <<>>) /\ (\A i \in 1..Len(delivered) : delivered[i].got # 0)
                 => \A i \in 1..Len(delivered') : delivered'[i].got # 0
<1>1. /\ inits \in Nat /\ sent \in Nat
      /\ pending \in Seq(Input) /\ delivered \in Seq(Output)
    BY DEF TypeOK, Input, Output
<1>2. delivered' = delivered \o To(inits, pending, {})
    BY DEF Delivery, To
<1>3. /\ delivered' \in Seq(Output)
      /\ Len(delivered') = Len(delivered) + Len(pending)
      /\ \A i \in 1..Len(delivered) : delivered'[i] = delivered[i]
      /\ \A i \in 1..Len(pending) :
            /\ delivered'[Len(delivered) + i].input = pending[i].input
            /\ delivered'[Len(delivered) + i].meant = pending[i].meant
            /\ delivered'[Len(delivered) + i].got = inits
    <2>1. Appended(delivered', inits, delivered, pending, {})
        BY <1>1, <1>2, DeliveryAppends
    <2> QED BY <2>1 DEF Appended
<1>4. Len(delivered) \in Nat /\ Len(pending) \in Nat /\ Len(pending') = 0
    BY <1>1
<1>5. \A i \in 1..Len(delivered') :
         i \in 1..Len(delivered) \/ \E k \in 1..Len(pending) : i = Len(delivered) + k
    <2> TAKE i \in 1..Len(delivered')
    <2>1. i \notin 1..Len(delivered) =>
             i - Len(delivered) \in 1..Len(pending) /\ i = Len(delivered) + (i - Len(delivered))
        BY <1>3, <1>4
    <2> QED BY <2>1
<1>6. PendingIsNew'
    <2>1. \A i \in 1..Len(delivered) : delivered'[i].input <= sent
        BY <1>3 DEF PendingIsNew
    <2>2. \A k \in 1..Len(pending) : delivered'[Len(delivered) + k].input <= sent
        BY <1>3 DEF PendingIsNew
    <2>3. 1..Len(pending') = {}
        BY <1>4
    <2> QED BY <1>5, <2>1, <2>2, <2>3 DEF PendingIsNew
<1>7. OutputsReachTheirCallback'
    <2>1. \A i \in 1..Len(delivered') :
             delivered'[i].got = 0 \/ OnlyFailures(failed, delivered'[i].meant, delivered'[i].got)
        <3>1. \A i \in 1..Len(delivered) :
                 delivered'[i].got = 0 \/ OnlyFailures(failed, delivered'[i].meant, delivered'[i].got)
            BY <1>3 DEF OutputsReachTheirCallback
        <3>2. \A k \in 1..Len(pending) :
                 OnlyFailures(failed, delivered'[Len(delivered) + k].meant, delivered'[Len(delivered) + k].got)
            BY <1>3 DEF PendingIsNew
        <3> QED BY <1>5, <3>1, <3>2
    <2>2. ASSUME NEW i \in 1..Len(delivered'), NEW j \in 1..Len(delivered'), i < j
          PROVE  delivered'[i].input < delivered'[j].input
        <3>1. CASE j \in 1..Len(delivered)
            <4>1. i \in 1..Len(delivered)
                BY <1>4, <2>2, <3>1
            <4> QED BY <1>3, <2>2, <3>1, <4>1 DEF OutputsReachTheirCallback
        <3>2. ASSUME NEW k \in 1..Len(pending), j = Len(delivered) + k
              PROVE  delivered'[i].input < delivered'[j].input
            <4>1. CASE i \in 1..Len(delivered)
                BY <1>3, <3>2, <4>1 DEF PendingIsNew
            <4>2. ASSUME NEW m \in 1..Len(pending), i = Len(delivered) + m
                  PROVE  delivered'[i].input < delivered'[j].input
                <5>1. m < k
                    BY <1>4, <2>2, <3>2, <4>2
                <5> QED BY <1>3, <3>2, <4>2, <5>1 DEF PendingIsNew
            <4> QED BY <1>5, <4>1, <4>2
        <3> QED BY <1>5, <3>1, <3>2
    <2> QED BY <2>1, <2>2 DEF OutputsReachTheirCallback
<1>8. Len(delivered') + Len(pending') = Len(delivered) + Len(pending)
    BY <1>3, <1>4
<1>9. ASSUME inits # 0 \/ pending = <<>>, \A i \in 1..Len(delivered) : delivered[i].got # 0
      PROVE  \A i \in 1..Len(delivered') : delivered'[i].got # 0
    <2>1. \A k \in 1..Len(pending) : inits # 0
        BY <1>9
    <2> QED BY <1>3, <1>5, <1>9, <2>1
<1> QED BY <1>3, <1>6, <1>7, <1>8, <1>9
-----------------------------------------------------------------------------
(***************************************************************************)
(* Pointers.                                                               *)
(***************************************************************************)
\* The number of pointers to be released is a number, and none is zero.
LEMMA SlotsCount ==
    /\ Cardinality({}) = 0
    /\ \A S \in SUBSET Slots : Cardinality(S) \in Nat
<1>1. IsFiniteSet(Slots)
    <2> DEFINE A == {"codecCtx"}  B == A \cup {"frame"}  C == B \cup {"cpuFrame"}
    <2>1. IsFiniteSet(A)
        BY FS_Singleton
    <2>2. IsFiniteSet(B)
        BY <2>1, FS_AddElement
    <2>3. IsFiniteSet(C)
        BY <2>2, FS_AddElement
    <2>4. IsFiniteSet(C \cup {"hwDeviceCtx"})
        BY <2>3, FS_AddElement
    <2>5. Slots = C \cup {"hwDeviceCtx"}
        BY DEF Slots
    <2> QED BY <2>4, <2>5
<1> QED BY <1>1, FS_EmptySet, FS_Subset, FS_CardinalityType

\* The invariants that speak of inputs and outputs do not depend on the rest.
LEMMA FlowUntouched ==
    ASSUME IndInv, UNCHANGED <<flow, inits, ready, kind, failed>>, ~alive' => ~alive
    PROVE  Flow'
BY DEF IndInv, Flow, PendingIsNew, OutputsReachTheirCallback, EncoderKeepsAll, flow

\* What initialize() may do to the pointers of a codec of class k, and when it
\* may report success.
Fits(k, run, success) ==
    /\ run \in [Slots -> {"kept", "null", "held", "open"}]
    /\ \A s \in Slots \ {"codecCtx"} : run[s] # "open"
    /\ k \in Encoders => \A s \in Slots \ {"codecCtx"} : run[s] = "kept"
    /\ k = "h264" => run["cpuFrame"] = "kept" /\ run["hwDeviceCtx"] = "kept"
    /\ run = success =>
          /\ run["codecCtx"] = "open"
          /\ k \in Decoders => run["frame"] = "held"
          /\ k = "nvdec" => run["cpuFrame"] = "held" /\ run["hwDeviceCtx"] = "held"

\* initialize() ends in any way: nothing is lost that the first call made, and what
\* stays pending under the new callback does so because the call has failed.
LEMMA AssignKeeps ==
    ASSUME IndInv, NEW run, NEW success, Fits(kind, run, success), Assign(run, success)
    PROVE  IndInv'
<1> USE DEF IndInv
<1>1. step = "out" /\ step' = "out" /\ UNCHANGED <<kind, alive, sent, delivered, forceKeyframe, due>>
    BY DEF Assign
<1>2. \A s \in Slots : ptr'[s] = IF run[s] = "kept" THEN ptr[s] ELSE run[s]
    BY DEF Assign
<1>3. inits \in Nat /\ lost \in Nat /\ inits' = inits + 1 /\ failed \subseteq 1..inits
    BY DEF TypeOK, Assign
<1>4. lost' \in Nat /\ (inits = 0 => lost' = lost)
    <2> DEFINE over == {s \in Held(ptr) : run[s] # "kept"}
    <2>1. over \in SUBSET Slots
        BY DEF Held
    <2>2. inits = 0 => over = {}
        BY DEF Ownership, Held, Empty
    <2>3. Cardinality(over) \in Nat /\ (inits = 0 => Cardinality(over) = 0)
        BY <2>1, <2>2, SlotsCount
    <2> HIDE DEF over
    <2>4. lost' = lost + Cardinality(over)
        BY DEF Assign, over
    <2> QED BY <1>3, <2>3, <2>4
<1>5. /\ run = success => failed' = failed /\ ready'
      /\ run # success => failed' = failed \cup {inits + 1} /\ ready' = ready
    BY DEF Assign, TypeOK
<1>6. /\ failed \subseteq failed' /\ failed' \subseteq 1..inits'
      /\ inits' \in failed' <=> run # success
    <2>1. inits + 1 \notin 1..inits /\ inits + 1 \in 1..inits' /\ 1..inits \subseteq 1..inits'
        BY <1>3
    <2>2. CASE run = success
        BY <1>3, <1>5, <2>1, <2>2
    <2>3. CASE run # success
        BY <1>3, <1>5, <2>1, <2>3
    <2> QED BY <2>2, <2>3
<1>7. \/ run.codecCtx = "kept" /\ pending' = pending /\ overwritten' = overwritten
      \/ pending' = <<>> /\ overwritten' = overwritten + Len(pending)
    BY DEF Assign
<1>8. overwritten' \in Nat /\ pending' \in Seq(Input) /\ pending \in Seq(Input)
      /\ overwritten' + Len(pending') = overwritten + Len(pending)
    <2>1. overwritten \in Nat /\ pending \in Seq(Input) /\ Len(pending) \in Nat
        BY DEF TypeOK, Input
    <2>2. CASE pending' = pending /\ overwritten' = overwritten
        BY <2>1, <2>2
    <2>3. CASE pending' = <<>> /\ overwritten' = overwritten + Len(pending)
        <3>1. Len(pending') = 0 /\ pending' \in Seq(Input)
            BY <2>3
        <3> QED BY <2>1, <2>3, <3>1
    <2> QED BY <1>7, <2>2, <2>3
<1>9. TypeOK'
    <2>1. /\ ptr' \in [Slots -> {"null", "held", "open"}]
          /\ \A s \in Slots \ {"codecCtx"} : ptr'[s] # "open"
        BY DEF Assign, TypeOK, Fits
    <2>2. ready' \in BOOLEAN
        BY DEF Assign, TypeOK
    <2> QED BY <1>1, <1>3, <1>4, <1>6, <1>8, <2>1, <2>2 DEF TypeOK, Input
<1>10. InCall' /\ KeyframeNotLost'
    BY <1>1 DEF InCall, KeyframeNotLost, Assign
<1>11. OnceInitialized'
    <2>1. CASE run = success
        BY <1>3, <1>6, <2>1 DEF OnceInitialized
    <2>2. CASE run # success
        <3>1. ready' = ready /\ failed' = failed \cup {inits + 1}
            BY <1>5, <2>2
        <3>2. \A k \in 1..inits : k \in 1..inits' /\ k # inits + 1
            BY <1>3
        <3> QED BY <3>1, <3>2 DEF OnceInitialized
    <2> QED BY <2>1, <2>2
<1>12. ReadyIsUsable'
    BY <1>1, <1>2, <1>6 DEF ReadyIsUsable, Fits, Slots
<1>13. Ownership'
    <2>1. inits' # 0
        BY <1>3
    <2>2. /\ kind' \in Encoders => Held(ptr') \subseteq {"codecCtx"}
          /\ kind' = "h264" => Held(ptr') \subseteq {"codecCtx", "frame"}
        BY <1>1, <1>2 DEF Ownership, Held, Fits, Slots
    <2>3. OneInitializeReleasesAll'
        BY <1>3, <1>4 DEF Ownership, OneInitializeReleasesAll
    <2> QED BY <2>1, <2>2, <2>3 DEF Ownership
<1>14. PendingIsNew'
    <2>1. CASE pending' = <<>>
        BY <1>1, <2>1 DEF Flow, PendingIsNew
    <2>2. CASE run.codecCtx = "kept" /\ pending' = pending
        <3>1. run # success
            BY <2>2 DEF Fits
        <3>2. ready' = ready /\ failed' = failed \cup {inits + 1}
            BY <1>5, <3>1
        <3>3. ASSUME NEW i \in 1..Len(pending)
              PROVE  OnlyFailures(failed', pending[i].meant, inits')
            <4>1. OnlyFailures(failed, pending[i].meant, inits)
                BY DEF Flow, PendingIsNew
            <4>2. pending[i].meant \in Nat
                <5>1. pending[i] \in Input
                    BY <1>8
                <5> QED BY <5>1 DEF Input
            <4> QED BY <1>3, <3>2, <4>1, <4>2 DEF OnlyFailures
        <3> QED BY <1>1, <2>2, <3>2, <3>3 DEF Flow, PendingIsNew
    <2> QED BY <1>7, <2>1, <2>2
<1>15. OutputsReachTheirCallback'
    <2>1. ASSUME NEW i \in 1..Len(delivered)
          PROVE  delivered[i].got = 0 \/ OnlyFailures(failed', delivered[i].meant, delivered[i].got)
        BY <1>6 DEF Flow, OutputsReachTheirCallback, OnlyFailures
    <2> QED BY <1>1, <2>1 DEF Flow, OutputsReachTheirCallback
<1>16. EncoderKeepsAll'
    <2>1. ASSUME kind \in Encoders
          PROVE  Len(delivered) + Len(pending') + overwritten' = sent
        <3>1. delivered \in Seq(Output) /\ overwritten \in Nat
            BY DEF TypeOK, Output
        <3>2. Len(delivered) \in Nat /\ Len(pending) \in Nat /\ Len(pending') \in Nat
            BY <1>8, <3>1
        <3>3. Len(delivered) + Len(pending) + overwritten = sent
            BY <2>1 DEF Flow, EncoderKeepsAll
        <3>4. \A d, p, o, q, w \in Nat : w + q = o + p => d + q + w = d + p + o
            OBVIOUS
        <3>5. overwritten' \in Nat /\ overwritten' + Len(pending') = overwritten + Len(pending)
            BY <1>8
        <3> QED BY ONLY <3>1, <3>2, <3>3, <3>4, <3>5
    <2>2. ASSUME kind \in Encoders, inits' <= 1
          PROVE  overwritten' = 0
        <3>1. inits = 0 /\ ~ready
            BY <1>3, <2>2 DEF OnceInitialized
        <3>2. pending = <<>> /\ overwritten = 0
            BY <2>2, <3>1 DEF Flow, PendingIsNew, EncoderKeepsAll
        <3> QED BY <1>7, <3>2
    <2>3. alive
        BY DEF Assign
    <2> QED BY <1>1, <2>1, <2>2, <2>3 DEF Flow, EncoderKeepsAll
<1> QED BY <1>9, <1>10, <1>11, <1>12, <1>13, <1>14, <1>15, <1>16 DEF Flow

\* Every run of every class fits.
LEMMA RunsFit ==
    /\ \A run \in EncoderRuns : Fits("x264", run, EncoderReady) /\ Fits("nvenc", run, EncoderReady)
    /\ \A run \in SoftwareRuns : Fits("h264", run, SoftwareReady)
    /\ \A run \in NvdecRuns : Fits("nvdec", run, NvdecReady)
<1> USE DEF Fits, Run, Slots, Encoders, Decoders
<1>1. ASSUME NEW run \in EncoderRuns PROVE Fits("x264", run, EncoderReady) /\ Fits("nvenc", run, EncoderReady)
    BY DEF EncoderRuns, EncoderReady
<1>2. ASSUME NEW run \in SoftwareRuns PROVE Fits("h264", run, SoftwareReady)
    BY DEF SoftwareRuns, SoftwareReady
<1>3. ASSUME NEW run \in NvdecRuns PROVE Fits("nvdec", run, NvdecReady)
    BY DEF NvdecRuns, NvdecReady
<1> QED BY <1>1, <1>2, <1>3
-----------------------------------------------------------------------------
(***************************************************************************)
(* The inductive invariant.                                                *)
(***************************************************************************)

\* A codec as its constructor leaves it.
LEMMA FreshHolds ==
    ASSUME ptr = Empty, ready = FALSE, inits = 0, lost = 0, failed = {}, overwritten = 0,
           sent = 0, pending = <<>>,
           delivered = <<>>, step = "out", forceKeyframe = FALSE, due = FALSE,
           alive \in BOOLEAN, kind \in {"none"} \cup Encoders \cup Decoders
    PROVE  IndInv
<1>1. TypeOK
    <2>1. Empty \in [Slots -> {"null", "held", "open"}] /\ \A s \in Slots \ {"codecCtx"} : Empty[s] # "open"
        BY DEF Empty
    <2>2. \A S : <<>> \in Seq(S)
        OBVIOUS
    <2> QED BY <2>1, <2>2 DEF TypeOK
<1>2. Ownership
    BY DEF Ownership, OneInitializeReleasesAll, Held, Empty
<1>3. Flow
    BY DEF Flow, PendingIsNew, OutputsReachTheirCallback, EncoderKeepsAll
<1> QED BY <1>1, <1>2, <1>3 DEF IndInv, InCall, OnceInitialized, ReadyIsUsable, KeyframeNotLost

\* A codec that has just been constructed.
LEMMA ConstructHolds ==
    ASSUME NEW ks, ks \subseteq Encoders \cup Decoders, Construct(ks)
    PROVE  IndInv'
<1> USE DEF Construct
<1>1. TypeOK'
    <2>1. Empty \in [Slots -> {"null", "held", "open"}] /\ \A s \in Slots \ {"codecCtx"} : Empty[s] # "open"
        BY DEF Empty
    <2>2. \A S : <<>> \in Seq(S)
        OBVIOUS
    <2> QED BY <2>1, <2>2 DEF TypeOK
<1>2. Ownership'
    BY DEF Ownership, OneInitializeReleasesAll, Held, Empty
<1>3. Flow'
    BY DEF Flow, PendingIsNew, OutputsReachTheirCallback, EncoderKeepsAll
<1> QED BY <1>1, <1>2, <1>3 DEF IndInv, InCall, OnceInitialized, ReadyIsUsable, KeyframeNotLost

\* An input is accepted.
LEMMA InputKeeps ==
    ASSUME IndInv, ready, NEW skipped, Accept(skipped), UNCHANGED life,
           kind \in Encoders => skipped = {}
    PROVE  /\ sent' \in Nat /\ pending' \in Seq(Input) /\ delivered' \in Seq(Output)
           /\ overwritten' = overwritten /\ Flow'
<1> USE DEF IndInv, Flow
<1>1. /\ sent' = sent + 1 /\ overwritten' = overwritten
      /\ pending' \in Seq(Input) /\ delivered' \in Seq(Output)
      /\ PendingIsNew' /\ OutputsReachTheirCallback'
      /\ Len(delivered') + Len(pending') = Len(delivered) + Len(pending) + 1
      /\ (skipped = {} /\ inits # 0 /\ \A i \in 1..Len(delivered) : delivered[i].got # 0)
            => \A i \in 1..Len(delivered') : delivered'[i].got # 0
    BY AcceptKeeps DEF life
<1>2. inits # 0
    BY DEF OnceInitialized
<1>3. /\ sent \in Nat /\ overwritten \in Nat /\ Len(delivered) \in Nat /\ Len(pending) \in Nat
      /\ Len(delivered') \in Nat /\ Len(pending') \in Nat
    <2>1. sent \in Nat /\ overwritten \in Nat /\ delivered \in Seq(Output) /\ pending \in Seq(Input)
        BY DEF TypeOK, Input, Output
    <2> QED BY <1>1, <2>1
<1>4. ready => alive
    BY DEF InCall
<1>5. EncoderKeepsAll'
    <2>1. ASSUME kind \in Encoders
          PROVE  /\ Len(delivered') + Len(pending') + overwritten' = sent'
                 /\ \A i \in 1..Len(delivered') : delivered'[i].got # 0
        <3>1. /\ Len(delivered) + Len(pending) + overwritten = sent
              /\ \A i \in 1..Len(delivered) : delivered[i].got # 0
            BY <2>1 DEF EncoderKeepsAll
        <3>2. \A d, p, o, q, w \in Nat : w + q = d + p + 1 => w + q + o = d + p + o + 1
            OBVIOUS
        <3>3. Len(delivered') + Len(pending') + overwritten = sent + 1
            BY ONLY <1>1, <1>3, <3>1, <3>2
        <3>4. \A i \in 1..Len(delivered') : delivered'[i].got # 0
            BY <1>1, <1>2, <2>1, <3>1
        <3> QED BY <1>1, <3>3, <3>4
    <2> QED BY <1>1, <1>4, <2>1 DEF EncoderKeepsAll, life
<1> QED BY <1>1, <1>3, <1>5

\* The rest of the invariant when neither the pointers nor the flag change.
LEMMA LifeUntouched ==
    ASSUME IndInv, UNCHANGED life, step' = step \/ step' # "crashed"
    PROVE  OnceInitialized' /\ ReadyIsUsable' /\ Ownership'
BY DEF IndInv, OnceInitialized, ReadyIsUsable, Ownership, OneInitializeReleasesAll, Held, life

\* Whatever is pending comes out and the context is released or with it everything.
LEMMA FlushHolds ==
    ASSUME IndInv, delivered' = delivered \o Delivery(pending, {}), pending' = <<>>,
           UNCHANGED <<kind, inits, sent, failed, overwritten>>
    PROVE  delivered' \in Seq(Output) /\ pending' \in Seq(Input) /\ Flow'
<1> USE DEF IndInv, Flow
<1>1. /\ delivered' \in Seq(Output)
      /\ PendingIsNew' /\ OutputsReachTheirCallback'
      /\ Len(delivered') + Len(pending') = Len(delivered) + Len(pending)
      /\ (inits # 0 \/ pending = <<>>) /\ (\A i \in 1..Len(delivered) : delivered[i].got # 0)
            => \A i \in 1..Len(delivered') : delivered'[i].got # 0
    BY FlushKeeps
<1>2. inits # 0 \/ pending = <<>>
    BY DEF OnceInitialized, PendingIsNew
<1>3. EncoderKeepsAll'
    BY <1>1, <1>2 DEF EncoderKeepsAll
<1> QED BY <1>1, <1>3

\* What is pending is dropped.
LEMMA DropHolds ==
    ASSUME IndInv, kind \in Decoders, pending' = <<>>, UNCHANGED <<kind, inits, sent, delivered, failed>>
    PROVE  pending' \in Seq(Input) /\ Flow'
<1>1. kind \notin Encoders
    BY DEF Encoders, Decoders
<1> QED BY <1>1 DEF IndInv, Flow, PendingIsNew, OutputsReachTheirCallback, EncoderKeepsAll

\* A step on the encoder.
LEMMA EncoderStep ==
    ASSUME IndInv, Encoder
    PROVE  IndInv'
<1> USE DEF IndInv
<1>1. CASE CreateEncoder
    BY <1>1, ConstructHolds DEF CreateEncoder
<1>2. CASE InitializeSoftwareEncoder
    BY <1>2, AssignKeeps, RunsFit DEF InitializeSoftwareEncoder
<1>3. CASE InitializeNVENCEncoder
    BY <1>3, AssignKeeps, RunsFit DEF InitializeNVENCEncoder
<1>4. CASE EncodeBegin
    <2>1. TypeOK' /\ InCall' /\ KeyframeNotLost'
        BY <1>4 DEF EncodeBegin, Called, TypeOK, InCall, KeyframeNotLost, life, flow
    <2>2. OnceInitialized' /\ ReadyIsUsable' /\ Ownership'
        BY <1>4, LifeUntouched DEF EncodeBegin
    <2>3. Flow'
        BY <1>4, FlowUntouched DEF EncodeBegin, life
    <2> QED BY <2>1, <2>2, <2>3
<1>5. CASE EncodeSend
    <2>1. ready /\ Accept({}) /\ UNCHANGED life /\ step' = "out"
        BY <1>5 DEF EncodeSend, InCall
    <2>2. /\ sent' \in Nat /\ pending' \in Seq(Input) /\ delivered' \in Seq(Output)
          /\ overwritten' = overwritten /\ Flow'
        BY <2>1, InputKeeps
    <2>3. TypeOK' /\ InCall' /\ KeyframeNotLost'
        BY <1>5, <2>2 DEF EncodeSend, TypeOK, InCall, KeyframeNotLost, life, Input, Output
    <2>4. OnceInitialized' /\ ReadyIsUsable' /\ Ownership'
        BY <2>1, LifeUntouched
    <2> QED BY <2>2, <2>3, <2>4
<1>6. CASE EncodeRefused
    <2>1. TypeOK' /\ InCall' /\ KeyframeNotLost'
        BY <1>6 DEF EncodeRefused, TypeOK, InCall, KeyframeNotLost, life, flow
    <2>2. OnceInitialized' /\ ReadyIsUsable' /\ Ownership'
        BY <1>6, LifeUntouched DEF EncodeRefused
    <2>3. Flow'
        BY <1>6, FlowUntouched DEF EncodeRefused, life
    <2> QED BY <2>1, <2>2, <2>3
<1>7. CASE RequestKeyframe
    <2>1. TypeOK' /\ InCall' /\ KeyframeNotLost'
        BY <1>7 DEF RequestKeyframe, TypeOK, InCall, KeyframeNotLost, life, flow
    <2>2. OnceInitialized' /\ ReadyIsUsable' /\ Ownership'
        BY <1>7, LifeUntouched DEF RequestKeyframe
    <2>3. Flow'
        BY <1>7, FlowUntouched DEF RequestKeyframe, life
    <2> QED BY <2>1, <2>2, <2>3
<1>8. CASE EncodeOnDevice
    <2>1. ready /\ Accept({}) /\ UNCHANGED life /\ step' = step
        BY <1>8 DEF EncodeOnDevice, Usable, Called
    <2>2. /\ sent' \in Nat /\ pending' \in Seq(Input) /\ delivered' \in Seq(Output)
          /\ overwritten' = overwritten /\ Flow'
        BY <2>1, InputKeeps
    <2>3. TypeOK' /\ InCall' /\ KeyframeNotLost'
        BY <1>8, <2>2 DEF EncodeOnDevice, TypeOK, InCall, KeyframeNotLost, life, Input, Output
    <2>4. OnceInitialized' /\ ReadyIsUsable' /\ Ownership'
        BY <2>1, LifeUntouched
    <2> QED BY <2>2, <2>3, <2>4
<1>9. CASE StopEncoder
    <2>1. delivered' \in Seq(Output) /\ pending' \in Seq(Input) /\ Flow'
        BY <1>9, FlushHolds DEF StopEncoder
    <2>2. TypeOK'
        BY <1>9, <2>1 DEF StopEncoder, TypeOK, Input, Output, Slots
    <2>3. InCall' /\ OnceInitialized' /\ KeyframeNotLost' /\ ReadyIsUsable'
        BY <1>9 DEF StopEncoder, InCall, OnceInitialized, KeyframeNotLost, ReadyIsUsable
    <2>4. Ownership'
        BY <1>9 DEF StopEncoder, TypeOK, Ownership, OneInitializeReleasesAll, Held, Empty, Slots
    <2> QED BY <2>1, <2>2, <2>3, <2>4
<1>10. CASE DestroyEncoder
    <2>1. delivered' = delivered \o Delivery(pending, {})
        <3>1. CASE ready
            BY <1>10, <3>1 DEF DestroyEncoder
        <3>2. CASE ~ready
            <4>1. pending = <<>> /\ delivered' = delivered /\ delivered \in Seq(Output)
                BY <1>10, <3>2 DEF DestroyEncoder, Flow, PendingIsNew, TypeOK, Output
            <4>2. Delivery(pending, {}) = <<>>
                BY <4>1 DEF Delivery
            <4> QED BY <4>1, <4>2, ConcatEmptySeq
        <3> QED BY <3>1, <3>2
    <2>2. delivered' \in Seq(Output) /\ pending' \in Seq(Input) /\ Flow'
        BY <1>10, <2>1, FlushHolds DEF DestroyEncoder
    <2>3. lost' = lost
        <3>1. Held(ptr) \ {"codecCtx"} = {}
            BY <1>10 DEF DestroyEncoder, Ownership
        <3>2. Cardinality(Held(ptr) \ {"codecCtx"}) = 0
            BY ONLY <3>1, SlotsCount
        <3>3. lost \in Nat
            BY DEF TypeOK
        <3> QED BY <1>10, <3>2, <3>3 DEF DestroyEncoder
    <2>4. TypeOK'
        BY <1>10, <2>2, <2>3 DEF DestroyEncoder, TypeOK, Input, Output, Empty, Slots
    <2>5. InCall' /\ OnceInitialized' /\ KeyframeNotLost' /\ ReadyIsUsable'
        BY <1>10 DEF DestroyEncoder, InCall, OnceInitialized, KeyframeNotLost, ReadyIsUsable
    <2>6. Ownership'
        BY <1>10, <2>3 DEF DestroyEncoder, Ownership, OneInitializeReleasesAll, Held, Empty
    <2> QED BY <2>2, <2>4, <2>5, <2>6
<1> QED BY <1>1, <1>2, <1>3, <1>4, <1>5, <1>6, <1>7, <1>8, <1>9, <1>10 DEF Encoder

\* A step on the decoder.
LEMMA DecoderStep ==
    ASSUME IndInv, Decoder
    PROVE  IndInv'
<1> USE DEF IndInv
<1>1. CASE CreateDecoder
    BY <1>1, ConstructHolds DEF CreateDecoder
<1>2. CASE InitializeSoftwareDecoder
    BY <1>2, AssignKeeps, RunsFit DEF InitializeSoftwareDecoder
<1>3. CASE InitializeNvdecDecoder
    BY <1>3, AssignKeeps, RunsFit DEF InitializeNvdecDecoder
<1>4. ASSUME NEW skipped, kind \notin Encoders, Usable, Accept(skipped),
             UNCHANGED <<life, step, forceKeyframe, due>>
      PROVE  IndInv'
    <2>1. /\ sent' \in Nat /\ pending' \in Seq(Input) /\ delivered' \in Seq(Output)
          /\ overwritten' = overwritten /\ Flow'
        BY <1>4, InputKeeps DEF Usable, Called
    <2>2. TypeOK' /\ InCall' /\ KeyframeNotLost'
        BY <1>4, <2>1 DEF TypeOK, InCall, KeyframeNotLost, life, Input, Output
    <2>3. OnceInitialized' /\ ReadyIsUsable' /\ Ownership'
        BY <1>4, LifeUntouched
    <2> QED BY <2>1, <2>2, <2>3
<1>5. CASE Decode
    BY <1>4, <1>5 DEF Decode, Encoders
<1>6. CASE DecodeOnDevice
    BY <1>4, <1>6 DEF DecodeOnDevice, Encoders
<1>7. CASE StopDecoder
    <2>1. pending' \in Seq(Input) /\ Flow'
        BY <1>7, DropHolds DEF StopDecoder
    <2>2. TypeOK'
        BY <1>7, <2>1 DEF StopDecoder, TypeOK, Input, Output, Slots
    <2>3. InCall' /\ OnceInitialized' /\ KeyframeNotLost' /\ ReadyIsUsable'
        BY <1>7 DEF StopDecoder, InCall, OnceInitialized, KeyframeNotLost, ReadyIsUsable, Decoders
    <2>4. Ownership'
        BY <1>7 DEF StopDecoder, TypeOK, Ownership, OneInitializeReleasesAll, Held, Empty, Slots
    <2> QED BY <2>1, <2>2, <2>3, <2>4
<1>8. CASE DestroyDecoder
    <2>1. pending' \in Seq(Input) /\ Flow'
        BY <1>8, DropHolds DEF DestroyDecoder
    <2>2. lost' = lost
        <3>1. Held(ptr) \ Released(kind) = {}
            BY <1>8 DEF DestroyDecoder, Ownership, Released, Held, Decoders
        <3>2. Cardinality(Held(ptr) \ Released(kind)) = 0
            BY ONLY <3>1, SlotsCount
        <3>3. lost \in Nat
            BY DEF TypeOK
        <3> QED BY <1>8, <3>2, <3>3 DEF DestroyDecoder
    <2>3. TypeOK'
        BY <1>8, <2>1, <2>2 DEF DestroyDecoder, TypeOK, Input, Output, Empty, Slots
    <2>4. InCall' /\ OnceInitialized' /\ KeyframeNotLost' /\ ReadyIsUsable'
        BY <1>8 DEF DestroyDecoder, InCall, OnceInitialized, KeyframeNotLost, ReadyIsUsable, Decoders
    <2>5. Ownership'
        BY <1>8, <2>2 DEF DestroyDecoder, Ownership, OneInitializeReleasesAll, Held, Empty
    <2> QED BY <2>1, <2>3, <2>4, <2>5
<1> QED BY <1>1, <1>2, <1>3, <1>5, <1>6, <1>7, <1>8 DEF Decoder

\* A null pointer is used: only a failed initialize() of a ready codec leaves one.
LEMMA UseNullStep ==
    ASSUME IndInv, UseNull
    PROVE  IndInv'
<1> USE DEF IndInv
<1>1. UNCHANGED <<life, flow>> /\ step' = "crashed" /\ step = "out" /\ UNCHANGED <<forceKeyframe, due>>
    BY DEF UseNull
<1>2. TypeOK' /\ InCall' /\ KeyframeNotLost'
    BY <1>1 DEF TypeOK, InCall, KeyframeNotLost, life, flow
<1>3. OnceInitialized' /\ Ownership'
    BY <1>1 DEF OnceInitialized, Ownership, OneInitializeReleasesAll, Held, life
<1>4. Flow'
    BY <1>1, FlowUntouched DEF life
<1>5. ReadyIsUsable'
    <2>1. inits \in failed
        BY DEF UseNull, ReadyIsUsable, Decoders
    <2>2. failed # 1..inits
        BY DEF UseNull, OnceInitialized
    <2> QED BY <1>1, <2>1, <2>2 DEF ReadyIsUsable, life
<1> QED BY <1>2, <1>3, <1>4, <1>5

\* Every reachable state satisfies the invariant.
THEOREM Inductive == Spec => []IndInv
<1>1. Init => IndInv
    BY FreshHolds DEF Init
<1>2. IndInv /\ [Next]_vars => IndInv'
    <2> SUFFICES ASSUME IndInv, [Next]_vars PROVE IndInv'
        OBVIOUS
    <2>1. CASE Next
        BY <2>1, EncoderStep, DecoderStep, UseNullStep DEF Next
    <2>2. CASE UNCHANGED vars
        <3>1. UNCHANGED <<life, flow, step, forceKeyframe, due>>
            BY <2>2 DEF vars
        <3>2. OnceInitialized' /\ ReadyIsUsable' /\ Ownership'
            BY <3>1, LifeUntouched
        <3>3. Flow'
            BY <3>1, FlowUntouched DEF life
        <3>4. TypeOK' /\ InCall' /\ KeyframeNotLost'
            BY <3>1 DEF IndInv, TypeOK, InCall, KeyframeNotLost, life, flow
        <3> QED BY <3>2, <3>3, <3>4 DEF IndInv
    <2> QED BY <2>1, <2>2
<1> QED BY <1>1, <1>2, PTL DEF Spec

\* Every variable has its type, and no pointer is left to what was released.
THEOREM TypeCorrect == Spec => []TypeOK
BY Inductive, PTL DEF IndInv

\* A codec that is ready has everything its code dereferences, unless its last
\* initialize() has failed; nothing but such a call leads to the use of a null pointer.
THEOREM ReadyUsable == Spec => []ReadyIsUsable
BY Inductive, PTL DEF IndInv

\* Outputs come in order, each to the callback of its own initialization or to one that
\* only failed initializations have put in its place.
THEOREM OutputsInPlace == Spec => []OutputsReachTheirCallback
BY Inductive, PTL DEF IndInv, Flow

\* An encoder delivers every frame that it accepted, but for those in a context that
\* initialize() replaced.
THEOREM EncoderComplete == Spec => []EncoderKeepsAll
BY Inductive, PTL DEF IndInv, Flow

\* One initialization leaks nothing.
THEOREM NothingLeaks == Spec => []OneInitializeReleasesAll
BY Inductive, PTL DEF IndInv, Ownership

\* No keyframe request is forgotten between two steps.
THEOREM KeyframeKept == Spec => []KeyframeNotLost
BY Inductive, PTL DEF IndInv
=============================================================================
