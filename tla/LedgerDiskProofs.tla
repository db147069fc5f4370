-------------------------- MODULE LedgerDiskProofs --------------------------
(* Facts about LedgerDisk's operators, cited by LedgerProofs and MiningProofs. *)
EXTENDS LedgerDisk, SequenceTheorems, FiniteSetTheorems, WellFoundedInduction, TLAPS

\* A non-empty set of naturals below a bound has a greatest element.
LEMMA GreatestExists ==
    ASSUME NEW B \in Nat, NEW S \in SUBSET (1 .. B), S # {}
    PROVE  \E m \in S : \A k \in S : k <= m
<1> DEFINE T == {n \in Nat : B - n \in S}
<1>1. T \subseteq Nat /\ T # {}
  <2>1. PICK s \in S : TRUE
    OBVIOUS
  <2>2. B - s \in T
    BY <2>1
  <2>. QED  BY <2>2
<1>2. \E x \in T : \A y \in T : ~ (<<y, x>> \in OpToRel(<, Nat))
  <2> HIDE DEF T
  <2> QED BY <1>1, NatLessThanWellFounded, WFMin
<1>3. PICK x \in T : \A y \in T : ~ (y < x)
  BY <1>2 DEF OpToRel
<1>4. B - x \in S
  OBVIOUS
<1>5. ASSUME NEW k \in S PROVE k <= B - x
  <2>1. B - k \in T
    OBVIOUS
  <2>2. ~ (B - k < x)
    BY <2>1, <1>3
  <2> QED BY <2>2
<1> QED BY <1>4, <1>5

\* A function on 1 .. n is a sequence of length n.
LEMMA FunctionIsSeq ==
    ASSUME NEW S, NEW n \in Nat, NEW f \in [1 .. n -> S]
    PROVE  f \in Seq(S) /\ Len(f) = n
OBVIOUS

\* Lines that come from some set are the lines found on the chain.
LEMMA ChainShape ==
    ASSUME NEW S, NEW ch \in Seq(Seq(S))
    PROVE  /\ ch \in Seq(Seq(LinesOn(ch)))
           /\ LinesOn(ch) \subseteq S
<1> DEFINE L == LinesOn(ch)
<1>1. ASSUME NEW i \in 1 .. Len(ch) PROVE ch[i] \in Seq(L)
  <2>1. ch[i] \in Seq(S)
    BY ElementOfSeq
  <2>2. \A j \in 1 .. Len(ch[i]) : ch[i][j] \in L
    BY <2>1 DEF LinesOn
  <2>3. /\ ch[i] \in [1 .. Len(ch[i]) -> S]
        /\ Len(ch[i]) \in Nat
    BY <2>1, LenProperties
  <2> HIDE DEF L
  <2>4. ch[i] \in [1 .. Len(ch[i]) -> L]
    BY <2>2, <2>3
  <2>5. QED
    BY <2>3, <2>4, FunctionIsSeq
<1>2. ch \in Seq(Seq(L))
  <2>1. ch \in [1 .. Len(ch) -> Seq(S)] /\ Len(ch) \in Nat
    BY LenProperties
  <2> HIDE DEF L
  <2>2. ch \in [1 .. Len(ch) -> Seq(L)]
    BY <1>1, <2>1
  <2> QED BY <2>1, <2>2, FunctionIsSeq
<1>3. L \subseteq S
  BY ElementOfSeq DEF LinesOn
<1> QED BY <1>2, <1>3

-----------------------------------------------------------------------------
(* How one write changes what a reader parses. *)

\* Positions of parsed lines are pairs of naturals.
LEMMA ParsedPositions ==
    ASSUME NEW S, NEW ch \in Seq(Seq(S))
    PROVE  Parsed(ch) \subseteq Nat \X Nat
<1>1. \A i \in 1 .. Len(ch) : DOMAIN ch[i] = 1 .. Len(ch[i]) /\ Len(ch[i]) \in Nat
  BY ElementOfSeq, LenProperties
<1>2. DOMAIN ch = 1 .. Len(ch) /\ Len(ch) \in Nat
  BY LenProperties
<1>3. \A i \in 1 .. Len(ch) : {i} \X DOMAIN ch[i] \subseteq Nat \X Nat
  BY <1>1, <1>2
<1> QED BY <1>2, <1>3 DEF Parsed

\* What it takes for a position to hold a parsed line.
LEMMA WhichParsed ==
    ASSUME NEW S, NEW ch \in Seq(Seq(S)), NEW p \in Nat \X Nat
    PROVE  p \in Parsed(ch) <=> /\ p[1] \in 1 .. Len(ch)
                               /\ p[2] \in 1 .. Len(ch[p[1]])
                               /\ ch[p[1]][p[2]].rec.type # "garbage"
<1>1. \A i \in 1 .. Len(ch) : DOMAIN ch[i] = 1 .. Len(ch[i])
  BY ElementOfSeq, LenProperties
<1>2. DOMAIN ch = 1 .. Len(ch)
  BY LenProperties
<1>3. p = <<p[1], p[2]>>
  OBVIOUS
<1> QED BY <1>1, <1>2, <1>3 DEF Parsed, At

\* ch2 parses to what ch parses to.
SameRecords(ch, ch2) ==
    /\ Parsed(ch2) = Parsed(ch)
    /\ \A p \in Parsed(ch) : At(ch2, p) = At(ch, p)

\* ch2 parses to what ch parses to, then record r at position z.
OneMore(ch, ch2, z, r) ==
    /\ z \notin Parsed(ch)
    /\ Parsed(ch2) = Parsed(ch) \cup {z}
    /\ \A p \in Parsed(ch) : /\ At(ch2, p) = At(ch, p)
                             /\ Before(p, z)
                             /\ ~ Before(z, p)
    /\ ~ Before(z, z)
    /\ At(ch2, z) = r

\* ch2 has lost the record at position z, if there was one.
OneLess(ch, ch2, z) ==
    /\ Parsed(ch2) = Parsed(ch) \ {z}
    /\ \A p \in Parsed(ch2) : At(ch2, p) = At(ch, p)

\* ch2 is ch with line l after the last line of its active segment.
Appended(S, ch, ch2, l) ==
    /\ ch2 \in Seq(Seq(S))
    /\ Len(ch2) = Len(ch)
    /\ \A i \in 1 .. Len(ch) - 1 : ch2[i] = ch[i]
    /\ ch2[Len(ch)] = Append(ch[Len(ch)], l)
    /\ l.rec.type = "garbage" => SameRecords(ch, ch2)
    /\ l.rec.type # "garbage" =>
         OneMore(ch, ch2, <<Len(ch), Len(ch[Len(ch)]) + 1>>, l.rec)

\* ch2 is ch with a successor segment whose only line is l.
Published(S, ch, ch2, l) ==
    /\ ch2 \in Seq(Seq(S))
    /\ Len(ch2) = Len(ch) + 1
    /\ \A i \in 1 .. Len(ch) : ch2[i] = ch[i]
    /\ ch2[Len(ch) + 1] = <<l>>
    /\ OneMore(ch, ch2, <<Len(ch) + 1, 1>>, l.rec)

\* ch2 is ch with line l in place of the last line of its active segment.
LastLineReplaced(S, ch, ch2, l) ==
    /\ ch2 \in Seq(Seq(S))
    /\ Len(ch2) = Len(ch)
    /\ \A i \in 1 .. Len(ch) - 1 : ch2[i] = ch[i]
    /\ Len(ch2[Len(ch)]) = Len(ch[Len(ch)])
    /\ \A j \in 1 .. Len(ch[Len(ch)]) : ch2[Len(ch)][j] =
         IF j = Len(ch[Len(ch)]) THEN l ELSE ch[Len(ch)][j]

\* That, and the chain parses to one record less.
Spliced(S, ch, ch2, l) ==
    /\ LastLineReplaced(S, ch, ch2, l)
    /\ OneLess(ch, ch2, <<Len(ch), Len(ch[Len(ch)])>>)

\* A write after an ended line adds one line to the active segment.
LEMMA LineAppended ==
    ASSUME NEW S, NEW ch \in Seq(Seq(S)), Len(ch) >= 1, NEW l \in S,
           NEW ch2, ch2 = [ch EXCEPT ![Len(ch)] = Append(@, l)]
    PROVE  Appended(S, ch, ch2, l)
<1>1. PICK n \in Nat \ {0} : n = Len(ch)
  BY LenProperties
<1>2. ch[n] \in Seq(S)
  BY <1>1, ElementOfSeq
<1>3. PICK m \in Nat : m = Len(ch[n])
  BY <1>2, LenProperties
<1>4. /\ Append(ch[n], l) \in Seq(S)
      /\ Len(Append(ch[n], l)) = m + 1
      /\ Append(ch[n], l)[m + 1] = l
      /\ \A j \in 1 .. m : Append(ch[n], l)[j] = ch[n][j]
  BY <1>2, <1>3
<1>5. /\ ch2 \in Seq(Seq(S))
      /\ Len(ch2) = n
      /\ ch2[n] = Append(ch[n], l)
      /\ \A i \in 1 .. n : i # n => ch2[i] = ch[i]
  BY <1>1, <1>4, ExceptSeq
<1>6. /\ Len(ch2[n]) = m + 1
      /\ ch2[n][m + 1] = l
      /\ \A j \in 1 .. m : ch2[n][j] = ch[n][j]
  BY <1>4, <1>5
<1>7. \A p \in Nat \X Nat : p \in Parsed(ch2) <=>
             \/ p \in Parsed(ch)
             \/ p = <<n, m + 1>> /\ l.rec.type # "garbage"
  <2> SUFFICES ASSUME NEW p \in Nat \X Nat
               PROVE  p \in Parsed(ch2) <=>
                        \/ p \in Parsed(ch)
                        \/ p = <<n, m + 1>> /\ l.rec.type # "garbage"
    OBVIOUS
  <2> DEFINE i == p[1]
             j == p[2]
  <2>0. p = <<i, j>> /\ i \in Nat /\ j \in Nat
    OBVIOUS
  <2>1. p \in Parsed(ch2) <=>
             /\ i \in 1 .. n
             /\ j \in 1 .. Len(ch2[i])
             /\ ch2[i][j].rec.type # "garbage"
    BY <1>5, WhichParsed
  <2>2. p \in Parsed(ch) <=>
             /\ i \in 1 .. n
             /\ j \in 1 .. Len(ch[i])
             /\ ch[i][j].rec.type # "garbage"
    BY <1>1, WhichParsed
  <2>3. CASE i # n
    BY <2>0, <1>5, <2>1, <2>2, <2>3
  <2>4. CASE i = n
    <3>1. j \in 1 .. m + 1 <=> j \in 1 .. m \/ j = m + 1
      OBVIOUS
    <3>2. m + 1 \notin 1 .. m /\ n \in 1 .. n
      OBVIOUS
    <3> QED BY <2>0, <1>3, <1>6, <2>1, <2>2, <2>4, <3>1, <3>2
  <2> QED BY <2>3, <2>4
<1>8. Parsed(ch) \subseteq Nat \X Nat /\ Parsed(ch2) \subseteq Nat \X Nat
  BY <1>5, ParsedPositions
<1>9. \A p \in Parsed(ch) : /\ At(ch2, p) = At(ch, p)
                            /\ p[1] < n \/ (p[1] = n /\ p[2] <= m)
  <2> SUFFICES ASSUME NEW p \in Parsed(ch)
               PROVE  /\ At(ch2, p) = At(ch, p)
                      /\ p[1] < n \/ (p[1] = n /\ p[2] <= m)
    OBVIOUS
  <2>1. p[1] \in 1 .. n /\ p[2] \in 1 .. Len(ch[p[1]])
    BY <1>1, <1>8, WhichParsed
  <2>2. CASE p[1] = n
    BY <1>3, <1>6, <2>1, <2>2 DEF At
  <2>3. CASE p[1] # n
    BY <1>5, <2>1, <2>3 DEF At
  <2> QED BY <2>2, <2>3
<1>10. \A p \in Parsed(ch) : /\ Before(p, <<n, m + 1>>)
                             /\ ~ Before(<<n, m + 1>>, p)
  <2> SUFFICES ASSUME NEW p \in Parsed(ch)
               PROVE  Before(p, <<n, m + 1>>) /\ ~ Before(<<n, m + 1>>, p)
    OBVIOUS
  <2>1. p[1] \in Nat /\ p[2] \in Nat
    BY <1>8
  <2> QED BY <1>9, <2>1 DEF Before
<1>12. ~ Before(<<n, m + 1>>, <<n, m + 1>>) /\ At(ch2, <<n, m + 1>>) = l.rec
  BY <1>6 DEF Before, At
<1>11. <<n, m + 1>> \notin Parsed(ch)
  BY <1>10, <1>12
<1>13. l.rec.type = "garbage" => SameRecords(ch, ch2)
  <2> SUFFICES ASSUME l.rec.type = "garbage" PROVE SameRecords(ch, ch2)
    OBVIOUS
  <2>1. Parsed(ch2) = Parsed(ch)
    BY <1>7, <1>8
  <2> QED BY <1>9, <2>1 DEF SameRecords
<1>14. l.rec.type # "garbage" => OneMore(ch, ch2, <<n, m + 1>>, l.rec)
  <2> SUFFICES ASSUME l.rec.type # "garbage"
               PROVE  OneMore(ch, ch2, <<n, m + 1>>, l.rec)
    OBVIOUS
  <2> DEFINE z == <<n, m + 1>>
  <2>1. \A p \in Nat \X Nat : p \in Parsed(ch2) <=> p \in Parsed(ch) \cup {z}
    BY <1>7
  <2>2. Parsed(ch) \cup {z} \subseteq Nat \X Nat
    BY <1>8
  <2>3. Parsed(ch2) = Parsed(ch) \cup {z}
    <3> HIDE DEF z
    <3> QED BY <1>8, <2>1, <2>2
  <2>4. \A p \in Parsed(ch) : At(ch2, p) = At(ch, p) /\ Before(p, z) /\ ~ Before(z, p)
    BY <1>9, <1>10
  <2>5. OneMore(ch, ch2, z, l.rec)
    <3>1. z \notin Parsed(ch) /\ ~ Before(z, z) /\ At(ch2, z) = l.rec
      BY <1>11, <1>12
    <3> HIDE DEF z
    <3> QED BY <2>3, <2>4, <3>1 DEF OneMore
  <2> QED BY <2>5
<1>15. <<Len(ch), Len(ch[Len(ch)]) + 1>> = <<n, m + 1>>
  BY <1>1, <1>3
<1>16. /\ \A i \in 1 .. Len(ch) - 1 : ch2[i] = ch[i]
       /\ ch2[Len(ch)] = Append(ch[Len(ch)], l)
       /\ Len(ch2) = Len(ch)
  BY <1>1, <1>5
<1>17. ch2 \in Seq(Seq(S))
  BY <1>5
<1> QED BY <1>13, <1>14, <1>15, <1>16, <1>17 DEF Appended

\* _publish_segment adds one segment of one line, and nothing else moves.
LEMMA SegmentPublished ==
    ASSUME NEW S, NEW ch \in Seq(Seq(S)), Len(ch) >= 1, NEW l \in S,
           l.rec.type # "garbage",
           NEW ch2, ch2 = Append(ch, <<l>>)
    PROVE  Published(S, ch, ch2, l)
<1>1. PICK n \in Nat \ {0} : n = Len(ch)
  BY LenProperties
<1>2. <<l>> \in Seq(S) /\ Len(<<l>>) = 1 /\ <<l>>[1] = l
  OBVIOUS
<1>3. /\ ch2 \in Seq(Seq(S))
      /\ Len(ch2) = n + 1
      /\ \A i \in 1 .. n : ch2[i] = ch[i]
      /\ ch2[n + 1] = <<l>>
  BY <1>1, <1>2
<1>4. \A p \in Nat \X Nat : p \in Parsed(ch2) <=>
             p \in Parsed(ch) \/ p = <<n + 1, 1>>
  <2> SUFFICES ASSUME NEW p \in Nat \X Nat
               PROVE  p \in Parsed(ch2) <=>
                        p \in Parsed(ch) \/ p = <<n + 1, 1>>
    OBVIOUS
  <2> DEFINE i == p[1]
             j == p[2]
  <2>0. p = <<i, j>> /\ i \in Nat /\ j \in Nat
    OBVIOUS
  <2>1. p \in Parsed(ch2) <=>
             /\ i \in 1 .. n + 1
             /\ j \in 1 .. Len(ch2[i])
             /\ ch2[i][j].rec.type # "garbage"
    BY <1>3, WhichParsed
  <2>2. p \in Parsed(ch) <=>
             /\ i \in 1 .. n
             /\ j \in 1 .. Len(ch[i])
             /\ ch[i][j].rec.type # "garbage"
    BY <1>1, WhichParsed
  <2>3. CASE i # n + 1
    <3>1. p # <<n + 1, 1>>
      BY <2>0, <2>3
    <3>2. i \in 1 .. n + 1 <=> i \in 1 .. n
      BY <2>0, <2>3
    <3>3. i \in 1 .. n => ch2[i] = ch[i]
      BY <1>3
    <3> HIDE DEF i, j
    <3> QED BY <2>1, <2>2, <3>1, <3>2, <3>3
  <2>4. CASE i = n + 1
    <3>1. p = <<n + 1, 1>> <=> j = 1
      BY <2>0, <2>4
    <3>2. i \notin 1 .. n /\ i \in 1 .. n + 1
      BY <2>0, <2>4
    <3>3. j \in 1 .. Len(ch2[i]) <=> j = 1
      BY <2>0, <2>4, <1>2, <1>3
    <3>4. j = 1 => ch2[i][j].rec.type # "garbage"
      BY <2>4, <1>2, <1>3
    <3> HIDE DEF i, j
    <3> QED BY <2>1, <2>2, <3>1, <3>2, <3>3, <3>4
  <2> QED BY <2>3, <2>4
<1>5. Parsed(ch) \subseteq Nat \X Nat /\ Parsed(ch2) \subseteq Nat \X Nat
  BY <1>3, ParsedPositions
<1>6. \A p \in Parsed(ch) : p \in Nat \X Nat /\ p[1] \in 1 .. n
  BY <1>1, <1>5, WhichParsed
<1>7. \A p \in Parsed(ch) : /\ At(ch2, p) = At(ch, p)
                            /\ Before(p, <<n + 1, 1>>)
                            /\ ~ Before(<<n + 1, 1>>, p)
  BY <1>3, <1>6 DEF At, Before
<1>8. <<n + 1, 1>> \notin Parsed(ch)
  BY <1>6
<1>9. ~ Before(<<n + 1, 1>>, <<n + 1, 1>>) /\ At(ch2, <<n + 1, 1>>) = l.rec
  BY <1>2, <1>3 DEF Before, At
<1>10. Parsed(ch2) = Parsed(ch) \cup {<<n + 1, 1>>}
  <2> DEFINE z == <<n + 1, 1>>
  <2>1. \A p \in Nat \X Nat : p \in Parsed(ch2) <=> p \in Parsed(ch) \cup {z}
    BY <1>4
  <2>2. Parsed(ch) \cup {z} \subseteq Nat \X Nat
    BY <1>5
  <2> HIDE DEF z
  <2>3. Parsed(ch2) = Parsed(ch) \cup {z}
    BY <1>5, <2>1, <2>2
  <2> QED BY <2>3 DEF z
<1>11. OneMore(ch, ch2, <<Len(ch) + 1, 1>>, l.rec)
  BY <1>1, <1>7, <1>8, <1>9, <1>10 DEF OneMore
<1> QED BY <1>1, <1>3, <1>11 DEF Published

\* Replacing the last line by an unreadable one takes one position out of the
\* parsed ones.
LEMMA LineReplaced ==
    ASSUME NEW S, NEW ch \in Seq(Seq(S)), Len(ch) >= 1, NEW l \in S,
           l.rec.type = "garbage", ch[Len(ch)] # <<>>,
           NEW ch2, LastLineReplaced(S, ch, ch2, l)
    PROVE  OneLess(ch, ch2, <<Len(ch), Len(ch[Len(ch)])>>)
<1>1. PICK n \in Nat \ {0} : n = Len(ch)
  BY LenProperties
<1>2. ch[n] \in Seq(S)
  BY <1>1, ElementOfSeq
<1>3. PICK m \in Nat \ {0} : m = Len(ch[n])
  BY <1>1, <1>2, LenProperties, EmptySeq
<1>5. /\ ch2 \in Seq(Seq(S))
      /\ Len(ch2) = n
      /\ \A i \in 1 .. n : i # n => ch2[i] = ch[i]
  <2>1. \A i \in 1 .. n : i # n => i \in 1 .. n - 1
    OBVIOUS
  <2> QED BY <1>1, <2>1 DEF LastLineReplaced
<1>6. /\ Len(ch2[n]) = m
      /\ \A j \in 1 .. m : ch2[n][j] = IF j = m THEN l ELSE ch[n][j]
  BY <1>1, <1>3 DEF LastLineReplaced
<1>7. \A p \in Nat \X Nat : p \in Parsed(ch2) <=>
             p \in Parsed(ch) /\ p # <<n, m>>
  <2> SUFFICES ASSUME NEW p \in Nat \X Nat
               PROVE  p \in Parsed(ch2) <=> p \in Parsed(ch) /\ p # <<n, m>>
    OBVIOUS
  <2> DEFINE i == p[1]
             j == p[2]
  <2>0. p = <<i, j>> /\ i \in Nat /\ j \in Nat
    OBVIOUS
  <2>1. p \in Parsed(ch2) <=>
             /\ i \in 1 .. n
             /\ j \in 1 .. Len(ch2[i])
             /\ ch2[i][j].rec.type # "garbage"
    BY <1>5, WhichParsed
  <2>2. p \in Parsed(ch) <=>
             /\ i \in 1 .. n
             /\ j \in 1 .. Len(ch[i])
             /\ ch[i][j].rec.type # "garbage"
    BY <1>1, WhichParsed
  <2>3. CASE i # n
    <3>1. p # <<n, m>>
      BY <2>0, <2>3
    <3>2. i \in 1 .. n => ch2[i] = ch[i]
      BY <1>5, <2>3
    <3> HIDE DEF i, j
    <3> QED BY <2>1, <2>2, <3>1, <3>2
  <2>4. CASE i = n
    <3>1. p = <<n, m>> <=> j = m
      BY <2>0, <2>4
    <3>2. j \in 1 .. Len(ch2[i]) <=> j \in 1 .. Len(ch[i])
      BY <1>3, <1>6, <2>4
    <3>3. j \in 1 .. Len(ch[i]) => ch2[i][j] = IF j = m THEN l ELSE ch[i][j]
      BY <1>3, <1>6, <2>4
    <3> HIDE DEF i, j
    <3> QED BY <2>1, <2>2, <3>1, <3>2, <3>3
  <2> QED BY <2>3, <2>4
<1>8. Parsed(ch) \subseteq Nat \X Nat /\ Parsed(ch2) \subseteq Nat \X Nat
  BY <1>5, ParsedPositions
<1>10. \A p \in Parsed(ch2) : At(ch2, p) = At(ch, p)
  <2> SUFFICES ASSUME NEW p \in Parsed(ch2) PROVE At(ch2, p) = At(ch, p)
    OBVIOUS
  <2>1. /\ p \in Nat \X Nat /\ p # <<n, m>>
        /\ p[1] \in 1 .. n /\ p[2] \in 1 .. Len(ch[p[1]])
    BY <1>1, <1>7, <1>8, WhichParsed
  <2>2. p = <<p[1], p[2]>>
    BY <2>1
  <2>3. CASE p[1] = n
    BY <1>3, <1>6, <2>1, <2>2, <2>3 DEF At
  <2>4. CASE p[1] # n
    BY <1>5, <2>1, <2>4 DEF At
  <2> QED BY <2>3, <2>4
<1>11. Parsed(ch2) = Parsed(ch) \ {<<n, m>>}
  BY <1>7, <1>8
<1> QED BY <1>1, <1>3, <1>10, <1>11 DEF OneLess

\* ch2 is ch with its last line overwritten by l.
Overwritten(ch, ch2, l) ==
    ch2 = [ch EXCEPT ![Len(ch)] = [@ EXCEPT ![Len(ch[Len(ch)])] = l]]

\* A write onto a line without its newline takes that line out of the parsed ones.
LEMMA LineSpliced ==
    ASSUME NEW S, NEW ch \in Seq(Seq(S)), Len(ch) >= 1, NEW l \in S,
           l.rec.type = "garbage", ch[Len(ch)] # <<>>,
           NEW ch2, Overwritten(ch, ch2, l)
    PROVE  Spliced(S, ch, ch2, l)
<1>1. PICK n \in Nat \ {0} : n = Len(ch)
  BY LenProperties
<1>2. ch[n] \in Seq(S)
  BY <1>1, ElementOfSeq
<1>3. PICK m \in Nat \ {0} : m = Len(ch[n])
  BY <1>1, <1>2, LenProperties, EmptySeq
<1>4. /\ [ch[n] EXCEPT ![m] = l] \in Seq(S)
      /\ Len([ch[n] EXCEPT ![m] = l]) = m
      /\ \A j \in 1 .. m : [ch[n] EXCEPT ![m] = l][j] = IF j = m THEN l ELSE ch[n][j]
  BY <1>2, <1>3, ExceptSeq
<1>5. /\ ch2 \in Seq(Seq(S))
      /\ Len(ch2) = n
      /\ ch2[n] = [ch[n] EXCEPT ![m] = l]
      /\ \A i \in 1 .. n : i # n => ch2[i] = ch[i]
  <2> DEFINE seg == [ch[n] EXCEPT ![m] = l]
  <2>1. ch2 = [ch EXCEPT ![n] = seg]
    BY <1>1, <1>3 DEF Overwritten
  <2>2. seg \in Seq(S)
    BY <1>4
  <2>3. n \in 1 .. Len(ch)
    BY <1>1
  <2> HIDE DEF seg
  <2>4. /\ [ch EXCEPT ![n] = seg] \in Seq(Seq(S))
        /\ Len([ch EXCEPT ![n] = seg]) = Len(ch)
        /\ \A i \in 1 .. Len(ch) :
             [ch EXCEPT ![n] = seg][i] = IF i = n THEN seg ELSE ch[i]
    BY <2>2, <2>3, ExceptSeq
  <2>5. /\ ch2[n] = seg
        /\ \A i \in 1 .. n : i # n => ch2[i] = ch[i]
    BY <1>1, <2>1, <2>3, <2>4
  <2> QED BY <1>1, <2>1, <2>4, <2>5 DEF seg
<1>6. /\ Len(ch2[n]) = m
      /\ \A j \in 1 .. m : ch2[n][j] = IF j = m THEN l ELSE ch[n][j]
  BY <1>4, <1>5
<1>7. LastLineReplaced(S, ch, ch2, l)
  <2>1. /\ ch2 \in Seq(Seq(S)) /\ Len(ch2) = Len(ch)
        /\ \A i \in 1 .. Len(ch) - 1 : ch2[i] = ch[i]
    BY <1>1, <1>5
  <2>2. /\ Len(ch2[Len(ch)]) = Len(ch[Len(ch)])
        /\ \A j \in 1 .. Len(ch[Len(ch)]) : ch2[Len(ch)][j] =
             IF j = Len(ch[Len(ch)]) THEN l ELSE ch[Len(ch)][j]
    BY <1>1, <1>3, <1>6
  <2> QED BY <2>1, <2>2 DEF LastLineReplaced
<1>8. OneLess(ch, ch2, <<Len(ch), Len(ch[Len(ch)])>>)
  BY <1>7, LineReplaced
<1> QED BY <1>7, <1>8 DEF Spliced

-----------------------------------------------------------------------------
(* What the readers' checks make of a write. *)

\* The record at a parsed position is one of the shapes the ledger writes.
LEMMA RecordOfPosition ==
    ASSUME NEW ch, DiskOK(ch), NEW p \in Parsed(ch)
    PROVE  /\ p \in Nat \X Nat
           /\ p[1] \in 1 .. Len(ch) /\ p[2] \in 1 .. Len(ch[p[1]])
           /\ ch[p[1]][p[2]] \in LinesOn(ch)
           /\ RecordOK(At(ch, p))
           /\ At(ch, p).type # "garbage"
           /\ At(ch, p).type \in {"work", "redo", "segment_open"}
           /\ At(ch, p).seq \in Nat
<1>1. ch \in Seq(Seq(LinesOn(ch)))
  BY DEF DiskOK
<1>2. p \in Nat \X Nat
  BY <1>1, ParsedPositions
<1>3. /\ p[1] \in 1 .. Len(ch) /\ p[2] \in 1 .. Len(ch[p[1]])
      /\ ch[p[1]][p[2]].rec.type # "garbage"
  BY <1>1, <1>2, WhichParsed
<1>4. ch[p[1]][p[2]] \in LinesOn(ch)
  <2>1. ch[p[1]] \in Seq(LinesOn(ch))
    BY <1>1, <1>3, ElementOfSeq
  <2> QED BY <1>3, <2>1, ElementOfSeq
<1>5. RecordOK(At(ch, p)) /\ At(ch, p).type # "garbage"
  BY <1>3, <1>4 DEF DiskOK, At
<1>6. At(ch, p).type \in {"work", "redo", "segment_open"} /\ At(ch, p).seq \in Nat
  <2> DEFINE r == At(ch, p)
  <2>1. CASE r = Garbage
    BY <1>5, <2>1 DEF Garbage
  <2>2. CASE r \in [type : {"work"}, seq : Nat, prompt : Prompts]
    BY <2>2
  <2>3. CASE r \in [type : {"redo"}, seq : Nat, prompt : Prompts, supersedes : Nat]
    BY <2>3
  <2>4. CASE r = Header(r.segment, r.prev, r.seq) /\ r.segment \in Nat /\ r.seq \in Nat
    <3>1. Header(r.segment, r.prev, r.seq).type = "segment_open"
      BY DEF Header
    <3> QED BY <2>4, <3>1
  <2> QED BY <1>5, <2>1, <2>2, <2>3, <2>4 DEF RecordOK
<1> QED BY <1>2, <1>3, <1>4, <1>5, <1>6

\* Positions are totally ordered, so a seq names one position.
LEMMA SeqNamesPosition ==
    ASSUME NEW ch, DiskOK(ch), SeqsOK(ch),
           NEW p \in Parsed(ch), NEW q \in Parsed(ch),
           At(ch, p).seq = At(ch, q).seq
    PROVE  p = q
<1>1. p \in Nat \X Nat /\ q \in Nat \X Nat
  BY RecordOfPosition
<1>2. At(ch, p).seq \in Nat /\ At(ch, q).seq \in Nat
  BY RecordOfPosition
<1>3. ~ Before(p, q) /\ ~ Before(q, p)
  BY <1>2 DEF SeqsOK
<1>4. p[1] = q[1] /\ p[2] = q[2]
  BY <1>1, <1>3 DEF Before
<1> QED BY <1>1, <1>4

\* next_seq() is above every seq the chain holds.
LEMMA NextSeqIsFresh ==
    ASSUME NEW ch, DiskOK(ch), SeqsOK(ch), NEW B \in Nat,
           \A p \in Parsed(ch) : At(ch, p).seq <= B
    PROVE  /\ NextSeq(ch) \in Nat
           /\ NextSeq(ch) > 0
           /\ \A p \in Parsed(ch) : At(ch, p).seq < NextSeq(ch)
<1>1. Seqs(ch) \subseteq 1 .. B
  BY RecordOfPosition DEF Seqs, SeqsOK
<1>2. CASE Seqs(ch) = {}
  BY <1>2 DEF Seqs, NextSeq
<1>3. CASE Seqs(ch) # {}
  <2> DEFINE m == CHOOSE n \in Seqs(ch) : \A k \in Seqs(ch) : k <= n
  <2>1. \E n \in Seqs(ch) : \A k \in Seqs(ch) : k <= n
    BY <1>1, <1>3, GreatestExists
  <2>2. m \in Seqs(ch) /\ \A k \in Seqs(ch) : k <= m
    BY <2>1
  <2>3. NextSeq(ch) = 1 + m
    BY <1>3 DEF NextSeq
  <2>4. m \in Nat /\ Seqs(ch) \subseteq Nat
    BY <1>1, <2>2
  <2> HIDE DEF m
  <2>5. \A p \in Parsed(ch) : At(ch, p).seq \in Seqs(ch)
    BY DEF Seqs
  <2> QED BY <2>2, <2>3, <2>4, <2>5
<1> QED BY <1>2, <1>3

\* Seqs that increased still do when the new last record has a fresh one.
LEMMA SeqsAfterOneMore ==
    ASSUME NEW ch, NEW ch2, NEW z, NEW r, OneMore(ch, ch2, z, r), SeqsOK(ch),
           r.seq > 0, \A p \in Parsed(ch) : At(ch, p).seq < r.seq
    PROVE  SeqsOK(ch2)
BY DEF OneMore, SeqsOK

\* Seqs still increase when a record is lost.
LEMMA SeqsAfterOneLess ==
    ASSUME NEW ch, NEW ch2, NEW z, OneLess(ch, ch2, z), SeqsOK(ch)
    PROVE  SeqsOK(ch2)
BY DEF OneLess, SeqsOK

\* Seqs still increase when the parsed records stay where they were.
LEMMA SeqsAfterSameRecords ==
    ASSUME NEW ch, NEW ch2, SameRecords(ch, ch2), SeqsOK(ch)
    PROVE  SeqsOK(ch2)
BY DEF SameRecords, SeqsOK

-----------------------------------------------------------------------------
(* Parses and SealsOK see the lines themselves. *)

\* The typed view of a segment of a well-formed chain.
LEMMA ShapeByLine ==
    ASSUME NEW ch, DiskOK(ch)
    PROVE  /\ Len(ch) \in Nat \ {0} /\ DOMAIN ch = 1 .. Len(ch)
           /\ \A i \in 1 .. Len(ch) : /\ ch[i] \in Seq(LinesOn(ch))
                                     /\ Len(ch[i]) \in Nat
                                     /\ DOMAIN ch[i] = 1 .. Len(ch[i])
                                     /\ \A j \in 1 .. Len(ch[i]) :
                                          ch[i][j] \in LinesOn(ch)
BY ElementOfSeq, LenProperties DEF DiskOK

\* A change of the active segment that keeps its header breaks no seal.
LEMMA SealsAfterChange ==
    ASSUME NEW S, NEW ch \in Seq(Seq(S)), Len(ch) >= 1, SealsOK(ch),
           NEW T, NEW ch2 \in Seq(Seq(T)), Len(ch2) = Len(ch),
           \A i \in 1 .. Len(ch) - 1 : ch2[i] = ch[i],
           Headers(ch2[Len(ch)]) = Headers(ch[Len(ch)]),
           Headers(ch[Len(ch)]) # {} => ch2[Len(ch)][1] = ch[Len(ch)][1]
    PROVE  SealsOK(ch2)
<1>1. PICK n \in Nat \ {0} : n = Len(ch)
  BY LenProperties
<1>2. DOMAIN ch = 1 .. n /\ DOMAIN ch2 = 1 .. n
  BY <1>1, LenProperties
<1>3. \A i \in 1 .. n : i # n => ch2[i] = ch[i]
  BY <1>1
<1>4. ASSUME NEW i \in 1 .. n
      PROVE  IF i = 1 THEN Headers(ch2[1]) = {}
             ELSE /\ Headers(ch2[i]) = {1}
                  /\ ch2[i][1].rec.segment = i - 1
                  /\ ch2[i][1].rec.prev = ch2[i - 1]
  <2>1. CASE i = 1
    <3>1. Headers(ch[1]) = {}
      BY <1>2, <2>1 DEF SealsOK
    <3> QED BY <1>1, <1>3, <2>1, <3>1
  <2>2. CASE i # 1
    <3>1. /\ Headers(ch[i]) = {1}
          /\ ch[i][1].rec.segment = i - 1
          /\ ch[i][1].rec.prev = ch[i - 1]
      BY <1>2, <2>2 DEF SealsOK
    <3>2. ch2[i - 1] = ch[i - 1]
      BY <1>3, <2>2
    <3>3. Headers(ch2[i]) = {1} /\ ch2[i][1] = ch[i][1]
      BY <1>1, <1>3, <3>1
    <3> QED BY <2>2, <3>1, <3>2, <3>3
  <2> QED BY <2>1, <2>2
<1> QED BY <1>2, <1>4 DEF SealsOK

\* The header _seal_and_rotate writes seals the segment before it.
LEMMA SealsAfterPublication ==
    ASSUME NEW S, NEW ch \in Seq(Seq(S)), Len(ch) >= 1, SealsOK(ch),
           NEW T, NEW ch2 \in Seq(Seq(T)), Len(ch2) = Len(ch) + 1,
           \A i \in 1 .. Len(ch) : ch2[i] = ch[i],
           NEW l, l.rec.type = "segment_open",
           l.rec.segment = Len(ch), l.rec.prev = ch[Len(ch)],
           ch2[Len(ch) + 1] = <<l>>
    PROVE  SealsOK(ch2)
<1>1. PICK n \in Nat \ {0} : n = Len(ch)
  BY LenProperties
<1>2. DOMAIN ch = 1 .. n /\ DOMAIN ch2 = 1 .. n + 1
  BY <1>1, LenProperties
<1>3. ch2[n + 1] = <<l>>
  BY <1>1
<1>4. l.rec.segment = n /\ l.rec.prev = ch[n]
  BY <1>1
<1>5. Headers(<<l>>) = {1} /\ <<l>>[1] = l
  BY DEF Headers
<1>6. ASSUME NEW i \in 1 .. n + 1
      PROVE  IF i = 1 THEN Headers(ch2[1]) = {}
             ELSE /\ Headers(ch2[i]) = {1}
                  /\ ch2[i][1].rec.segment = i - 1
                  /\ ch2[i][1].rec.prev = ch2[i - 1]
  <2>0. \A j \in 1 .. n : ch2[j] = ch[j]
    BY <1>1
  <2>1. CASE i = n + 1
    <3>1. ch2[i - 1] = ch[n] /\ i # 1 /\ i - 1 = n
      BY <2>0, <2>1
    <3>2. ch2[i] = <<l>> /\ ch2[i][1] = l
      BY <1>3, <1>5, <2>1
    <3> QED BY <1>4, <1>5, <3>1, <3>2
  <2>2. CASE i \in 1 .. n
    <3>1. ch2[i] = ch[i]
      BY <2>0, <2>2
    <3>2. i # 1 => i - 1 \in 1 .. n
      BY <2>2
    <3>3. i # 1 => ch2[i - 1] = ch[i - 1]
      BY <2>0, <3>2
    <3>4. IF i = 1 THEN Headers(ch[1]) = {}
          ELSE /\ Headers(ch[i]) = {1}
               /\ ch[i][1].rec.segment = i - 1
               /\ ch[i][1].rec.prev = ch[i - 1]
      BY <1>2, <2>2 DEF SealsOK
    <3> QED BY <3>1, <3>3, <3>4
  <2> QED BY <2>1, <2>2
<1> QED BY <1>2, <1>6 DEF SealsOK

\* Nothing is unreadable before the end when the new line follows a readable one.
LEMMA ParsesAfterAppend ==
    ASSUME NEW S, NEW ch \in Seq(Seq(S)), Len(ch) >= 1, Parses(ch),
           ~ TornTail(ch[Len(ch)]), NEW l,
           NEW T, NEW ch2 \in Seq(Seq(T)), Len(ch2) = Len(ch),
           \A i \in 1 .. Len(ch) - 1 : ch2[i] = ch[i],
           ch2[Len(ch)] = Append(ch[Len(ch)], l)
    PROVE  Parses(ch2)
<1>1. PICK n \in Nat \ {0} : n = Len(ch)
  BY LenProperties
<1>2. DOMAIN ch = 1 .. n /\ DOMAIN ch2 = 1 .. n
  BY <1>1, LenProperties
<1>3. ch[n] \in Seq(S)
  BY <1>1, ElementOfSeq
<1>4. PICK m \in Nat : m = Len(ch[n]) /\ DOMAIN ch[n] = 1 .. m
  BY <1>3, LenProperties
<1>5. /\ DOMAIN ch2[n] = 1 .. m + 1
      /\ Len(ch2[n]) = m + 1
      /\ \A j \in 1 .. m : ch2[n][j] = ch[n][j]
  BY <1>1, <1>3, <1>4
<1>6. \A j \in 1 .. m : ch[n][j].rec.type # "garbage"
  <2> SUFFICES ASSUME NEW j \in 1 .. m, ch[n][j].rec.type = "garbage" PROVE FALSE
    OBVIOUS
  <2>0. n \in DOMAIN ch /\ j \in DOMAIN ch[n]
    BY <1>2, <1>4
  <2>1. j = m
    BY <1>4, <2>0 DEF Parses
  <2>2. ch[n] # <<>>
    BY <1>3, <1>4, EmptySeq
  <2>3. LastLine(ch[n]).rec.type = "garbage"
    BY <1>4, <2>1 DEF LastLine
  <2> QED BY <1>1, <2>2, <2>3 DEF TornTail
<1>7. ASSUME NEW i \in 1 .. n, NEW j \in DOMAIN ch2[i],
             ch2[i][j].rec.type = "garbage"
      PROVE  j = Len(ch2[i])
  <2>1. CASE i = n
    <3>1. j \in 1 .. m + 1 /\ j \notin 1 .. m
      BY <1>5, <1>6, <1>7, <2>1
    <3>2. j = m + 1
      BY <3>1
    <3> QED BY <1>5, <2>1, <3>2
  <2>2. CASE i # n
    <3>1. ch2[i] = ch[i]
      BY <1>1, <2>2
    <3> QED BY <1>2, <1>7, <3>1 DEF Parses
  <2> QED BY <2>1, <2>2
<1> QED BY <1>2, <1>7 DEF Parses

-----------------------------------------------------------------------------
(* What is in effect after a write. *)

\* A tombstone names a seq some record has, so a fresh seq is not superseded.
LEMMA SupersededIsOld ==
    ASSUME NEW ch, ControlsOK(ch), NEW n \in Superseded(ch)
    PROVE  \E q \in Parsed(ch) : At(ch, q).seq = n
BY DEF Superseded, ControlsOK

\* The records in effect do not change when the parsed records do not.
LEMMA SameInEffect ==
    ASSUME NEW ch, NEW ch2, SameRecords(ch, ch2)
    PROVE  /\ ActivePos(ch2) = ActivePos(ch)
           /\ \A p \in ActivePos(ch) : At(ch2, p) = At(ch, p)
           /\ ControlsOK(ch) => ControlsOK(ch2)
<1>1. Superseded(ch2) = Superseded(ch)
  BY DEF SameRecords, Superseded
<1>2. ActivePos(ch2) = ActivePos(ch)
  BY <1>1 DEF SameRecords, ActivePos
<1>3. ControlsOK(ch) => ControlsOK(ch2)
  BY DEF SameRecords, ControlsOK
<1> QED BY <1>2, <1>3 DEF SameRecords, ActivePos

\* A segment header changes nothing that is in effect.
LEMMA HeaderInEffect ==
    ASSUME NEW ch, NEW ch2, NEW z, NEW r, OneMore(ch, ch2, z, r),
           r.type = "segment_open"
    PROVE  /\ ActivePos(ch2) = ActivePos(ch)
           /\ \A p \in ActivePos(ch) : At(ch2, p) = At(ch, p)
           /\ ControlsOK(ch) => ControlsOK(ch2)
<1>1. Superseded(ch2) = Superseded(ch)
  BY DEF OneMore, Superseded
<1>2. ActivePos(ch2) = ActivePos(ch)
  BY <1>1 DEF OneMore, ActivePos
<1>3. ControlsOK(ch) => ControlsOK(ch2)
  BY DEF OneMore, ControlsOK
<1> QED BY <1>2, <1>3 DEF OneMore, ActivePos

\* A work record with a fresh seq comes into effect, and nothing leaves.
LEMMA WorkInEffect ==
    ASSUME NEW ch, DiskOK(ch), ControlsOK(ch),
           NEW ch2, NEW z, NEW r, OneMore(ch, ch2, z, r), r.type = "work",
           r.seq \in Nat, \A p \in Parsed(ch) : At(ch, p).seq < r.seq
    PROVE  /\ ActivePos(ch2) = ActivePos(ch) \cup {z}
           /\ z \notin ActivePos(ch)
           /\ At(ch2, z) = r
           /\ \A p \in ActivePos(ch) : At(ch2, p) = At(ch, p)
           /\ ControlsOK(ch2)
<1>1. Superseded(ch2) = Superseded(ch)
  BY DEF OneMore, Superseded
<1>2. r.seq \notin Superseded(ch)
  <2> SUFFICES ASSUME r.seq \in Superseded(ch) PROVE FALSE
    OBVIOUS
  <2>1. PICK q \in Parsed(ch) : At(ch, q).seq = r.seq
    BY SupersededIsOld
  <2> QED BY <2>1, RecordOfPosition
<1>3. ActivePos(ch2) = ActivePos(ch) \cup {z}
  BY <1>1, <1>2 DEF OneMore, ActivePos
<1>4. ControlsOK(ch2)
  BY DEF OneMore, ControlsOK
<1> QED BY <1>3, <1>4 DEF OneMore, ActivePos

\* A tombstone over an active record takes that record, and no other, out.
LEMMA RedoInEffect ==
    ASSUME NEW ch, DiskOK(ch), SeqsOK(ch), ControlsOK(ch),
           NEW ch2, NEW z, NEW r, OneMore(ch, ch2, z, r), r.type = "redo",
           NEW t \in ActivePos(ch), At(ch, t).seq = r.supersedes,
           At(ch, t).prompt = r.prompt
    PROVE  /\ ActivePos(ch2) = ActivePos(ch) \ {t}
           /\ \A p \in ActivePos(ch) : At(ch2, p) = At(ch, p)
           /\ ControlsOK(ch2)
<1>1. Superseded(ch2) = Superseded(ch) \cup {r.supersedes}
  BY DEF OneMore, Superseded
<1>2. \A p \in Parsed(ch) : At(ch, p).seq = r.supersedes => p = t
  BY SeqNamesPosition DEF ActivePos
<1>3. ActivePos(ch2) = ActivePos(ch) \ {t}
  BY <1>1, <1>2 DEF OneMore, ActivePos
<1>4. \A p \in Parsed(ch) : At(ch, p).type = "redo"
                              => At(ch, p).supersedes # r.supersedes
  BY DEF ActivePos, Superseded
<1>5. ControlsOK(ch2)
  BY <1>4 DEF OneMore, ControlsOK, ActivePos
<1> QED BY <1>3, <1>5 DEF OneMore, ActivePos

-----------------------------------------------------------------------------
(* Whole chains: what no crash can break.                                  *)

LineOK(l) == /\ l = Line(l.rec, l.eol)
             /\ RecordOK(l.rec)
             /\ l.eol \in BOOLEAN

\* The inductive strengthening of SealsAndSeqsHold: a header always has its
\* newline (it is published whole), so that no later write can land on it.
Whole(B, ch) ==
    /\ DiskOK(ch)
    /\ Parses(ch)
    /\ SealsOK(ch)
    /\ SeqsOK(ch)
    /\ \A l \in LinesOn(ch) : l.rec.type = "segment_open" => l.eol
    /\ \A p \in Parsed(ch) : At(ch, p).seq <= B

\* A chain made of the old lines and one well-formed line is well formed.
LEMMA DiskOKAfter ==
    ASSUME NEW ch, DiskOK(ch), NEW l, LineOK(l),
           NEW ch2 \in Seq(Seq(LinesOn(ch) \cup {l})), Len(ch2) >= 1
    PROVE  DiskOK(ch2) /\ LinesOn(ch2) \subseteq LinesOn(ch) \cup {l}
<1>1. ch2 \in Seq(Seq(LinesOn(ch2))) /\ LinesOn(ch2) \subseteq LinesOn(ch) \cup {l}
  BY ChainShape
<1> QED BY <1>1 DEF DiskOK, LineOK

\* A line added to a segment that is not torn keeps the chain whole.
LEMMA WholeAfterAppend ==
    ASSUME NEW B \in Nat, NEW ch, Whole(B, ch), ~ TornTail(ch[Len(ch)]),
           NEW l, LineOK(l), l.rec.type # "segment_open",
           l.rec.type # "garbage" => l.rec.seq = NextSeq(ch),
           NextSeq(ch) <= B,
           NEW ch2, Appended(LinesOn(ch) \cup {l}, ch, ch2, l)
    PROVE  Whole(B, ch2)
<1> DEFINE S == LinesOn(ch) \cup {l}
<1>1. ch \in Seq(Seq(LinesOn(ch))) /\ Len(ch) >= 1
  BY DEF Whole, DiskOK
<1>3. /\ ch2 \in Seq(Seq(S))
      /\ Len(ch2) = Len(ch)
      /\ \A i \in 1 .. Len(ch) - 1 : ch2[i] = ch[i]
      /\ ch2[Len(ch)] = Append(ch[Len(ch)], l)
      /\ l.rec.type = "garbage" => SameRecords(ch, ch2)
      /\ l.rec.type # "garbage" =>
           OneMore(ch, ch2, <<Len(ch), Len(ch[Len(ch)]) + 1>>, l.rec)
  BY DEF Appended
<1>4. DiskOK(ch2) /\ LinesOn(ch2) \subseteq S
  BY <1>1, <1>3, DiskOKAfter DEF Whole
<1>5. /\ NextSeq(ch) \in Nat /\ NextSeq(ch) > 0
      /\ \A p \in Parsed(ch) : At(ch, p).seq < NextSeq(ch)
  BY NextSeqIsFresh DEF Whole
<1>6. SeqsOK(ch2) /\ \A p \in Parsed(ch2) : At(ch2, p).seq <= B
  <2>1. CASE l.rec.type = "garbage"
    BY <1>3, <2>1, SeqsAfterSameRecords DEF SameRecords, Whole
  <2>2. CASE l.rec.type # "garbage"
    <3>1. PICK z : OneMore(ch, ch2, z, l.rec)
      BY <1>3, <2>2
    <3>2. SeqsOK(ch2)
      BY <1>5, <2>2, <3>1, SeqsAfterOneMore DEF Whole
    <3>3. \A p \in Parsed(ch2) : At(ch2, p).seq <= B
      BY <2>2, <3>1 DEF OneMore, Whole
    <3> QED BY <3>2, <3>3
  <2> QED BY <2>1, <2>2
<1>7. Parses(ch2)
  <2> HIDE DEF S
  <2> QED BY <1>1, <1>3, ParsesAfterAppend DEF Whole
<1>8. SealsOK(ch2)
  <2>1. ch[Len(ch)] \in Seq(LinesOn(ch)) /\ Len(ch) \in Nat
    BY <1>1, ElementOfSeq, LenProperties
  <2> DEFINE g == ch[Len(ch)]
             g2 == ch2[Len(ch)]
  <2>2. /\ DOMAIN g = 1 .. Len(g) /\ DOMAIN g2 = 1 .. Len(g) + 1
        /\ Len(g) \in Nat
        /\ g2[Len(g) + 1] = l
        /\ \A j \in 1 .. Len(g) : g2[j] = g[j]
    <3>1. g2 = Append(g, l)
      BY <1>3
    <3> HIDE DEF S, g2
    <3> QED BY <2>1, <3>1
  <2>3. Headers(g2) = Headers(g)
    <3> HIDE DEF g, g2
    <3>1. \A j \in 1 .. Len(g) + 1 : j \in 1 .. Len(g) \/ j = Len(g) + 1
      BY <2>2
    <3> QED BY <2>2, <3>1 DEF Headers
  <2>4. Headers(g) # {} => g2[1] = g[1]
    <3> HIDE DEF g, g2
    <3> QED BY <2>2 DEF Headers
  <2> HIDE DEF S
  <2> QED BY <1>1, <1>3, <2>3, <2>4, SealsAfterChange DEF Whole
<1> QED BY <1>4, <1>6, <1>7, <1>8 DEF Whole

\* A line spliced onto one without its newline keeps the chain whole.
LEMMA WholeAfterSplice ==
    ASSUME NEW B \in Nat, NEW ch, Whole(B, ch), ~ TornTail(ch[Len(ch)]),
           ch[Len(ch)] # <<>>, ~ LastLine(ch[Len(ch)]).eol,
           NEW l, LineOK(l), l.rec.type = "garbage",
           NEW ch2, Spliced(LinesOn(ch) \cup {l}, ch, ch2, l)
    PROVE  Whole(B, ch2)
<1> DEFINE S == LinesOn(ch) \cup {l}
<1>1. ch \in Seq(Seq(LinesOn(ch))) /\ Len(ch) >= 1
  BY DEF Whole, DiskOK
<1>3. /\ ch2 \in Seq(Seq(S))
      /\ Len(ch2) = Len(ch)
      /\ \A i \in 1 .. Len(ch) - 1 : ch2[i] = ch[i]
      /\ Len(ch2[Len(ch)]) = Len(ch[Len(ch)])
      /\ \A j \in 1 .. Len(ch[Len(ch)]) : ch2[Len(ch)][j] =
           IF j = Len(ch[Len(ch)]) THEN l ELSE ch[Len(ch)][j]
      /\ OneLess(ch, ch2, <<Len(ch), Len(ch[Len(ch)])>>)
  BY DEF Spliced, LastLineReplaced
<1>4. DiskOK(ch2) /\ LinesOn(ch2) \subseteq S
  BY <1>1, <1>3, DiskOKAfter DEF Whole
<1>5. SeqsOK(ch2) /\ \A p \in Parsed(ch2) : At(ch2, p).seq <= B
  <2>1. PICK z : OneLess(ch, ch2, z)
    BY <1>3
  <2>2. SeqsOK(ch2)
    BY <2>1, SeqsAfterOneLess DEF Whole
  <2> QED BY <2>1, <2>2 DEF OneLess, Whole
<1> DEFINE n == Len(ch)
           g == ch[n]
           g2 == ch2[n]
           m == Len(g)
<1>6. /\ n \in Nat \ {0} /\ m \in Nat \ {0}
      /\ DOMAIN ch = 1 .. n /\ DOMAIN ch2 = 1 .. n
      /\ DOMAIN g = 1 .. m /\ DOMAIN g2 = 1 .. m /\ Len(g2) = m
      /\ g[m] \in LinesOn(ch)
  <2>1. g \in Seq(LinesOn(ch)) /\ n \in Nat \ {0}
    BY <1>1, ElementOfSeq, LenProperties
  <2>2. g2 \in Seq(S)
    <3> HIDE DEF S
    <3> QED BY <1>3, <2>1, ElementOfSeq
  <2>3. DOMAIN ch = 1 .. n /\ DOMAIN ch2 = 1 .. n
    <3> HIDE DEF S
    <3> QED BY <1>1, <1>3, LenProperties
  <2>4. m \in Nat \ {0}
    BY <2>1, LenProperties, EmptySeq
  <2>5. g[m] \in LinesOn(ch)
    <3> HIDE DEF g
    <3> QED BY <2>1, <2>4, ElementOfSeq
  <2>6. DOMAIN g = 1 .. m /\ DOMAIN g2 = 1 .. m /\ Len(g2) = m
    <3> HIDE DEF S
    <3> QED BY <1>3, <2>1, <2>2, LenProperties
  <2> QED BY <2>1, <2>3, <2>4, <2>5, <2>6
<1>7. \A j \in 1 .. m : g2[j] = IF j = m THEN l ELSE g[j]
  BY <1>3
<1>8. ASSUME NEW i \in 1 .. n, i # n PROVE ch2[i] = ch[i]
  <2>1. n \in Nat \ {0}
    BY <1>6
  <2>2. i \in 1 .. n - 1
    <3> HIDE DEF n
    <3> QED BY <1>8, <2>1
  <2> QED BY <1>3, <2>2
<1>9. g[m].rec.type # "segment_open"
  BY <1>6 DEF Whole, LastLine
<1>10. Parses(ch2)
  <2> SUFFICES ASSUME NEW i \in 1 .. n, NEW j \in DOMAIN ch2[i],
                      ch2[i][j].rec.type = "garbage"
               PROVE  j = Len(ch2[i])
    BY <1>6 DEF Parses
  <2>1. CASE i = n
    <3>1. ASSUME j # m PROVE FALSE
      <4>1. j \in 1 .. m /\ g[j].rec.type = "garbage"
        BY <1>6, <1>7, <2>1, <3>1
      <4>2. n \in DOMAIN ch /\ j \in DOMAIN ch[n] /\ ch[n][j].rec.type = "garbage"
        BY <1>6, <4>1
      <4> QED BY <3>1, <4>2 DEF Parses, Whole
    <3> QED BY <1>6, <2>1, <3>1
  <2>2. CASE i # n
    <3>1. ch2[i] = ch[i]
      BY <1>8, <2>2
    <3> QED BY <1>6, <3>1 DEF Parses, Whole
  <2> QED BY <2>1, <2>2
<1>11. SealsOK(ch2)
  <2>1. Headers(g2) = Headers(g)
    <3> HIDE DEF g, g2, m
    <3> QED BY <1>6, <1>7, <1>9 DEF Headers
  <2>2. Headers(g) # {} => g2[1] = g[1]
    <3>1. Headers(g) # {} => Headers(g) = {1}
      BY <1>6 DEF Whole, SealsOK
    <3> HIDE DEF g, g2, m
    <3> QED BY <1>6, <1>7, <1>9, <3>1 DEF Headers
  <2> HIDE DEF S
  <2> QED BY <1>1, <1>3, <2>1, <2>2, SealsAfterChange DEF Whole
<1> QED BY <1>4, <1>5, <1>10, <1>11 DEF Whole

\* A rotation keeps the chain whole.
LEMMA WholeAfterPublication ==
    ASSUME NEW B \in Nat, NEW ch, Whole(B, ch), NextSeq(ch) <= B,
           NEW l, LineOK(l), l.eol, l.rec.type = "segment_open",
           l.rec.segment = Len(ch), l.rec.prev = ch[Len(ch)],
           l.rec.seq = NextSeq(ch),
           NEW ch2, Published(LinesOn(ch) \cup {l}, ch, ch2, l)
    PROVE  Whole(B, ch2)
<1> DEFINE S == LinesOn(ch) \cup {l}
<1>1. ch \in Seq(Seq(LinesOn(ch))) /\ Len(ch) \in Nat /\ Len(ch) >= 1
  BY LenProperties DEF Whole, DiskOK
<1>2. /\ ch2 \in Seq(Seq(S))
      /\ Len(ch2) = Len(ch) + 1
      /\ \A i \in 1 .. Len(ch) : ch2[i] = ch[i]
      /\ ch2[Len(ch) + 1] = <<l>>
      /\ OneMore(ch, ch2, <<Len(ch) + 1, 1>>, l.rec)
  BY DEF Published
<1>3. /\ NextSeq(ch) \in Nat /\ NextSeq(ch) > 0
      /\ \A p \in Parsed(ch) : At(ch, p).seq < NextSeq(ch)
  BY NextSeqIsFresh DEF Whole
<1>5. DiskOK(ch2) /\ LinesOn(ch2) \subseteq S
  <2>1. Len(ch2) >= 1
    BY <1>1, <1>2
  <2> QED BY <1>2, <2>1, DiskOKAfter DEF Whole
<1>6. SeqsOK(ch2) /\ \A p \in Parsed(ch2) : At(ch2, p).seq <= B
  <2>1. PICK z : OneMore(ch, ch2, z, l.rec)
    BY <1>2
  <2>2. SeqsOK(ch2)
    BY <1>3, <2>1, SeqsAfterOneMore DEF Whole
  <2> QED BY <2>1, <2>2 DEF OneMore, Whole
<1>7. SealsOK(ch2)
  <2>1. ch2[Len(ch) + 1] = <<l>>
    BY <1>2
  <2>2. SealsOK(ch)
    BY DEF Whole
  <2> HIDE DEF S
  <2> QED BY <1>1, <1>2, <2>1, <2>2, SealsAfterPublication
<1>8. Parses(ch2)
  <2>1. DOMAIN ch = 1 .. Len(ch) /\ DOMAIN ch2 = 1 .. Len(ch) + 1
    <3> HIDE DEF S
    <3> QED BY <1>1, <1>2, LenProperties
  <2> SUFFICES ASSUME NEW i \in 1 .. Len(ch) + 1, NEW j \in DOMAIN ch2[i],
                      ch2[i][j].rec.type = "garbage"
               PROVE  j = Len(ch2[i])
    BY <2>1 DEF Parses
  <2>2. CASE i \in 1 .. Len(ch)
    <3>1. ch2[i] = ch[i]
      BY <1>2, <2>2
    <3> QED BY <2>1, <2>2, <3>1 DEF Parses, Whole
  <2>3. CASE i = Len(ch) + 1
    <3>1. ch2[i] = <<l>>
      BY <1>2, <2>3
    <3>2. j = 1 /\ ch2[i][j] = l
      BY <3>1
    <3> QED BY <3>2
  <2> QED BY <1>1, <2>2, <2>3
<1> QED BY <1>5, <1>6, <1>7, <1>8 DEF Whole

\* The two ways a write can land.
LEMMA WhereAWriteLands ==
    ASSUME NEW ch, DiskOK(ch), ~ TornTail(ch[Len(ch)]), NEW l, LineOK(l),
           NEW ch2, ch2 = [ch EXCEPT ![Len(ch)] = Written(@, l)]
    PROVE  \/ Appended(LinesOn(ch) \cup {l}, ch, ch2, l)
           \/ /\ ch[Len(ch)] # <<>>
              /\ ~ LastLine(ch[Len(ch)]).eol
              /\ LineOK(Line(Garbage, l.eol))
              /\ Line(Garbage, l.eol).rec.type = "garbage"
              /\ Spliced(LinesOn(ch) \cup {Line(Garbage, l.eol)}, ch, ch2,
                         Line(Garbage, l.eol))
<1> DEFINE k == Line(Garbage, l.eol)
           S == LinesOn(ch) \cup {l}
           T == LinesOn(ch) \cup {k}
<1>1. ch \in Seq(Seq(LinesOn(ch))) /\ Len(ch) >= 1
  BY DEF DiskOK
<1>2. ch \in Seq(Seq(S)) /\ ch \in Seq(Seq(T))
  <2>1. Seq(LinesOn(ch)) \subseteq Seq(S) /\ Seq(LinesOn(ch)) \subseteq Seq(T)
    BY SeqMonotonic
  <2> HIDE DEF S, T
  <2>2. Seq(Seq(LinesOn(ch))) \subseteq Seq(Seq(S))
    BY <2>1, SeqMonotonic
  <2>3. Seq(Seq(LinesOn(ch))) \subseteq Seq(Seq(T))
    BY <2>1, SeqMonotonic
  <2> QED BY <1>1, <2>2, <2>3
<1>3. CASE ch[Len(ch)] # <<>> /\ ~ LastLine(ch[Len(ch)]).eol
  <2>1. Written(ch[Len(ch)], l) = [ch[Len(ch)] EXCEPT ![Len(ch[Len(ch)])] = k]
    BY <1>3 DEF Written
  <2>2. ch2 = [ch EXCEPT ![Len(ch)] = [@ EXCEPT ![Len(ch[Len(ch)])] = k]]
    BY <2>1
  <2>3. LineOK(k) /\ k.rec.type = "garbage" /\ k \in T
    BY DEF LineOK, Line, Garbage, RecordOK
  <2> HIDE DEF T, k
  <2>4. Spliced(T, ch, ch2, k)
    BY <1>1, <1>2, <1>3, <2>2, <2>3, LineSpliced DEF Overwritten
  <2> QED BY <1>3, <2>3, <2>4 DEF k, T
<1>4. CASE ~ (ch[Len(ch)] # <<>> /\ ~ LastLine(ch[Len(ch)]).eol)
  <2>1. Written(ch[Len(ch)], l) = Append(ch[Len(ch)], l)
    BY <1>4 DEF Written
  <2>2. ch2 = [ch EXCEPT ![Len(ch)] = Append(@, l)] /\ l \in S
    BY <2>1
  <2> HIDE DEF S
  <2>3. Appended(S, ch, ch2, l)
    BY <1>1, <1>2, <2>2, LineAppended
  <2> QED BY <2>3 DEF S
<1> QED BY <1>3, <1>4

\* Whichever way a write lands, the chain stays whole.
LEMMA WholeAfterWrite ==
    ASSUME NEW B \in Nat, NEW ch, Whole(B, ch), ~ TornTail(ch[Len(ch)]),
           NEW l, LineOK(l), l.rec.type # "segment_open",
           l.rec.type # "garbage" => l.rec.seq = NextSeq(ch),
           NextSeq(ch) <= B,
           NEW ch2, ch2 = [ch EXCEPT ![Len(ch)] = Written(@, l)]
    PROVE  Whole(B, ch2)
<1>1. DiskOK(ch)
  BY DEF Whole
<1>2. CASE Appended(LinesOn(ch) \cup {l}, ch, ch2, l)
  BY <1>2, WholeAfterAppend
<1>3. CASE ~ Appended(LinesOn(ch) \cup {l}, ch, ch2, l)
  <2> DEFINE k == Line(Garbage, l.eol)
  <2>1. /\ ch[Len(ch)] # <<>> /\ ~ LastLine(ch[Len(ch)]).eol
        /\ LineOK(k) /\ k.rec.type = "garbage"
        /\ Spliced(LinesOn(ch) \cup {k}, ch, ch2, k)
    BY <1>1, <1>3, WhereAWriteLands
  <2> HIDE DEF k
  <2> QED BY <2>1, WholeAfterSplice
<1> QED BY <1>2, <1>3

\* A record makes a well-formed line, ended or not.
LEMMA LineOfRecord ==
    ASSUME NEW r, RecordOK(r), NEW e \in BOOLEAN
    PROVE  LineOK(Line(r, e)) /\ Line(r, e).rec = r /\ Line(r, e).eol = e
<1>1. Line(r, e).rec = r /\ Line(r, e).eol = e
  BY DEF Line
<1> QED BY <1>1 DEF LineOK

\* _commit makes a well-formed record out of a draft.
LEMMA StampedIsARecord ==
    ASSUME NEW d \in Drafts, NEW n \in Nat
    PROVE  /\ RecordOK(Stamped(d, n))
           /\ Stamped(d, n).type = d.type
           /\ d.type \in {"work", "redo"}
           /\ Stamped(d, n).seq = n
           /\ Stamped(d, n).prompt = d.prompt
           /\ d.prompt \in Prompts
           /\ d.type = "redo" => Stamped(d, n).supersedes = d.supersedes
<1>1. CASE d \in [type : {"work"}, prompt : Prompts]
  <2>1. Stamped(d, n) = [type |-> "work", seq |-> n, prompt |-> d.prompt]
    BY <1>1 DEF Stamped
  <2> QED BY <1>1, <2>1 DEF RecordOK
<1>2. CASE d \in [type : {"redo"}, prompt : Prompts, supersedes : Nat]
  <2>1. Stamped(d, n) = [type |-> "redo", seq |-> n, prompt |-> d.prompt,
                         supersedes |-> d.supersedes]
    BY <1>2 DEF Stamped
  <2> QED BY <1>2, <2>1 DEF RecordOK
<1> QED BY <1>1, <1>2 DEF Drafts

\* What is in effect is work of some prompt, with a seq.
LEMMA ActiveIsWork ==
    ASSUME NEW ch, DiskOK(ch), NEW r \in Active(ch)
    PROVE  /\ r \in [type : {"work"}, seq : Nat, prompt : Prompts]
           /\ \E p \in ActivePos(ch) : At(ch, p) = r
<1>1. PICK p \in ActivePos(ch) : At(ch, p) = r
  BY DEF Active
<1>2. p \in Parsed(ch) /\ r.type = "work"
  BY <1>1 DEF ActivePos
<1>3. RecordOK(r)
  BY <1>1, <1>2, RecordOfPosition
<1> QED BY <1>1, <1>2, <1>3 DEF RecordOK, Garbage, Header

-----------------------------------------------------------------------------
(* Sound chains: every record has its newline, so no write lands on one.   *)

AllEnded(ch) == \A l \in LinesOn(ch) : l.rec.type # "garbage" => l.eol

\* An ended line appended to ended lines leaves them all ended.
LEMMA EndedAfterAppend ==
    ASSUME NEW ch, DiskOK(ch), AllEnded(ch),
           NEW l, LineOK(l), l.rec.type # "garbage" => l.eol,
           NEW ch2, Appended(LinesOn(ch) \cup {l}, ch, ch2, l)
    PROVE  AllEnded(ch2)
<1>1. ch2 \in Seq(Seq(LinesOn(ch) \cup {l}))
  BY DEF Appended
<1>2. LinesOn(ch2) \subseteq LinesOn(ch) \cup {l}
  BY <1>1, ChainShape
<1> QED BY <1>2 DEF AllEnded

\* With every record ended, a write adds a line and never splices.
LEMMA WriteAppends ==
    ASSUME NEW ch, DiskOK(ch), AllEnded(ch), ~ TornTail(ch[Len(ch)]),
           NEW l, LineOK(l), l.rec.type # "garbage" => l.eol,
           NEW ch2, ch2 = [ch EXCEPT ![Len(ch)] = Written(@, l)]
    PROVE  Appended(LinesOn(ch) \cup {l}, ch, ch2, l) /\ AllEnded(ch2)
<1>1. ASSUME ch[Len(ch)] # <<>> PROVE LastLine(ch[Len(ch)]).eol
  <2>1. ch[Len(ch)] \in Seq(LinesOn(ch)) /\ Len(ch) \in 1 .. Len(ch)
    BY ShapeByLine
  <2>2. Len(ch[Len(ch)]) \in 1 .. Len(ch[Len(ch)])
    BY <1>1, <2>1, EmptySeq, LenProperties
  <2>3. LastLine(ch[Len(ch)]) \in LinesOn(ch)
    BY <2>1, <2>2, ElementOfSeq DEF LastLine
  <2> QED BY <1>1, <2>3 DEF TornTail, AllEnded
<1>2. Appended(LinesOn(ch) \cup {l}, ch, ch2, l)
  BY <1>1, WhereAWriteLands
<1> QED BY <1>2, EndedAfterAppend

\* A prompt is processed when a record of it is in effect.
LEMMA ProcessedAt ==
    ASSUME NEW ch, NEW p
    PROVE  p \in ProcessedIds(ch) <=> \E x \in ActivePos(ch) : At(ch, x).prompt = p
BY DEF ProcessedIds, Active

\* What a ledger whose crashes leave only fragments always is, up to seq B.
Sound(B, ch) == Whole(B, ch) /\ AllEnded(ch) /\ ControlsOK(ch)

\* A sound ledger reads back, and its next seq is fresh.
LEMMA SoundReads ==
    ASSUME NEW B \in Nat, NEW ch, Sound(B, ch)
    PROVE  /\ Verified(ch)
           /\ DiskOK(ch) /\ SeqsOK(ch) /\ ControlsOK(ch)
           /\ Len(ch) \in Nat \ {0}
           /\ NextSeq(ch) \in Nat /\ NextSeq(ch) > 0
           /\ \A p \in Parsed(ch) : At(ch, p).seq < NextSeq(ch)
<1>1. /\ DiskOK(ch) /\ SeqsOK(ch) /\ ControlsOK(ch) /\ Parses(ch) /\ SealsOK(ch)
      /\ \A p \in Parsed(ch) : At(ch, p).seq <= B
  BY DEF Sound, Whole
<1>2. Len(ch) \in Nat \ {0}
  BY <1>1, ShapeByLine
<1> QED BY <1>1, <1>2, NextSeqIsFresh DEF Verified

\* The empty ledger is sound, and nothing is in effect.
LEMMA EmptyIsSound ==
    ASSUME NEW B \in Nat, NEW ch, ch = << <<>> >>
    PROVE  /\ Sound(B, ch) /\ Len(ch) = 1
           /\ Parsed(ch) = {} /\ ActivePos(ch) = {} /\ Active(ch) = {}
<1>1. Len(ch) = 1 /\ ch[1] = <<>>
  OBVIOUS
<1>2. LinesOn(ch) = {} /\ Parsed(ch) = {}
  BY <1>1 DEF LinesOn, Parsed
<1>3. DiskOK(ch)
  BY <1>1, <1>2 DEF DiskOK
<1>4. Parses(ch) /\ SealsOK(ch) /\ SeqsOK(ch)
  BY <1>1, <1>2 DEF Parses, SealsOK, SeqsOK, Headers
<1>5. ActivePos(ch) = {} /\ Active(ch) = {}
  BY <1>2 DEF ActivePos, Active
<1> QED BY <1>1, <1>2, <1>3, <1>4, <1>5 DEF Sound, Whole, AllEnded, ControlsOK

\* ch2 is what _write_line(r) leaves of ch when it returns.
Wrote(ch, ch2, r) == ch2 = [ch EXCEPT ![Len(ch)] = Written(@, Line(r, TRUE))]

\* A whole record adds its position to those that parse.
LEMMA SoundWrite ==
    ASSUME NEW B \in Nat, NEW ch, Sound(B, ch), ~ TornTail(ActiveSegment(ch)),
           NextSeq(ch) <= B, NEW d \in Drafts,
           NEW ch2, Wrote(ch, ch2, Stamped(d, NextSeq(ch)))
    PROVE  /\ Whole(B, ch2) /\ AllEnded(ch2)
           /\ Len(ch2) = Len(ch)
           /\ \E z : OneMore(ch, ch2, z, Stamped(d, NextSeq(ch)))
<1> DEFINE r == Stamped(d, NextSeq(ch))
           l == Line(r, TRUE)
<1>0. NextSeq(ch) \in Nat /\ Whole(B, ch) /\ AllEnded(ch) /\ DiskOK(ch)
  BY SoundReads DEF Sound
<1>1. /\ ~ TornTail(ch[Len(ch)])
      /\ ch2 = [ch EXCEPT ![Len(ch)] = Written(@, l)]
  BY DEF Wrote, ActiveSegment
<1>2. /\ RecordOK(r) /\ r.type # "segment_open" /\ r.type # "garbage"
      /\ r.seq = NextSeq(ch)
  BY <1>0, StampedIsARecord
<1> HIDE DEF r
<1>3. LineOK(l) /\ l.rec = r /\ l.eol
  BY <1>2, LineOfRecord
<1> HIDE DEF l
<1>4. Appended(LinesOn(ch) \cup {l}, ch, ch2, l) /\ AllEnded(ch2)
  BY <1>0, <1>1, <1>3, WriteAppends
<1>5. Whole(B, ch2)
  BY <1>0, <1>1, <1>2, <1>3, WholeAfterWrite
<1>6. Len(ch2) = Len(ch) /\ \E z : OneMore(ch, ch2, z, r)
  BY <1>2, <1>3, <1>4 DEF Appended
<1> QED BY <1>4, <1>5, <1>6 DEF r

\* A work record comes into effect, at a position of its own.
LEMMA SoundWork ==
    ASSUME NEW B \in Nat, NEW ch, Sound(B, ch), ~ TornTail(ActiveSegment(ch)),
           NextSeq(ch) <= B, NEW d \in Drafts, d.type = "work",
           NEW ch2, Wrote(ch, ch2, Stamped(d, NextSeq(ch)))
    PROVE  /\ Sound(B, ch2) /\ Len(ch2) = Len(ch)
           /\ \E z : /\ z \notin ActivePos(ch)
                     /\ ActivePos(ch2) = ActivePos(ch) \cup {z}
                     /\ At(ch2, z) = Stamped(d, NextSeq(ch))
                     /\ \A p \in ActivePos(ch) : At(ch2, p) = At(ch, p)
                     /\ OneMore(ch, ch2, z, Stamped(d, NextSeq(ch)))
<1> DEFINE r == Stamped(d, NextSeq(ch))
<1>0. /\ NextSeq(ch) \in Nat /\ DiskOK(ch) /\ ControlsOK(ch)
      /\ \A p \in Parsed(ch) : At(ch, p).seq < NextSeq(ch)
  BY SoundReads
<1>1. r.type = "work" /\ r.seq = NextSeq(ch)
  BY <1>0, StampedIsARecord
<1>2. /\ Whole(B, ch2) /\ AllEnded(ch2) /\ Len(ch2) = Len(ch)
      /\ \E z : OneMore(ch, ch2, z, r)
  BY SoundWrite
<1> HIDE DEF r
<1>3. PICK z : OneMore(ch, ch2, z, r)
  BY <1>2
<1>4. /\ ActivePos(ch2) = ActivePos(ch) \cup {z} /\ z \notin ActivePos(ch)
      /\ At(ch2, z) = r
      /\ \A p \in ActivePos(ch) : At(ch2, p) = At(ch, p)
      /\ ControlsOK(ch2)
  BY <1>0, <1>1, <1>3, WorkInEffect
<1> QED BY <1>2, <1>3, <1>4 DEF Sound, r

\* A tombstone over a record in effect takes that record, and no other, out.
LEMMA SoundRedo ==
    ASSUME NEW B \in Nat, NEW ch, Sound(B, ch), ~ TornTail(ActiveSegment(ch)),
           NextSeq(ch) <= B, NEW d \in Drafts, d.type = "redo",
           NEW t \in ActivePos(ch),
           At(ch, t).seq = d.supersedes, At(ch, t).prompt = d.prompt,
           NEW ch2, Wrote(ch, ch2, Stamped(d, NextSeq(ch)))
    PROVE  /\ Sound(B, ch2) /\ Len(ch2) = Len(ch)
           /\ ActivePos(ch2) = ActivePos(ch) \ {t}
           /\ \A p \in ActivePos(ch) : At(ch2, p) = At(ch, p)
           /\ \E z : OneMore(ch, ch2, z, Stamped(d, NextSeq(ch)))
<1> DEFINE r == Stamped(d, NextSeq(ch))
<1>0. NextSeq(ch) \in Nat /\ DiskOK(ch) /\ ControlsOK(ch) /\ SeqsOK(ch)
  BY SoundReads
<1>1. /\ r.type = "redo" /\ r.seq = NextSeq(ch)
      /\ r.supersedes = d.supersedes /\ r.prompt = d.prompt
  BY <1>0, StampedIsARecord
<1>2. /\ Whole(B, ch2) /\ AllEnded(ch2) /\ Len(ch2) = Len(ch)
      /\ \E z : OneMore(ch, ch2, z, r)
  BY SoundWrite
<1> HIDE DEF r
<1>3. PICK z : OneMore(ch, ch2, z, r)
  BY <1>2
<1>4. /\ ActivePos(ch2) = ActivePos(ch) \ {t}
      /\ \A p \in ActivePos(ch) : At(ch2, p) = At(ch, p)
      /\ ControlsOK(ch2)
  BY <1>0, <1>1, <1>3, RedoInEffect
<1> QED BY <1>2, <1>4 DEF Sound, r

\* A fragment changes nothing that parses.
LEMMA SoundFragment ==
    ASSUME NEW B \in Nat, NEW ch, Sound(B, ch), ~ TornTail(ActiveSegment(ch)),
           NextSeq(ch) <= B,
           NEW ch2, ch2 = [ch EXCEPT ![Len(ch)] = Written(@, Line(Garbage, FALSE))]
    PROVE  Sound(B, ch2) /\ SameRecords(ch, ch2)
<1> DEFINE l == Line(Garbage, FALSE)
<1>0. Whole(B, ch) /\ AllEnded(ch) /\ ControlsOK(ch) /\ DiskOK(ch)
  BY SoundReads DEF Sound
<1>1. /\ ~ TornTail(ch[Len(ch)])
      /\ ch2 = [ch EXCEPT ![Len(ch)] = Written(@, l)]
  BY DEF ActiveSegment
<1>2. LineOK(l) /\ l.rec.type = "garbage"
  BY DEF LineOK, Line, Garbage, RecordOK
<1> HIDE DEF l
<1>3. Appended(LinesOn(ch) \cup {l}, ch, ch2, l) /\ AllEnded(ch2)
  BY <1>0, <1>1, <1>2, WriteAppends
<1>4. Whole(B, ch2)
  BY <1>0, <1>1, <1>2, WholeAfterWrite
<1>5. SameRecords(ch, ch2)
  BY <1>2, <1>3 DEF Appended
<1> QED BY <1>0, <1>3, <1>4, <1>5, SameInEffect DEF Sound

\* ch2 is what _seal_and_rotate makes of ch.
Rotated(ch, ch2) ==
    ch2 = Append(ch, << Line(Header(Len(ch), ActiveSegment(ch), NextSeq(ch)), TRUE) >>)

\* A rotation opens a segment that is not torn, and changes nothing in effect.
LEMMA SoundRotation ==
    ASSUME NEW B \in Nat, NEW ch, Sound(B, ch), NextSeq(ch) <= B,
           NEW ch2, Rotated(ch, ch2)
    PROVE  /\ Sound(B, ch2) /\ Len(ch2) = Len(ch) + 1
           /\ ~ TornTail(ActiveSegment(ch2))
           /\ ActivePos(ch2) = ActivePos(ch)
           /\ \A p \in ActivePos(ch) : At(ch2, p) = At(ch, p)
           /\ \E z, r : r.type = "segment_open" /\ OneMore(ch, ch2, z, r)
<1> DEFINE l == Line(Header(Len(ch), ActiveSegment(ch), NextSeq(ch)), TRUE)
           S == LinesOn(ch) \cup {l}
<1>0. /\ Whole(B, ch) /\ AllEnded(ch) /\ ControlsOK(ch) /\ DiskOK(ch)
      /\ NextSeq(ch) \in Nat
  BY SoundReads DEF Sound
<1>1. ch2 = Append(ch, <<l>>)
  BY DEF Rotated
<1>2. ch \in Seq(Seq(LinesOn(ch))) /\ Len(ch) \in Nat /\ Len(ch) >= 1
  BY <1>0, LenProperties DEF DiskOK
<1>3. ch \in Seq(Seq(S))
  <2>1. Seq(LinesOn(ch)) \subseteq Seq(S)
    BY SeqMonotonic
  <2> HIDE DEF S
  <2>2. Seq(Seq(LinesOn(ch))) \subseteq Seq(Seq(S))
    BY <2>1, SeqMonotonic
  <2> QED BY <1>2, <2>2
<1>4. /\ LineOK(l) /\ l.eol /\ l.rec.type = "segment_open"
      /\ l.rec.segment = Len(ch) /\ l.rec.prev = ch[Len(ch)]
      /\ l.rec.seq = NextSeq(ch) /\ l \in S
  BY <1>0, <1>2 DEF LineOK, Line, Header, RecordOK, ActiveSegment
<1> HIDE DEF l
<1>5. Published(S, ch, ch2, l)
  <2> HIDE DEF S
  <2> QED BY <1>1, <1>2, <1>3, <1>4, SegmentPublished
<1>6. Whole(B, ch2)
  BY <1>0, <1>4, <1>5, WholeAfterPublication
<1>7. /\ ch2 \in Seq(Seq(S)) /\ Len(ch2) = Len(ch) + 1
      /\ ch2[Len(ch) + 1] = <<l>>
      /\ OneMore(ch, ch2, <<Len(ch) + 1, 1>>, l.rec)
  BY <1>5 DEF Published
<1>8. AllEnded(ch2)
  <2>1. Len(ch2) >= 1 /\ ch2 \in Seq(Seq(LinesOn(ch) \cup {l}))
    BY <1>2, <1>7
  <2>2. LinesOn(ch2) \subseteq S
    BY <1>0, <1>4, <2>1, DiskOKAfter
  <2> QED BY <1>0, <1>4, <2>2 DEF AllEnded
<1>9. /\ ActivePos(ch2) = ActivePos(ch)
      /\ \A p \in ActivePos(ch) : At(ch2, p) = At(ch, p)
      /\ ControlsOK(ch2)
  BY <1>0, <1>4, <1>7, HeaderInEffect
<1>10. ~ TornTail(ActiveSegment(ch2))
  <2>1. ActiveSegment(ch2) = <<l>>
    BY <1>7 DEF ActiveSegment
  <2>2. LastLine(<<l>>) = l
    BY DEF LastLine
  <2> QED BY <1>4, <2>1, <2>2 DEF TornTail
<1> QED BY <1>4, <1>6, <1>7, <1>8, <1>9, <1>10 DEF Sound

-----------------------------------------------------------------------------
(* The entries of WorkLog a ledger stands for.                             *)

EntryOf(r) == [prompt |-> r.prompt, seq |-> r.seq]

EntriesOf(ch) == {EntryOf(r) : r \in Active(ch)}

\* The entries with fewer than n later ones.
LatestOf(S, n) == {e \in S : Cardinality({d \in S : d.seq > e.seq}) < n}

\* An entry, by the position of its record.
LEMMA EntryAt ==
    ASSUME NEW ch, NEW e
    PROVE  e \in EntriesOf(ch) <=> \E p \in ActivePos(ch) : e = EntryOf(At(ch, p))
BY DEF EntriesOf, Active

\* A record in effect is known by its entry.
LEMMA EntryNamesRecord ==
    ASSUME NEW ch, DiskOK(ch)
    PROVE  /\ \A r, s \in Active(ch) : EntryOf(r) = EntryOf(s) => r = s
           /\ \A r \in Active(ch) : EntryOf(r) \in [prompt : Prompts, seq : Nat]
<1>1. \A r \in Active(ch) : r \in [type : {"work"}, seq : Nat, prompt : Prompts]
  BY ActiveIsWork
<1> QED BY <1>1 DEF EntryOf

\* An entry's seq is one of the seqs below the bound.
LEMMA EntriesTyped ==
    ASSUME NEW B \in Nat, NEW ch, Sound(B, ch)
    PROVE  EntriesOf(ch) \subseteq [prompt : Prompts, seq : 1 .. B]
<1> SUFFICES ASSUME NEW e \in EntriesOf(ch) PROVE e \in [prompt : Prompts, seq : 1 .. B]
  OBVIOUS
<1>1. DiskOK(ch) /\ SeqsOK(ch) /\ \A p \in Parsed(ch) : At(ch, p).seq <= B
  BY DEF Sound, Whole
<1>2. PICK p \in ActivePos(ch) : e = EntryOf(At(ch, p))
  BY EntryAt
<1>3. p \in Parsed(ch) /\ At(ch, p) \in Active(ch)
  BY DEF ActivePos, Active
<1>4. At(ch, p) \in [type : {"work"}, seq : Nat, prompt : Prompts]
  BY <1>1, <1>3, ActiveIsWork
<1>5. At(ch, p).seq \in 1 .. B
  BY <1>1, <1>3, <1>4 DEF SeqsOK
<1> QED BY <1>2, <1>4, <1>5 DEF EntryOf

\* Every parsed record has a seq of its own, so there are at most B of them.
LEMMA ParsedFinite ==
    ASSUME NEW B \in Nat, NEW ch, Sound(B, ch)
    PROVE  IsFiniteSet(Parsed(ch)) /\ IsFiniteSet(EntriesOf(ch))
<1>1. DiskOK(ch) /\ SeqsOK(ch) /\ \A p \in Parsed(ch) : At(ch, p).seq <= B
  BY DEF Sound, Whole
<1>2. IsFiniteSet(1 .. B)
  BY FS_Interval
<1>3. IsFiniteSet(Parsed(ch))
  <2> DEFINE f == [p \in Parsed(ch) |-> At(ch, p).seq]
  <2>1. \A p \in Parsed(ch) : At(ch, p).seq \in 1 .. B
    BY <1>1, RecordOfPosition DEF SeqsOK
  <2>2. \A p, q \in Parsed(ch) : f[p] = f[q] => p = q
    BY <1>1, SeqNamesPosition
  <2>3. f \in Injection(Parsed(ch), 1 .. B)
    BY <2>1, <2>2 DEF Injection, IsInjective
  <2> QED BY <1>2, <2>3, FS_Injection
<1>4. IsFiniteSet(EntriesOf(ch))
  <2> DEFINE g == [e \in EntriesOf(ch) |-> e.seq]
  <2>1. \A e \in EntriesOf(ch) : e.seq \in 1 .. B
    BY EntriesTyped
  <2>2. ASSUME NEW e \in EntriesOf(ch), NEW d \in EntriesOf(ch), e.seq = d.seq
        PROVE  e = d
    <3>1. PICK p \in ActivePos(ch) : e = EntryOf(At(ch, p))
      BY EntryAt
    <3>2. PICK q \in ActivePos(ch) : d = EntryOf(At(ch, q))
      BY EntryAt
    <3>3. At(ch, p).seq = At(ch, q).seq /\ p \in Parsed(ch) /\ q \in Parsed(ch)
      BY <2>2, <3>1, <3>2 DEF EntryOf, ActivePos
    <3> QED BY <1>1, <3>1, <3>2, <3>3, SeqNamesPosition
  <2>3. g \in Injection(EntriesOf(ch), 1 .. B)
    BY <2>1, <2>2 DEF Injection, IsInjective
  <2> QED BY <1>2, <2>3, FS_Injection
<1> QED BY <1>3, <1>4

\* redo_last's targets are the latest entries.
LEMMA LastActiveIsLatest ==
    ASSUME NEW B \in Nat, NEW ch, Sound(B, ch), NEW n \in Nat
    PROVE  {EntryOf(r) : r \in LastActive(ch, n)} = LatestOf(EntriesOf(ch), n)
<1> DEFINE E == EntriesOf(ch)
           later(r) == {s \in Active(ch) : s.seq > r.seq}
           laterE(e) == {d \in E : d.seq > e.seq}
<1>1. DiskOK(ch) /\ IsFiniteSet(E)
  BY ParsedFinite, SoundReads
<1>2. ASSUME NEW r \in Active(ch)
      PROVE  Cardinality(later(r)) = Cardinality(laterE(EntryOf(r)))
  <2> DEFINE f == [s \in later(r) |-> EntryOf(s)]
             T == laterE(EntryOf(r))
  <2>1. \A s \in later(r) : EntryOf(s) \in T
    BY DEF EntriesOf, EntryOf
  <2>2. \A d \in T : \E s \in later(r) : EntryOf(s) = d
    BY DEF EntriesOf, EntryOf
  <2>3. \A s, u \in later(r) : EntryOf(s) = EntryOf(u) => s = u
    BY <1>1, EntryNamesRecord
  <2>4. IsFiniteSet(T)
    BY <1>1, FS_Subset
  <2> HIDE DEF T, later
  <2>5. f \in Injection(later(r), T)
    BY <2>1, <2>3 DEF Injection, IsInjective
  <2>6. f \in Surjection(later(r), T)
    BY <2>1, <2>2 DEF Surjection
  <2>7. Cardinality(later(r)) = Cardinality(T)
    BY <2>4, <2>5, <2>6, FS_Injection
  <2> QED BY <2>7 DEF T
<1>3. LastActive(ch, n) = {r \in Active(ch) : Cardinality(later(r)) < n}
  BY DEF LastActive
<1>4. LatestOf(E, n) = {e \in E : Cardinality(laterE(e)) < n}
  BY DEF LatestOf
<1> HIDE DEF later, laterE
<1>5. ASSUME NEW r \in LastActive(ch, n) PROVE EntryOf(r) \in LatestOf(E, n)
  <2>1. r \in Active(ch) /\ Cardinality(later(r)) < n
    BY <1>3
  <2>2. EntryOf(r) \in E
    BY <2>1 DEF EntriesOf
  <2> QED BY <1>2, <1>4, <2>1, <2>2
<1>6. ASSUME NEW e \in LatestOf(E, n) PROVE \E r \in LastActive(ch, n) : e = EntryOf(r)
  <2>1. e \in E /\ Cardinality(laterE(e)) < n
    BY <1>4
  <2>2. PICK r \in Active(ch) : e = EntryOf(r)
    BY <2>1 DEF EntriesOf
  <2>3. Cardinality(later(r)) < n
    BY <1>2, <2>1, <2>2
  <2> QED BY <1>3, <2>2, <2>3
<1> QED BY <1>5, <1>6

\* Asking for more entries than there are is asking for all of them.
LEMMA LatestCapped ==
    ASSUME NEW S \in SUBSET [prompt : Prompts, seq : Nat], IsFiniteSet(S), S # {},
           NEW n \in Nat \ {0}
    PROVE  \E k \in 1 .. Cardinality(S) : LatestOf(S, n) = LatestOf(S, k)
<1> DEFINE c == Cardinality(S)
<1>1. c \in Nat /\ c # 0
  BY FS_CardinalityType, FS_EmptySet
<1>2. ASSUME NEW e \in S PROVE Cardinality({d \in S : d.seq > e.seq}) < c
  <2> DEFINE T == {d \in S : d.seq > e.seq}
  <2>1. T \subseteq S \ {e}
    BY <1>2
  <2>2. IsFiniteSet(S \ {e}) /\ Cardinality(S \ {e}) = c - 1
    BY <1>2, FS_RemoveElement
  <2>3. IsFiniteSet(T) /\ Cardinality(T) <= c - 1 /\ Cardinality(T) \in Nat
    BY <2>1, <2>2, FS_Subset, FS_CardinalityType
  <2> QED BY <1>1, <2>3
<1> HIDE DEF c
<1>3. CASE n <= c
  <2>1. n \in 1 .. c
    BY <1>1, <1>3
  <2> QED BY <2>1 DEF c
<1>4. CASE ~ (n <= c)
  <2>1. \A e \in S : Cardinality({d \in S : d.seq > e.seq}) \in Nat
    <3> SUFFICES ASSUME NEW e \in S
                 PROVE  Cardinality({d \in S : d.seq > e.seq}) \in Nat
      OBVIOUS
    <3>1. IsFiniteSet({d \in S : d.seq > e.seq})
      BY FS_Subset
    <3> QED BY <3>1, FS_CardinalityType
  <2>2. \A e \in S : /\ Cardinality({d \in S : d.seq > e.seq}) < n
                     /\ Cardinality({d \in S : d.seq > e.seq}) < c
    BY <1>1, <1>2, <1>4, <2>1
  <2>3. LatestOf(S, n) = LatestOf(S, c)
    BY <2>2 DEF LatestOf
  <2>4. c \in 1 .. c
    BY <1>1
  <2> QED BY <2>3, <2>4 DEF c
<1> QED BY <1>3, <1>4

\* A work record written to a sound ledger records one entry.
LEMMA EntriesAfterWork ==
    ASSUME NEW ch, NEW ch2, NEW z, NEW r,
           ActivePos(ch2) = ActivePos(ch) \cup {z}, At(ch2, z) = r,
           \A p \in ActivePos(ch) : At(ch2, p) = At(ch, p)
    PROVE  EntriesOf(ch2) = EntriesOf(ch) \cup {EntryOf(r)}
<1>1. \A e : e \in EntriesOf(ch2) <=> e \in EntriesOf(ch) \/ e = EntryOf(r)
  BY EntryAt
<1> QED BY <1>1

\* A tombstone takes out the entry of its target.
LEMMA EntriesAfterRedo ==
    ASSUME NEW ch, DiskOK(ch), SeqsOK(ch), NEW ch2, NEW t \in ActivePos(ch),
           ActivePos(ch2) = ActivePos(ch) \ {t},
           \A p \in ActivePos(ch) : At(ch2, p) = At(ch, p)
    PROVE  EntriesOf(ch2) = EntriesOf(ch) \ {EntryOf(At(ch, t))}
<1>1. ASSUME NEW p \in ActivePos(ch), EntryOf(At(ch, p)) = EntryOf(At(ch, t))
      PROVE  p = t
  <2>1. At(ch, p).seq = At(ch, t).seq /\ p \in Parsed(ch) /\ t \in Parsed(ch)
    BY <1>1 DEF EntryOf, ActivePos
  <2> QED BY <2>1, SeqNamesPosition
<1>2. \A e : e \in EntriesOf(ch2) <=> e \in EntriesOf(ch) /\ e # EntryOf(At(ch, t))
  BY <1>1, EntryAt
<1> QED BY <1>2

\* What is in effect is what the entries say.
LEMMA EntriesSame ==
    ASSUME NEW ch, NEW ch2, ActivePos(ch2) = ActivePos(ch),
           \A p \in ActivePos(ch) : At(ch2, p) = At(ch, p)
    PROVE  /\ EntriesOf(ch2) = EntriesOf(ch)
           /\ Active(ch2) = Active(ch)
           /\ ProcessedIds(ch2) = ProcessedIds(ch)
<1>1. Active(ch2) = Active(ch)
  BY DEF Active
<1> QED BY <1>1 DEF EntriesOf, ProcessedIds
=============================================================================
