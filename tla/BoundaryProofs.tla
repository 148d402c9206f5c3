--------------------------- MODULE BoundaryProofs ---------------------------
(***************************************************************************)
(* For every record, text, packet, log line, reason and snapshot of the Go *)
(* types: a handler is given the record itself, its headers fit the block  *)
(* they are written into, an error text is cut at a rune and loses nothing *)
(* that would fit, and the host is given every notice as it was sent.      *)
(*                                                                         *)
(* The state machine has little to say here: CrossingInv and NoticeInv     *)
(* only keep what was marshalled beside what it was marshalled from.  The  *)
(* argument is in the loops, and goes by induction over them: the walk     *)
(* back to the start of a rune ends at the last boundary that fits, a      *)
(* flattened sequence holds each part where the cursor stood when it was   *)
(* written, and the loop that sizes a block adds up to the same cursor.    *)
(***************************************************************************)
EXTENDS Notices, WellFoundedInduction, TLAPS

-----------------------------------------------------------------------------
(***************************************************************************)
(* Induction.  A set of naturals with 0 and the successor of each of its   *)
(* elements is Nat: the smallest natural outside it would have a           *)
(* predecessor inside.                                                     *)
(***************************************************************************)
LEMMA SmallestOf ==
  ASSUME NEW T, T \subseteq Nat, T # {}
  PROVE  \E x \in T : \A y \in T : x <= y
<1> DEFINE R == OpToRel(<, Nat)
<1>1. IsWellFoundedOn(R, Nat)
  BY NatLessThanWellFounded
<1>2. \A i, j \in Nat : i < j => <<i, j>> \in R
  BY DEF OpToRel
<1> HIDE DEF R
<1>3. PICK x \in T : \A y \in T : ~(<<y, x>> \in R)
  BY <1>1, WFMin
<1>4. \A y \in T : ~(y < x) /\ y \in Nat /\ x \in Nat
  BY <1>2, <1>3
<1> QED  BY <1>3, <1>4

LEMMA Induction ==
  ASSUME NEW S, S \subseteq Nat, 0 \in S, \A n \in S : n + 1 \in S
  PROVE  \A n \in Nat : n \in S
<1> SUFFICES ASSUME Nat \ S # {} PROVE FALSE
  OBVIOUS
<1>1. PICK x \in Nat \ S : \A y \in Nat \ S : x <= y
  BY SmallestOf
<1>2. x - 1 \in S
  BY <1>1
<1> QED  BY <1>1, <1>2

-----------------------------------------------------------------------------
(* Cutting a text *)

\* f walks back from each n to the nearest place of B, or to 0.
WalksBack(f, B, N) == f = [n \in 0..N |-> IF n > 0 /\ n \notin B THEN f[n - 1] ELSE n]

LEMMA WalkExists == ASSUME NEW B, NEW N \in Nat PROVE \E f : WalksBack(f, B, N)
<1> DEFINE S == {M \in Nat : \E f : WalksBack(f, B, M)}
<1>1. 0 \in S
  <2>1. WalksBack([n \in 0..0 |-> 0], B, 0)
    BY DEF WalksBack
  <2> QED  BY <2>1
<1>2. ASSUME NEW M \in S PROVE M + 1 \in S
  <2>1. PICK f : WalksBack(f, B, M)
    OBVIOUS
  <2> DEFINE g == [n \in 0..(M + 1) |->
                     IF n = M + 1 THEN (IF M + 1 \notin B THEN f[M] ELSE M + 1) ELSE f[n]]
  <2>2. ASSUME NEW n \in 0..(M + 1)
        PROVE  g[n] = IF n > 0 /\ n \notin B THEN g[n - 1] ELSE n
    BY <2>1 DEF WalksBack
  <2>3. WalksBack(g, B, M + 1)
    BY <2>2 DEF WalksBack
  <2> QED  BY <2>3
<1>3. \A M \in Nat : M \in S
  <2> HIDE DEF S
  <2> QED  BY <1>1, <1>2, Induction DEF S
<1> QED  BY <1>3

\* It passes no place of B.
LEMMA WalkStops ==
  ASSUME NEW f, NEW B, NEW N \in Nat, WalksBack(f, B, N)
  PROVE  /\ f[N] \in 0..N
         /\ f[N] = 0 \/ f[N] \in B
         /\ \A n \in (f[N] + 1)..N : n \notin B
<1> DEFINE Good(n) == /\ f[n] \in 0..n
                      /\ f[n] = 0 \/ f[n] \in B
                      /\ \A m \in (f[n] + 1)..n : m \notin B
           S == {n \in Nat : n <= N => Good(n)}
<1>1. 0 \in S
  BY DEF WalksBack
<1>2. ASSUME NEW n \in S PROVE n + 1 \in S
  <2> SUFFICES ASSUME n + 1 <= N PROVE Good(n + 1)
    OBVIOUS
  <2>1. f[n + 1] = IF n + 1 \notin B THEN f[n] ELSE n + 1
    BY DEF WalksBack
  <2>2. Good(n)
    OBVIOUS
  <2>3. CASE n + 1 \in B
    BY <2>1, <2>3
  <2>4. CASE n + 1 \notin B
    <3>1. f[n + 1] = f[n]
      BY <2>1, <2>4
    <3> QED  BY <2>2, <2>4, <3>1
  <2> QED  BY <2>3, <2>4
<1>3. \A n \in Nat : n \in S
  <2> HIDE DEF S
  <2> QED  BY <1>1, <1>2, Induction DEF S
<1> QED  BY <1>3

\* Where a text may be cut.
Boundaries(text) == {n \in 0..Len(text) : n = Len(text) \/ StartsRune(text, n)}

\* What IsUtf8 says of neighbours.
LEMMA Neighbours ==
  ASSUME NEW text \in Seq(Nat \X Nat), IsUtf8(text)
  PROVE  /\ \A i \in 1..Len(text) :
              /\ text[i][1] \in 1..4 /\ text[i][2] \in 1..text[i][1]
              /\ i = 1 => text[i][2] = 1
              /\ i = Len(text) => text[i][2] = text[i][1]
         /\ \A i, j \in 1..Len(text) : j = i + 1 =>
              /\ text[j][2] > 1 => text[i] = <<text[j][1], text[j][2] - 1>>
              /\ text[i][2] < text[i][1] => text[j] = <<text[i][1], text[i][2] + 1>>
<1>1. \A i \in 1..Len(text) :
        /\ text[i][1] \in 1..4 /\ text[i][2] \in 1..text[i][1]
        /\ text[i][2] > 1 => i > 1 /\ text[i - 1] = <<text[i][1], text[i][2] - 1>>
        /\ text[i][2] < text[i][1] =>
             i < Len(text) /\ text[i + 1] = <<text[i][1], text[i][2] + 1>>
  BY DEF IsUtf8
<1>2. ASSUME NEW i \in 1..Len(text), NEW j \in 1..Len(text), j = i + 1
      PROVE  /\ text[j][2] > 1 => text[i] = <<text[j][1], text[j][2] - 1>>
             /\ text[i][2] < text[i][1] => text[j] = <<text[i][1], text[i][2] + 1>>
  <2>1. j - 1 = i
    BY <1>2
  <2>2. text[j][2] > 1 => text[j - 1] = <<text[j][1], text[j][2] - 1>>
    BY <1>1
  <2>3. text[i][2] < text[i][1] => text[i + 1] = <<text[i][1], text[i][2] + 1>>
    BY <1>1
  <2> QED  BY <1>2, <2>1, <2>2, <2>3
<1>3. ASSUME NEW i \in 1..Len(text)
      PROVE  /\ text[i][1] \in 1..4 /\ text[i][2] \in 1..text[i][1]
             /\ i = 1 => text[i][2] = 1
             /\ i = Len(text) => text[i][2] = text[i][1]
  <2>1. text[i][1] \in 1..4 /\ text[i][2] \in 1..text[i][1]
    BY <1>1
  <2>2. text[i][1] \in Nat /\ text[i][2] \in Nat /\ text[i][2] >= 1 /\ text[i][2] <= text[i][1]
    BY <2>1
  <2>3. i = 1 => ~(text[i][2] > 1)
    BY <1>1
  <2>4. i = Len(text) => ~(text[i][2] < text[i][1])
    BY <1>1
  <2> QED  BY <2>1, <2>2, <2>3, <2>4
<1> QED  BY <1>2, <1>3

\* A prefix is whole exactly if it ends at a boundary.
LEMMA PrefixUtf8 ==
  ASSUME NEW text \in Seq(Nat \X Nat), IsUtf8(text), NEW n \in 0..Len(text)
  PROVE  /\ SubSeq(text, 1, n) \in Seq(Nat \X Nat) /\ Len(SubSeq(text, 1, n)) = n
         /\ IsUtf8(SubSeq(text, 1, n)) <=> n = 0 \/ n \in Boundaries(text)
<1> DEFINE t == SubSeq(text, 1, n)
<1>1. t \in Seq(Nat \X Nat) /\ Len(t) = n /\ \A i \in 1..n : t[i] = text[i]
  OBVIOUS
<1> HIDE DEF t
<1>2. ASSUME n # 0, n \notin Boundaries(text) PROVE ~IsUtf8(t)
  <2> SUFFICES ASSUME IsUtf8(t) PROVE FALSE
    OBVIOUS
  <2>1. n \in 1..Len(text) /\ n + 1 \in 1..Len(text) /\ text[n + 1][2] # 1
    BY <1>2 DEF Boundaries, StartsRune
  <2>2. text[n + 1][2] > 1 /\ text[n + 1][2] <= text[n + 1][1]
        /\ text[n + 1][1] \in Nat /\ text[n + 1][2] \in Nat
    BY <2>1, Neighbours
  <2>3. text[n] = <<text[n + 1][1], text[n + 1][2] - 1>>
    BY <2>1, <2>2, Neighbours
  <2>4. text[n][1] = text[n + 1][1] /\ text[n][2] = text[n + 1][2] - 1
    BY <2>3
  <2>5. t[n] = text[n] /\ n \in 1..Len(t) /\ n = Len(t)
    <3>1. n \in 1..n
      BY <2>1
    <3>2. n = Len(t)
      BY <1>1
    <3>3. t[n] = text[n]
      BY <1>1, <3>1, Zenon
    <3> QED  BY <3>1, <3>2, <3>3
  <2>6. t[n][2] = t[n][1]
    BY <1>1, <2>5, Neighbours
  <2> QED  BY <2>2, <2>4, <2>5, <2>6
<1>3. ASSUME n = 0 \/ n \in Boundaries(text) PROVE IsUtf8(t)
  <2> SUFFICES ASSUME NEW i \in 1..n
               PROVE  /\ t[i][1] \in 1..4 /\ t[i][2] \in 1..t[i][1]
                      /\ t[i][2] > 1 => i > 1 /\ t[i - 1] = <<t[i][1], t[i][2] - 1>>
                      /\ t[i][2] < t[i][1] => i < n /\ t[i + 1] = <<t[i][1], t[i][2] + 1>>
    BY <1>1 DEF IsUtf8
  <2>1. i \in 1..Len(text) /\ t[i] = text[i]
    BY <1>1
  <2>2. ASSUME t[i][2] > 1 PROVE i > 1 /\ t[i - 1] = <<t[i][1], t[i][2] - 1>>
    <3>1. i # 1
      BY <2>1, <2>2, Neighbours
    <3>2. i - 1 \in 1..Len(text) /\ i - 1 \in 1..n /\ i = (i - 1) + 1
      BY <3>1
    <3>3. text[i - 1] = <<text[i][1], text[i][2] - 1>>
      BY <2>1, <2>2, <3>2, Neighbours
    <3>4. t[i - 1] = text[i - 1]
      BY <1>1, <3>2
    <3> QED  BY <2>1, <3>1, <3>3, <3>4
  <2>3. ASSUME t[i][2] < t[i][1] PROVE i < n /\ t[i + 1] = <<t[i][1], t[i][2] + 1>>
    <3>1. i # Len(text)
      BY <2>1, <2>3, Neighbours
    <3>2. i + 1 \in 1..Len(text)
      BY <3>1
    <3>3. text[i + 1] = <<text[i][1], text[i][2] + 1>>
      BY <2>1, <2>3, <3>2, Neighbours
    <3>4. text[i + 1][2] = text[i][2] + 1 /\ text[i][2] \in Nat /\ text[i][2] >= 1
      BY <2>1, <3>3, Neighbours
    <3>5. i # n
      <4> SUFFICES ASSUME i = n PROVE FALSE
        OBVIOUS
      <4>1. n \in Boundaries(text) /\ n # Len(text)
        BY <1>3, <3>1
      <4>2. text[n + 1][2] = 1
        BY <4>1 DEF Boundaries, StartsRune
      <4> QED  BY <3>4, <4>2
    <3>6. i < n /\ i + 1 \in 1..n
      BY <3>5
    <3>7. t[i + 1] = text[i + 1]
      BY <1>1, <3>6
    <3> QED  BY <2>1, <3>3, <3>6, <3>7
  <2> QED  BY <2>1, <2>2, <2>3, Neighbours
<1> QED  BY <1>1, <1>2, <1>3 DEF t

\* The first character of a text is whole.
LEMMA FirstRune ==
  ASSUME NEW text \in Seq(Nat \X Nat), IsUtf8(text), text # <<>>
  PROVE  \E n \in 1..4 : n <= Len(text) /\ n \in Boundaries(text)
<1> DEFINE w == text[1][1]
<1>1. Len(text) >= 1 /\ 1 \in 1..Len(text)
  OBVIOUS
<1>2. w \in 1..4 /\ text[1][2] = 1
  BY <1>1, Neighbours
<1>3. ASSUME NEW i \in 1..3, i < w, i \in 1..Len(text), text[i][1] = w, text[i][2] = i
      PROVE  i + 1 \in 1..Len(text) /\ text[i + 1][1] = w /\ text[i + 1][2] = i + 1
  <2>1. i # Len(text)
    BY <1>2, <1>3, Neighbours
  <2>2. i + 1 \in 1..Len(text)
    BY <1>3, <2>1
  <2>3. text[i + 1] = <<text[i][1], text[i][2] + 1>>
    BY <1>2, <1>3, <2>2, Neighbours
  <2> QED  BY <1>3, <2>2, <2>3
<1>4. w \in 1..Len(text) /\ text[w][1] = w /\ text[w][2] = w
  <2> HIDE DEF w
  <2>1. text[1][1] = w
    BY DEF w
  <2>2. CASE w = 1
    BY <1>1, <1>2, <2>1, <2>2
  <2>3. CASE w = 2
    BY <1>1, <1>2, <1>3, <2>1, <2>3
  <2>4. CASE w = 3
    <3>1. 2 \in 1..Len(text) /\ text[2][1] = w /\ text[2][2] = 2
      BY <1>1, <1>2, <1>3, <2>1, <2>4
    <3> QED  BY <1>3, <2>4, <3>1
  <2>5. CASE w = 4
    <3>1. 2 \in 1..Len(text) /\ text[2][1] = w /\ text[2][2] = 2
      BY <1>1, <1>2, <1>3, <2>1, <2>5
    <3>2. 3 \in 1..Len(text) /\ text[3][1] = w /\ text[3][2] = 3
      BY <1>3, <2>5, <3>1
    <3> QED  BY <1>3, <2>5, <3>2
  <2> QED  BY <1>2, <2>2, <2>3, <2>4, <2>5
<1> HIDE DEF w
<1>5. w \in Boundaries(text)
  <2> SUFFICES ASSUME w # Len(text) PROVE text[w + 1][2] = 1
    BY <1>2, <1>4 DEF Boundaries, StartsRune
  <2>1. w + 1 \in 1..Len(text)
    BY <1>4
  <2>2. text[w + 1][2] \in Nat /\ text[w + 1][1] \in Nat
        /\ text[w + 1][2] >= 1 /\ text[w + 1][2] <= text[w + 1][1]
    BY <2>1, Neighbours
  <2>3. text[w + 1][2] > 1 => text[w] = <<text[w + 1][1], text[w + 1][2] - 1>>
    BY <1>4, <2>1, Neighbours
  <2>4. text[w + 1][2] > 1 => text[w][1] = text[w + 1][1] /\ text[w][2] = text[w + 1][2] - 1
    BY <2>3
  <2> QED  BY <1>2, <1>4, <2>2, <2>4
<1>6. w <= Len(text)
  BY <1>2, <1>4
<1>7. w \in 1..4
  BY <1>2
<1> QED  BY <1>5, <1>6, <1>7

\* A text as it is left in the buffer.
CutRight(text, cut) ==
  /\ Len(cut) \in 0..ErrBufCap
  /\ IsUtf8(cut)
  /\ cut = SubSeq(text, 1, Len(cut))
  /\ \A n \in (Len(cut) + 1)..Len(text) : n > ErrBufCap \/ ~IsUtf8(SubSeq(text, 1, n))
  /\ Len(cut) = 0 => text = <<>>
  /\ cut # Fallback

LEMMA CutAtBoundary ==
  ASSUME NEW text \in Seq(Nat \X Nat), IsUtf8(text), NEW b \in 0..Len(text), b <= ErrBufCap,
         b = 0 \/ b \in Boundaries(text),
         \A n \in (b + 1)..Len(text) : n <= ErrBufCap => n \notin Boundaries(text)
  PROVE  CutRight(text, SubSeq(text, 1, b))
<1> DEFINE cut == SubSeq(text, 1, b)
<1>1. Len(cut) = b /\ IsUtf8(cut) /\ cut \in Seq(Nat \X Nat)
  BY PrefixUtf8
<1>2. ASSUME NEW n \in (b + 1)..Len(text), n <= ErrBufCap PROVE ~IsUtf8(SubSeq(text, 1, n))
  <2>1. n \in 0..Len(text) /\ n # 0 /\ n \notin Boundaries(text)
    BY <1>2
  <2> QED  BY <2>1, PrefixUtf8
<1>3. b = 0 => text = <<>>
  <2> SUFFICES ASSUME b = 0, text # <<>> PROVE FALSE
    OBVIOUS
  <2>1. PICK n \in 1..4 : n <= Len(text) /\ n \in Boundaries(text)
    BY FirstRune
  <2> QED  BY <2>1, CapAssumption
<1> HIDE DEF cut
<1>4. cut # Fallback
  <2> SUFFICES ASSUME cut = Fallback PROVE FALSE
    OBVIOUS
  <2>1. Len(Fallback) = 1 /\ Fallback[1][1] = 0
    BY DEF Fallback
  <2>2. 1 \in 1..Len(cut) /\ cut[1][1] = 0
    BY <2>1
  <2>3. cut[1][1] \in 1..4
    BY <1>1, <2>2, Neighbours
  <2> QED  BY <2>2, <2>3
<1>5. \A n \in (b + 1)..Len(text) : n > ErrBufCap \/ ~IsUtf8(SubSeq(text, 1, n))
  BY <1>2, CapAssumption
<1>6. cut = SubSeq(text, 1, Len(cut))
  BY <1>1 DEF cut
<1>7. CutRight(text, cut)
  BY <1>1, <1>3, <1>4, <1>5, <1>6, CapAssumption DEF CutRight
<1> QED  BY <1>7 DEF cut

\* write_c_err's loop, and truncateToRuneBoundary's, as they are written.
CWalk(f, text, most) ==
  f = [n \in 0..most |->
         IF n > 0 /\ ~(n = Len(text) \/ StartsRune(text, n)) THEN f[n - 1] ELSE n]
GoWalk(f, text) ==
  f = [n \in 0..ErrBufCap |-> IF n > 0 /\ ~StartsRune(text, n) THEN f[n - 1] ELSE n]

LEMMA WriteCErrCuts ==
  ASSUME NEW text \in Seq(Nat \X Nat), IsUtf8(text)
  PROVE  CutRight(text, WriteCErr(text))
<1> DEFINE most == IF Len(text) < ErrBufCap THEN Len(text) ELSE ErrBufCap
           back == CHOOSE f : CWalk(f, text, most)
<1>1. most \in Nat /\ most <= Len(text) /\ most <= ErrBufCap
      /\ \A n \in 0..Len(text) : n <= ErrBufCap => n <= most
  BY CapAssumption
<1>2. WriteCErr(text) = SubSeq(text, 1, back[most])
  BY DEF WriteCErr, CWalk
<1> HIDE DEF most
<1>3. \A f : CWalk(f, text, most) <=> WalksBack(f, Boundaries(text), most)
  BY <1>1 DEF CWalk, WalksBack, Boundaries
<1>4. WalksBack(back, Boundaries(text), most)
  BY <1>1, <1>3, WalkExists
<1> HIDE DEF back
<1>5. /\ back[most] \in 0..most
      /\ back[most] = 0 \/ back[most] \in Boundaries(text)
      /\ \A n \in (back[most] + 1)..most : n \notin Boundaries(text)
  BY <1>1, <1>4, WalkStops
<1>6. \A n \in (back[most] + 1)..Len(text) : n <= ErrBufCap => n \notin Boundaries(text)
  BY <1>1, <1>5
<1>7. back[most] \in 0..Len(text) /\ back[most] <= ErrBufCap
  BY <1>1, <1>5, CapAssumption
<1>8. CutRight(text, SubSeq(text, 1, back[most]))
  BY <1>5, <1>6, <1>7, CutAtBoundary
<1> QED  BY <1>2, <1>8

LEMMA WriteInitErrCuts ==
  ASSUME NEW text \in Seq(Nat \X Nat), IsUtf8(text)
  PROVE  CutRight(text, WriteInitErr(text))
<1> DEFINE back == CHOOSE f : GoWalk(f, text)
<1>1. WriteInitErr(text) = IF Len(text) > ErrBufCap THEN SubSeq(text, 1, back[ErrBufCap]) ELSE text
  BY DEF WriteInitErr, GoWalk
<1>2. CASE Len(text) > ErrBufCap
  <2>1. \A f : GoWalk(f, text) <=> WalksBack(f, Boundaries(text), ErrBufCap)
    <3>1. \A n \in 0..ErrBufCap : StartsRune(text, n) <=> n \in Boundaries(text)
      BY <1>2, CapAssumption DEF Boundaries
    <3> QED  BY <3>1, CapAssumption DEF GoWalk, WalksBack
  <2>2. WalksBack(back, Boundaries(text), ErrBufCap)
    BY <2>1, WalkExists, CapAssumption
  <2> HIDE DEF back
  <2>3. /\ back[ErrBufCap] \in 0..ErrBufCap
        /\ back[ErrBufCap] = 0 \/ back[ErrBufCap] \in Boundaries(text)
        /\ \A n \in (back[ErrBufCap] + 1)..ErrBufCap : n \notin Boundaries(text)
    BY <2>2, WalkStops, CapAssumption
  <2>4. \A n \in (back[ErrBufCap] + 1)..Len(text) : n <= ErrBufCap => n \notin Boundaries(text)
    BY <2>3, CapAssumption
  <2>5. back[ErrBufCap] \in 0..Len(text) /\ back[ErrBufCap] <= ErrBufCap
    BY <1>2, <2>3, CapAssumption
  <2>6. CutRight(text, SubSeq(text, 1, back[ErrBufCap]))
    BY <2>3, <2>4, <2>5, CutAtBoundary
  <2> QED  BY <1>1, <1>2, <2>6
<1>3. CASE ~(Len(text) > ErrBufCap)
  <2>1. Len(text) \in Boundaries(text) /\ Len(text) \in 0..Len(text) /\ Len(text) <= ErrBufCap
    BY <1>3, CapAssumption DEF Boundaries
  <2>2. SubSeq(text, 1, Len(text)) = text
    OBVIOUS
  <2>3. CutRight(text, SubSeq(text, 1, Len(text)))
    BY <2>1, CutAtBoundary
  <2> QED  BY <1>1, <1>3, <2>2, <2>3
<1> QED  BY <1>2, <1>3
\* The elements of a concatenation, by position.
LEMMA ConcatAt ==
  ASSUME NEW T, NEW s \in Seq(T), NEW t \in Seq(T)
  PROVE  /\ s \o t \in Seq(T)
         /\ Len(s \o t) = Len(s) + Len(t)
         /\ \A i \in 1..Len(s) : (s \o t)[i] = s[i]
         /\ \A i \in 1..Len(t) : (s \o t)[Len(s) + i] = t[i]
         /\ \A i \in 1..Len(s \o t) : i \in 1..Len(s) \/ i - Len(s) \in 1..Len(t)
OBVIOUS

-----------------------------------------------------------------------------
(* Flattening *)

\* c holds where each part ends.
EndsAt(c, parts, N) == c = [p \in 0..N |-> IF p = 0 THEN 0 ELSE c[p - 1] + Len(parts[p])]

LEMMA EndsExist == ASSUME NEW parts, NEW N \in Nat PROVE \E c : EndsAt(c, parts, N)
<1> DEFINE S == {M \in Nat : \E c : EndsAt(c, parts, M)}
<1>1. 0 \in S
  <2>1. EndsAt([p \in 0..0 |-> 0], parts, 0)
    BY DEF EndsAt
  <2> QED  BY <2>1
<1>2. ASSUME NEW M \in S PROVE M + 1 \in S
  <2>1. PICK c : EndsAt(c, parts, M)
    OBVIOUS
  <2> DEFINE d == [p \in 0..(M + 1) |-> IF p = M + 1 THEN c[M] + Len(parts[M + 1]) ELSE c[p]]
  <2>2. ASSUME NEW p \in 0..(M + 1)
        PROVE  d[p] = IF p = 0 THEN 0 ELSE d[p - 1] + Len(parts[p])
    BY <2>1 DEF EndsAt
  <2>3. EndsAt(d, parts, M + 1)
    BY <2>2 DEF EndsAt
  <2> QED  BY <2>3
<1>3. \A M \in Nat : M \in S
  <2> HIDE DEF S
  <2> QED  BY <1>1, <1>2, Induction DEF S
<1> QED  BY <1>3

\* f holds the parts up to each place, one after another.
Flattens(f, parts, N) == f = [i \in 1..N |-> IF i = 1 THEN parts[i] ELSE f[i - 1] \o parts[i]]

LEMMA FlattenExists == ASSUME NEW parts, NEW N \in Nat PROVE \E f : Flattens(f, parts, N)
<1> DEFINE S == {M \in Nat : \E f : Flattens(f, parts, M)}
<1>1. 0 \in S
  <2>1. Flattens([i \in 1..0 |-> parts[i]], parts, 0)
    BY DEF Flattens
  <2> QED  BY <2>1
<1>2. ASSUME NEW M \in S PROVE M + 1 \in S
  <2>1. PICK f : Flattens(f, parts, M)
    OBVIOUS
  <2> DEFINE g == [i \in 1..(M + 1) |->
                     IF i = M + 1 THEN (IF i = 1 THEN parts[i] ELSE f[M] \o parts[M + 1]) ELSE f[i]]
  <2>2. ASSUME NEW i \in 1..(M + 1)
        PROVE  g[i] = IF i = 1 THEN parts[i] ELSE g[i - 1] \o parts[i]
    <3>1. CASE i = M + 1 /\ i = 1
      BY <3>1
    <3>2. CASE i = M + 1 /\ i # 1
      <4>1. i - 1 = M /\ i - 1 \in 1..(M + 1) /\ i - 1 # M + 1
        BY <3>2
      <4>2. g[i - 1] = f[M]
        BY <4>1
      <4> QED  BY <3>2, <4>2
    <3>3. CASE i # M + 1
      <4>1. i \in 1..M /\ (i # 1 => i - 1 \in 1..(M + 1) /\ i - 1 # M + 1)
        BY <3>3
      <4>2. f[i] = IF i = 1 THEN parts[i] ELSE f[i - 1] \o parts[i]
        BY <2>1, <4>1 DEF Flattens
      <4>3. g[i] = f[i] /\ (i # 1 => g[i - 1] = f[i - 1])
        BY <3>3, <4>1
      <4> HIDE DEF g
      <4> QED  BY <4>2, <4>3
    <3> QED  BY <3>1, <3>2, <3>3
  <2>3. Flattens(g, parts, M + 1)
    BY <2>2 DEF Flattens
  <2> QED  BY <2>3
<1>3. \A M \in Nat : M \in S
  <2> HIDE DEF S
  <2> QED  BY <1>1, <1>2, Induction DEF S
<1> QED  BY <1>3

\* The first p parts lie in flat, each behind the one before.
Laid(flat, T, c, parts, p) ==
  /\ flat \in Seq(T)
  /\ c[p] \in Nat
  /\ Len(flat) = c[p]
  /\ \A q \in 1..p :
       /\ c[q - 1] \in Nat /\ c[q] \in Nat /\ parts[q] \in Seq(T)
       /\ c[q] = c[q - 1] + Len(parts[q])
       /\ c[q] <= c[p]
       /\ \A j \in 1..Len(parts[q]) : flat[c[q - 1] + j] = parts[q][j]

LEMMA LaidNext ==
  ASSUME NEW T, NEW flat, NEW c, NEW parts, NEW p \in Nat, Laid(flat, T, c, parts, p),
         parts[p + 1] \in Seq(T), c[p + 1] = c[p] + Len(parts[p + 1])
  PROVE  Laid(flat \o parts[p + 1], T, c, parts, p + 1)
<1> DEFINE next == parts[p + 1]
           g == flat \o next
<1>1. flat \in Seq(T) /\ next \in Seq(T) /\ Len(flat) = c[p] /\ c[p] \in Nat
  BY DEF Laid
<1>2. g \in Seq(T) /\ Len(g) = c[p] + Len(next) /\ Len(next) \in Nat
  <2> HIDE DEF next
  <2>1. g \in Seq(T)
    BY <1>1, ConcatAt
  <2>2. Len(g) = Len(flat) + Len(next)
    BY <1>1, ConcatAt
  <2>3. Len(next) \in Nat
    BY <1>1
  <2> HIDE DEF g
  <2> QED  BY <1>1, <2>1, <2>2, <2>3
<1>3. /\ \A i \in 1..c[p] : g[i] = flat[i]
      /\ \A j \in 1..Len(next) : g[c[p] + j] = next[j]
  <2> HIDE DEF next
  <2>1. /\ \A i \in 1..Len(flat) : g[i] = flat[i]
        /\ \A j \in 1..Len(next) : g[Len(flat) + j] = next[j]
    BY <1>1, ConcatAt
  <2> HIDE DEF g
  <2> QED  BY <1>1, <2>1
<1> HIDE DEF g
<1>4. ASSUME NEW q \in 1..(p + 1)
      PROVE  /\ c[q - 1] \in Nat /\ c[q] \in Nat /\ parts[q] \in Seq(T)
             /\ c[q] = c[q - 1] + Len(parts[q])
             /\ c[q] <= c[p + 1]
             /\ \A j \in 1..Len(parts[q]) : g[c[q - 1] + j] = parts[q][j]
  <2>1. CASE q = p + 1
    <3>1. q - 1 = p /\ parts[q] = next
      BY <2>1
    <3>2. c[q] = c[p] + Len(next) /\ c[q - 1] = c[p] /\ c[q] = c[p + 1]
      BY <2>1, <3>1
    <3> HIDE DEF next
    <3> QED  BY <1>1, <1>2, <1>3, <3>1, <3>2
  <2>2. CASE q # p + 1
    <3>1. q \in 1..p
      BY <2>2
    <3>2. /\ c[q - 1] \in Nat /\ c[q] \in Nat /\ parts[q] \in Seq(T)
          /\ c[q] = c[q - 1] + Len(parts[q])
          /\ c[q] <= c[p]
          /\ \A j \in 1..Len(parts[q]) : flat[c[q - 1] + j] = parts[q][j]
      BY <3>1 DEF Laid
    <3>3. ASSUME NEW j \in 1..Len(parts[q]) PROVE g[c[q - 1] + j] = parts[q][j]
      <4>1. Len(parts[q]) \in Nat /\ j \in Nat /\ j >= 1 /\ j <= Len(parts[q])
        BY <3>2
      <4>2. c[q - 1] + j <= c[p]
        BY <1>1, <3>2, <4>1
      <4>3. c[q - 1] + j \in 1..c[p]
        BY <1>1, <3>2, <4>1, <4>2
      <4> QED  BY <1>3, <3>2, <4>3
    <3>4. c[q] <= c[p + 1]
      BY <1>1, <1>2, <3>2
    <3> QED  BY <3>2, <3>3, <3>4
  <2> QED  BY <2>1, <2>2
<1>5. c[p + 1] \in Nat /\ Len(g) = c[p + 1]
  BY <1>1, <1>2
<1>6. Laid(g, T, c, parts, p + 1)
  BY <1>2, <1>4, <1>5 DEF Laid
<1> QED  BY <1>6 DEF g

\* FlattenSeq lays out every part of its argument.
LEMMA FlattenLays ==
  ASSUME NEW T, NEW parts \in Seq(Seq(T)), NEW c, EndsAt(c, parts, Len(parts))
  PROVE  Laid(FlattenSeq(parts), T, c, parts, Len(parts))
<1> DEFINE N == Len(parts)
           f == CHOOSE g : Flattens(g, parts, N)
<1>1. N \in Nat /\ \A i \in 1..N : parts[i] \in Seq(T)
  OBVIOUS
<1>2. Flattens(f, parts, N)
  BY <1>1, FlattenExists
<1>3. FlattenSeq(parts) = IF N = 0 THEN parts ELSE f[N]
  BY DEF FlattenSeq, Flattens
<1> HIDE DEF f
<1>4. CASE N = 0
  <2>1. c[0] = 0 /\ FlattenSeq(parts) = <<>>
    BY <1>3, <1>4 DEF EndsAt
  <2> QED  BY <1>4, <2>1 DEF Laid
<1>5. CASE N # 0
  <2>1. \A p \in 1..N : c[p] = c[p - 1] + Len(parts[p])
    <3> SUFFICES ASSUME NEW p \in 1..N PROVE c[p] = c[p - 1] + Len(parts[p])
      OBVIOUS
    <3>1. p \in 0..N /\ p # 0
      BY <1>1
    <3> QED  BY <3>1 DEF EndsAt
  <2> HIDE DEF N
  <2>2. c[0] = 0
    BY DEF EndsAt
  <2> DEFINE S == {p \in Nat : p + 1 <= N => Laid(f[p + 1], T, c, parts, p + 1)}
  <2>3. 0 \in S
    <3>1. f[1] = parts[1] /\ parts[1] \in Seq(T) /\ 1 \in 1..N
      BY <1>1, <1>2, <1>5 DEF Flattens
    <3>2. Laid(<<>>, T, c, parts, 0)
      BY <2>2 DEF Laid
    <3>3. c[0 + 1] = c[0] + Len(parts[0 + 1]) /\ parts[0 + 1] \in Seq(T)
      BY <2>1, <3>1
    <3>4. Laid(<<>> \o parts[0 + 1], T, c, parts, 0 + 1)
      BY <3>2, <3>3, LaidNext
    <3>5. <<>> \o parts[0 + 1] = f[0 + 1]
      BY <3>1
    <3> QED  BY <3>4, <3>5
  <2>4. ASSUME NEW p \in S PROVE p + 1 \in S
    <3> SUFFICES ASSUME (p + 1) + 1 <= N PROVE Laid(f[(p + 1) + 1], T, c, parts, (p + 1) + 1)
      OBVIOUS
    <3> DEFINE q == p + 1
    <3>1. q \in Nat /\ q \in 1..N /\ q + 1 \in 1..N /\ q + 1 # 1 /\ (q + 1) - 1 = q
      BY <1>1
    <3>2. Laid(f[q], T, c, parts, q)
      BY <3>1
    <3> HIDE DEF q
    <3>3. f[q + 1] = f[q] \o parts[q + 1]
      BY <1>2, <3>1 DEF Flattens
    <3>4. c[q + 1] = c[q] + Len(parts[q + 1]) /\ parts[q + 1] \in Seq(T)
      BY <1>1, <2>1, <3>1
    <3>5. Laid(f[q + 1], T, c, parts, q + 1)
      BY <3>1, <3>2, <3>3, <3>4, LaidNext
    <3> QED  BY <3>5 DEF q
  <2>5. \A p \in Nat : p \in S
    <3> HIDE DEF S
    <3> QED  BY <2>3, <2>4, Induction DEF S
  <2>6. N - 1 \in Nat /\ (N - 1) + 1 = N
    BY <1>1, <1>5
  <2>7. Laid(f[N], T, c, parts, N)
    BY <2>5, <2>6
  <2> QED  BY <1>3, <1>5, <2>7 DEF N
<1> QED  BY <1>4, <1>5

\* What lies in flat behind the first a bytes is read back by SubSeq.
LEMMA ReadBack ==
  ASSUME NEW T, NEW flat \in Seq(T), NEW s \in Seq(T), NEW a \in Nat, a + Len(s) <= Len(flat),
         \A j \in 1..Len(s) : flat[a + j] = s[j]
  PROVE  SubSeq(flat, a + 1, a + Len(s)) = s
<1> DEFINE r == SubSeq(flat, a + 1, a + Len(s))
<1>1. r \in Seq(T) /\ Len(r) = Len(s)
  OBVIOUS
<1>2. \A j \in 1..Len(s) : r[j] = flat[a + j]
  OBVIOUS
<1> HIDE DEF r
<1>3. r = s
  BY <1>1, <1>2
<1> QED  BY <1>3 DEF r

-----------------------------------------------------------------------------
(* The arena *)

HeaderList == Seq([key : Seq(Nat), value : Seq(Nat) \cup {Null}])

LEMMA PartsOf ==
  ASSUME NEW headers \in HeaderList
  PROVE  LET parts == ArenaParts(headers) IN
         /\ parts \in Seq(Seq(Nat)) /\ Len(parts) = 2 * Len(headers) /\ Len(headers) \in Nat
         /\ \A i \in 1..Len(headers) :
              /\ parts[2 * i - 1] = headers[i].key
              /\ parts[2 * i] = IF headers[i].value = Null THEN <<>> ELSE headers[i].value
              /\ headers[i].key \in Seq(Nat)
              /\ headers[i].value # Null => headers[i].value \in Seq(Nat)
<1> DEFINE parts == ArenaParts(headers)
           N == Len(headers)
<1>1. N \in Nat /\ \A i \in 1..N : headers[i] \in [key : Seq(Nat), value : Seq(Nat) \cup {Null}]
  <2> DEFINE R == [key : Seq(Nat), value : Seq(Nat) \cup {Null}]
  <2>1. headers \in Seq(R)
    BY DEF HeaderList
  <2> HIDE DEF R
  <2>2. N \in Nat /\ \A i \in 1..N : headers[i] \in R
    BY <2>1
  <2> QED  BY <2>2 DEF R
<1>2. \A i \in 1..N : /\ headers[i].key \in Seq(Nat)
                      /\ headers[i].value # Null => headers[i].value \in Seq(Nat)
  BY <1>1
<1> DEFINE part(p) == LET h == headers[(p + 1) \div 2]
                      IN  IF p % 2 = 1 THEN h.key ELSE IF h.value = Null THEN <<>> ELSE h.value
<1>3. parts = [p \in 1..(2 * N) |-> part(p)]
  BY DEF ArenaParts
<1>4. ASSUME NEW p \in 1..(2 * N) PROVE part(p) \in Seq(Nat)
  <2>1. (p + 1) \div 2 \in 1..N
    BY <1>1
  <2>2. <<>> \in Seq(Nat)
    OBVIOUS
  <2> QED  BY <1>2, <2>1, <2>2
<1>5. ASSUME NEW i \in 1..N
      PROVE  /\ part(2 * i - 1) = headers[i].key
             /\ part(2 * i) = IF headers[i].value = Null THEN <<>> ELSE headers[i].value
             /\ 2 * i - 1 \in 1..(2 * N) /\ 2 * i \in 1..(2 * N)
  <2>1. i \in Nat /\ i >= 1 /\ i <= N
    BY <1>1
  <2>2. ((2 * i - 1) + 1) \div 2 = i /\ (2 * i - 1) % 2 = 1
    BY <2>1
  <2>3. ((2 * i) + 1) \div 2 = i /\ (2 * i) % 2 = 0
    BY <2>1
  <2> QED  BY <1>1, <2>1, <2>2, <2>3
<1> HIDE DEF part, parts, N
<1>6. parts \in Seq(Seq(Nat)) /\ Len(parts) = 2 * N
  BY <1>1, <1>3, <1>4
<1>7. ASSUME NEW i \in 1..N
      PROVE  /\ parts[2 * i - 1] = headers[i].key
             /\ parts[2 * i] = IF headers[i].value = Null THEN <<>> ELSE headers[i].value
  BY <1>3, <1>5
<1> QED  BY <1>1, <1>2, <1>6, <1>7 DEF parts, N

\* marshalHeaders' first loop, as it is written.
Totals(t, headers, N) ==
  t = [n \in 0..N |-> IF n = 0 THEN 0
                      ELSE t[n - 1] + Len(headers[n].key) + ValueLen(headers[n].value)]

LEMMA TotalsExist == ASSUME NEW headers, NEW N \in Nat PROVE \E t : Totals(t, headers, N)
<1> DEFINE S == {M \in Nat : \E t : Totals(t, headers, M)}
<1>1. 0 \in S
  <2>1. Totals([n \in 0..0 |-> 0], headers, 0)
    BY DEF Totals
  <2> QED  BY <2>1
<1>2. ASSUME NEW M \in S PROVE M + 1 \in S
  <2>1. PICK t : Totals(t, headers, M)
    OBVIOUS
  <2> DEFINE u == [n \in 0..(M + 1) |->
                     IF n = M + 1
                     THEN t[M] + Len(headers[M + 1].key) + ValueLen(headers[M + 1].value)
                     ELSE t[n]]
  <2>2. ASSUME NEW n \in 0..(M + 1)
        PROVE  u[n] = IF n = 0 THEN 0
                      ELSE u[n - 1] + Len(headers[n].key) + ValueLen(headers[n].value)
    BY <2>1 DEF Totals
  <2>3. Totals(u, headers, M + 1)
    BY <2>2 DEF Totals
  <2> QED  BY <2>3
<1>3. \A M \in Nat : M \in S
  <2> HIDE DEF S
  <2> QED  BY <1>1, <1>2, Induction DEF S
<1> QED  BY <1>3

\* The two loops agree: the block is as large as what is put into it.
LEMMA LoopsAgree ==
  ASSUME NEW headers \in HeaderList, NEW c,
         EndsAt(c, ArenaParts(headers), Len(ArenaParts(headers)))
  PROVE  ArenaSize(headers) = c[Len(ArenaParts(headers))]
<1> DEFINE N == Len(headers)
           parts == ArenaParts(headers)
           t == CHOOSE u : Totals(u, headers, N)
<1>1. N \in Nat /\ Len(parts) = 2 * N
  BY PartsOf
<1>2. Totals(t, headers, N)
  BY <1>1, TotalsExist
<1>3. ArenaSize(headers) = t[N]
  BY DEF ArenaSize, Totals
<1> HIDE DEF t
<1>4. ASSUME NEW i \in 1..N
      PROVE  parts[2 * i - 1] = headers[i].key /\ Len(parts[2 * i]) = ValueLen(headers[i].value)
             /\ Len(parts[2 * i - 1]) \in Nat /\ Len(parts[2 * i]) \in Nat
  <2>1. /\ parts[2 * i - 1] = headers[i].key
        /\ parts[2 * i] = IF headers[i].value = Null THEN <<>> ELSE headers[i].value
        /\ headers[i].key \in Seq(Nat)
        /\ headers[i].value # Null => headers[i].value \in Seq(Nat)
    BY PartsOf
  <2> HIDE DEF parts
  <2>2. Len(<<>>) = 0
    OBVIOUS
  <2>3. Len(parts[2 * i]) = ValueLen(headers[i].value) /\ Len(parts[2 * i]) \in Nat
    BY <2>1, <2>2 DEF ValueLen
  <2> QED  BY <2>1, <2>3
<1>5. EndsAt(c, parts, 2 * N)
  BY <1>1
<1> HIDE DEF N, parts
<1> DEFINE S == {n \in Nat : n <= N => t[n] = c[2 * n] /\ t[n] \in Nat}
<1>6. 0 \in S
  BY <1>1, <1>2, <1>5 DEF Totals, EndsAt
<1>7. ASSUME NEW n \in S PROVE n + 1 \in S
  <2> SUFFICES ASSUME n + 1 <= N PROVE t[n + 1] = c[2 * (n + 1)] /\ t[n + 1] \in Nat
    OBVIOUS
  <2>1. n + 1 \in 1..N /\ n + 1 \in 0..N /\ n + 1 # 0 /\ (n + 1) - 1 = n
    BY <1>1
  <2>2. t[n + 1] = t[n] + Len(headers[n + 1].key) + ValueLen(headers[n + 1].value)
    BY <1>2, <2>1 DEF Totals
  <2> DEFINE a == 2 * (n + 1) - 1
             b == 2 * (n + 1)
  <2>3. a \in 0..(2 * N) /\ a # 0 /\ a - 1 = 2 * n /\ b \in 0..(2 * N) /\ b # 0 /\ b - 1 = a
    BY <1>1, <2>1
  <2>4. parts[a] = headers[n + 1].key /\ Len(parts[b]) = ValueLen(headers[n + 1].value)
        /\ Len(parts[a]) \in Nat /\ Len(parts[b]) \in Nat
    BY <1>4, <2>1
  <2> HIDE DEF a, b
  <2>5. c[a] = c[a - 1] + Len(parts[a])
    BY <1>5, <2>3 DEF EndsAt
  <2>6. c[b] = c[b - 1] + Len(parts[b])
    BY <1>5, <2>3 DEF EndsAt
  <2>7. t[n] = c[2 * n] /\ t[n] \in Nat
    BY <1>1, <2>1
  <2>8. t[n + 1] = c[b] /\ t[n + 1] \in Nat
    <3>1. c[a] = t[n] + Len(parts[a])
      BY <2>3, <2>5, <2>7
    <3>2. c[b] = c[a] + Len(parts[b])
      BY <2>3, <2>6
    <3>3. t[n + 1] = t[n] + Len(parts[a]) + Len(parts[b])
      BY <2>2, <2>4
    <3> HIDE DEF S
    <3> QED  BY <2>4, <2>7, <3>1, <3>2, <3>3
  <2> QED  BY <2>8 DEF b
<1>8. \A n \in Nat : n \in S
  <2> HIDE DEF S
  <2> QED  BY <1>6, <1>7, Induction DEF S
<1>9. t[N] = c[2 * N]
  BY <1>1, <1>8
<1> QED  BY <1>1, <1>3, <1>9 DEF N, parts

\* What put() returns for part p.
PutRef(parts, c, p) ==
  [ptr |-> IF parts[p] = <<>> THEN NullPtr ELSE c[p - 1], len |-> Len(parts[p])]

\* A part is inside the block, and is read back as it was.
LEMMA PutReadBack ==
  ASSUME NEW parts \in Seq(Seq(Nat)), NEW c, NEW bytes, Laid(bytes, Nat, c, parts, Len(parts)),
         NEW p \in 1..Len(parts), NEW ref, ref = PutRef(parts, c, p)
  PROVE  /\ BorrowBytes(bytes, ref) = parts[p]
         /\ ref.ptr # NullPtr => ref.ptr >= 0 /\ ref.ptr + ref.len <= Len(bytes)
         /\ ref.len = Len(parts[p]) /\ ref.len >= 0
<1>1. ref.ptr = (IF parts[p] = <<>> THEN NullPtr ELSE c[p - 1]) /\ ref.len = Len(parts[p])
  BY DEF PutRef
<1>2. parts[p] \in Seq(Nat) /\ Len(parts[p]) \in Nat
  OBVIOUS
<1>3. /\ bytes \in Seq(Nat) /\ Len(bytes) = c[Len(parts)] /\ c[Len(parts)] \in Nat
      /\ c[p - 1] \in Nat /\ c[p] \in Nat /\ c[p] = c[p - 1] + Len(parts[p])
      /\ c[p] <= c[Len(parts)]
      /\ \A j \in 1..Len(parts[p]) : bytes[c[p - 1] + j] = parts[p][j]
  BY DEF Laid
<1>4. CASE parts[p] = <<>>
  <2>1. ref.ptr = NullPtr /\ ref.len = 0
    BY <1>1, <1>4
  <2> QED  BY <1>4, <1>1, <2>1 DEF BorrowBytes
<1>5. CASE parts[p] # <<>>
  <2>1. ref.ptr = c[p - 1] /\ Len(parts[p]) > 0
    BY <1>1, <1>2, <1>5
  <2>2. c[p - 1] # NullPtr
    BY <1>3 DEF NullPtr
  <2>3. SubSeq(bytes, c[p - 1] + 1, c[p - 1] + Len(parts[p])) = parts[p]
    BY <1>2, <1>3, ReadBack
  <2>4. ref.len = Len(parts[p]) /\ ~(ref.ptr = NullPtr \/ ref.len <= 0)
    BY <1>1, <1>2, <2>1, <2>2
  <2>5. BorrowBytes(bytes, ref) = SubSeq(bytes, ref.ptr + 1, ref.ptr + ref.len)
    BY <2>4, Zenon DEF BorrowBytes
  <2>6. BorrowBytes(bytes, ref) = parts[p]
    BY <2>1, <2>3, <2>4, <2>5, Zenon
  <2> QED  BY <1>1, <1>2, <1>3, <2>1, <2>6
<1> QED  BY <1>4, <1>5

\* The struct marshalHeaders writes for header i.
StructFor(headers, c, i) ==
  LET parts == ArenaParts(headers) IN
  [key   |-> PutRef(parts, c, 2 * i - 1),
   value |-> IF headers[i].value = Null THEN [ptr |-> NullPtr, len |-> -1]
             ELSE PutRef(parts, c, 2 * i)]

LEMMA MarshalHeadersIs ==
  ASSUME NEW headers \in HeaderList
  PROVE  \E c : /\ EndsAt(c, ArenaParts(headers), Len(ArenaParts(headers)))
                /\ MarshalHeaders(headers) =
                     [size    |-> ArenaSize(headers),
                      bytes   |-> FlattenSeq(ArenaParts(headers)),
                      structs |-> [i \in 1..Len(headers) |-> StructFor(headers, c, i)]]
<1> DEFINE c == CHOOSE d : EndsAt(d, ArenaParts(headers), Len(ArenaParts(headers)))
<1>1. Len(ArenaParts(headers)) \in Nat
  BY PartsOf
<1>2. EndsAt(c, ArenaParts(headers), Len(ArenaParts(headers)))
  BY <1>1, EndsExist
<1>3. MarshalHeaders(headers) =
        [size    |-> ArenaSize(headers),
         bytes   |-> FlattenSeq(ArenaParts(headers)),
         structs |-> [i \in 1..Len(headers) |-> StructFor(headers, c, i)]]
  BY DEF MarshalHeaders, StructFor, PutRef, EndsAt
<1> HIDE DEF c
<1> QED  BY <1>2, <1>3

\* What ArenaHoldsHeaders says of an arena.
ArenaHolds(arena) ==
  /\ Len(arena.bytes) = arena.size
  /\ \A i \in DOMAIN arena.structs : \A ref \in {arena.structs[i].key, arena.structs[i].value} :
       ref.ptr # NullPtr => ref.ptr >= 0 /\ ref.ptr + ref.len <= arena.size

\* marshalHeaders' block holds the headers, and borrow_headers finds them in it.
LEMMA HeadersCross ==
  ASSUME NEW headers \in HeaderList, Null \notin Seq(Nat)
  PROVE  /\ ArenaHolds(MarshalHeaders(headers))
         /\ BorrowHeaders(MarshalHeaders(headers)) =
              [i \in DOMAIN headers |->
                 [key |-> Utf8OrEmpty(headers[i].key), value |-> headers[i].value]]
<1> DEFINE parts == ArenaParts(headers)
           bytes == FlattenSeq(parts)
           arena == MarshalHeaders(headers)
<1>1. PICK c : /\ EndsAt(c, parts, Len(parts))
               /\ arena = [size    |-> ArenaSize(headers),
                           bytes   |-> bytes,
                           structs |-> [i \in 1..Len(headers) |-> StructFor(headers, c, i)]]
  BY MarshalHeadersIs
<1>2. arena.size = ArenaSize(headers) /\ arena.bytes = bytes
      /\ arena.structs = [i \in 1..Len(headers) |-> StructFor(headers, c, i)]
  BY <1>1
<1>3. /\ parts \in Seq(Seq(Nat)) /\ Len(parts) = 2 * Len(headers) /\ Len(headers) \in Nat
      /\ \A i \in 1..Len(headers) :
              /\ parts[2 * i - 1] = headers[i].key
              /\ parts[2 * i] = IF headers[i].value = Null THEN <<>> ELSE headers[i].value
              /\ headers[i].key \in Seq(Nat)
              /\ headers[i].value # Null => headers[i].value \in Seq(Nat)
  BY PartsOf
<1>4. Laid(bytes, Nat, c, parts, Len(parts))
  BY <1>1, <1>3, FlattenLays
<1>5. Len(bytes) = arena.size
  BY <1>1, <1>2, <1>4, LoopsAgree DEF Laid
<1> HIDE DEF arena, bytes
<1>6. ASSUME NEW i \in 1..Len(headers)
      PROVE  LET s == StructFor(headers, c, i) IN
             /\ BorrowBytes(bytes, s.key) = headers[i].key
             /\ BorrowValue(bytes, s.value) = headers[i].value
             /\ \A ref \in {s.key, s.value} :
                  ref.ptr # NullPtr => ref.ptr >= 0 /\ ref.ptr + ref.len <= Len(bytes)
  <2> DEFINE s == StructFor(headers, c, i)
             k == PutRef(parts, c, 2 * i - 1)
             v == PutRef(parts, c, 2 * i)
  <2>1. 2 * i - 1 \in 1..Len(parts) /\ 2 * i \in 1..Len(parts)
    BY <1>3
  <2>2. s.key = k /\ s.value = IF headers[i].value = Null THEN [ptr |-> NullPtr, len |-> -1] ELSE v
    BY DEF StructFor
  <2> HIDE DEF s, k, v, parts
  <2>3. /\ BorrowBytes(bytes, k) = parts[2 * i - 1]
        /\ k.ptr # NullPtr => k.ptr >= 0 /\ k.ptr + k.len <= Len(bytes)
    <3> DEFINE p == 2 * i - 1
    <3>1. p \in 1..Len(parts) /\ k = PutRef(parts, c, p)
      BY <2>1 DEF k
    <3> HIDE DEF p
    <3>2. /\ BorrowBytes(bytes, k) = parts[p]
          /\ k.ptr # NullPtr => k.ptr >= 0 /\ k.ptr + k.len <= Len(bytes)
      <4>1. parts \in Seq(Seq(Nat))
        BY <1>3
      <4> QED  BY <1>4, <3>1, <4>1, PutReadBack
    <3> QED  BY <3>2 DEF p
  <2>4. /\ BorrowBytes(bytes, v) = parts[2 * i]
        /\ v.ptr # NullPtr => v.ptr >= 0 /\ v.ptr + v.len <= Len(bytes)
        /\ v.len = Len(parts[2 * i]) /\ v.len >= 0
    BY <1>3, <1>4, <2>1, PutReadBack DEF v
  <2>5. CASE headers[i].value = Null
    <3>1. s.value.ptr = NullPtr /\ s.value.len = -1
      BY <2>2, <2>5
    <3>2. BorrowValue(bytes, s.value) = Null
      BY <3>1 DEF BorrowValue
    <3>3. BorrowBytes(bytes, s.key) = headers[i].key
      BY <1>3, <2>2, <2>3
    <3> QED  BY <2>2, <2>3, <2>5, <3>1, <3>2, <3>3 DEF s
  <2>6. CASE headers[i].value # Null
    <3>1. s.value = v
      BY <2>2, <2>6
    <3>2. ~(v.len < 0)
      <4>1. Len(parts[2 * i]) \in Nat
        BY <1>3, <2>1
      <4> QED  BY <2>4, <4>1
    <3>3. BorrowValue(bytes, s.value) = headers[i].value
      BY <1>3, <2>4, <2>6, <3>1, <3>2 DEF BorrowValue
    <3>4. BorrowBytes(bytes, s.key) = headers[i].key
      BY <1>3, <2>2, <2>3
    <3> QED  BY <2>2, <2>3, <2>4, <3>1, <3>3, <3>4 DEF s
  <2> QED  BY <2>5, <2>6
<1>7. DOMAIN arena.structs = 1..Len(headers) /\ DOMAIN headers = 1..Len(headers)
      /\ \A i \in 1..Len(headers) : arena.structs[i] = StructFor(headers, c, i)
  BY <1>2 DEF HeaderList
<1>8. ArenaHolds(arena)
  BY <1>2, <1>5, <1>6, <1>7 DEF ArenaHolds
<1>9. BorrowHeaders(arena) = [i \in DOMAIN headers |->
                                [key |-> Utf8OrEmpty(headers[i].key), value |-> headers[i].value]]
  BY <1>2, <1>6, <1>7 DEF BorrowHeaders
<1> QED  BY <1>8, <1>9 DEF arena

-----------------------------------------------------------------------------
(* A record crosses *)

LEMMA ValueCrosses ==
  ASSUME NEW value \in Seq(Nat) \cup {Null}
  PROVE  BorrowValue(IF value = Null THEN <<>> ELSE value, MarshalValue(value)) = value
<1>0. Null # <<>>
  <2>1. <<>> \in Seq(Nat)
    OBVIOUS
  <2> QED  BY <2>1, NullAssumption
<1>1. CASE value = Null
  <2>1. MarshalValue(value).len = -1
    BY <1>0, <1>1 DEF MarshalValue
  <2> QED  BY <1>1, <2>1 DEF BorrowValue
<1>2. CASE value = <<>>
  <2>1. value # Null
    BY <1>0, <1>2
  <2>2. MarshalValue(value) = [ptr |-> NullPtr, len |-> 0]
    BY <1>2, <2>1 DEF MarshalValue
  <2>3. MarshalValue(value).len = 0
    BY <2>2
  <2> QED  BY <1>2, <2>1, <2>3 DEF BorrowValue, BorrowBytes
<1>3. CASE value # Null /\ value # <<>>
  <2> DEFINE ref == MarshalValue(value)
  <2>1. value \in Seq(Nat) /\ Len(value) \in Nat /\ Len(value) > 0
    BY <1>3
  <2>2. ref = [ptr |-> 0, len |-> Len(value)]
    BY <1>3 DEF MarshalValue
  <2>3. ref.ptr = 0 /\ ref.len = Len(value)
    BY <2>2
  <2> HIDE DEF ref
  <2>4. ~(ref.len < 0) /\ ~(ref.ptr = NullPtr \/ ref.len <= 0)
    BY <2>1, <2>3 DEF NullPtr
  <2>5. BorrowValue(value, ref) = SubSeq(value, ref.ptr + 1, ref.ptr + ref.len)
    BY <2>4, Zenon DEF BorrowValue, BorrowBytes
  <2>6. SubSeq(value, ref.ptr + 1, ref.ptr + ref.len) = SubSeq(value, 1, Len(value))
    BY <2>1, <2>3
  <2>7. SubSeq(value, 1, Len(value)) = value
    BY <2>1
  <2> QED  BY <1>3, <2>5, <2>6, <2>7 DEF ref
<1> QED  BY <1>1, <1>2, <1>3

LEMMA TimestampCrosses ==
  ASSUME NEW t, NEW millis
  PROVE  DecodeTimestamp(MapFranzTimestampType(t), millis) =
           CASE t = 0 -> [kind |-> "CreateTime", millis |-> millis]
             [] t = 1 -> [kind |-> "LogAppendTime", millis |-> millis]
             [] OTHER -> [kind |-> "NotAvailable"]
BY DEF DecodeTimestamp, MapFranzTimestampType

\* A string is read back from its C string by its length.
LEMMA CStringCrosses ==
  ASSUME NEW s \in Seq(Nat)
  PROVE  BorrowBytes(Append(s, 0), [ptr |-> 0, len |-> Len(s)]) = s
<1> DEFINE t   == Append(s, 0)
           ref == [ptr |-> 0, len |-> Len(s)]
<1>1. /\ t \in Seq(Nat) /\ 0 + Len(s) <= Len(t) /\ 0 \in Nat /\ Len(s) \in Nat
      /\ \A j \in 1..Len(s) : t[0 + j] = s[j]
  OBVIOUS
<1>2. ref.ptr = 0 /\ ref.len = Len(s)
  OBVIOUS
<1> HIDE DEF t, ref
<1>3. SubSeq(t, 0 + 1, 0 + Len(s)) = s
  BY <1>1, ReadBack
<1>4. CASE Len(s) = 0
  <2>1. s = <<>> /\ ref.len <= 0
    BY <1>2, <1>4
  <2>2. BorrowBytes(t, ref) = <<>>
    BY <2>1 DEF BorrowBytes
  <2> QED  BY <2>1, <2>2 DEF t, ref
<1>5. CASE Len(s) # 0
  <2>1. ~(ref.ptr = NullPtr \/ ref.len <= 0)
    BY <1>1, <1>2, <1>5 DEF NullPtr
  <2>2. BorrowBytes(t, ref) = SubSeq(t, ref.ptr + 1, ref.ptr + ref.len)
    BY <2>1, Zenon DEF BorrowBytes
  <2> QED  BY <1>2, <1>3, <2>2 DEF t, ref
<1> QED  BY <1>4, <1>5

\* The adapter's key is a byte string.
LEMMA KeyIsText ==
  ASSUME NEW rec, rec.key \in Seq(Nat) \cup {Null}, rec.partition \in Nat
  PROVE  EnvelopeKey(rec) \in Seq(Nat)
<1>1. Decimal(rec.partition) \in Seq(Nat)
  <2>1. 2000 + rec.partition \in Nat
    OBVIOUS
  <2> QED  BY <2>1 DEF Decimal
<1>2. ASSUME rec.key \in Seq(Nat)  PROVE Base64(rec.key) \in Seq(Nat)
  BY <1>2 DEF Base64
<1> QED  BY <1>1, <1>2 DEF EnvelopeKey

\* What the trampolines borrow is the record, and its headers fit their block.
LEMMA RecordCrosses ==
  ASSUME NEW rec \in Records
  PROVE  Borrow(Marshal(rec)) = Faithful(rec) /\ ArenaHolds(Marshal(rec).headers)
<1>1. /\ rec.value \in Seq(Nat) \cup {Null} /\ rec.headers \in HeaderList
      /\ rec.topic = TopicName /\ EnvelopeKey(rec) \in Seq(Nat)
  BY RecordsAssumption, KeyIsText DEF HeaderList
<1> DEFINE w == Marshal(rec)
<1>2. /\ w.key = [ptr |-> 0, len |-> Len(EnvelopeKey(rec))]
      /\ w.keyBlock = Append(EnvelopeKey(rec), 0)
      /\ w.value = MarshalValue(rec.value)
      /\ w.bytes = IF rec.value = Null THEN <<>> ELSE rec.value
      /\ w.numbers[1] = rec.partition /\ w.numbers[2] = rec.offset
      /\ w.numbers[3] = MapFranzTimestampType(rec.tsType) /\ w.numbers[4] = rec.millis
      /\ w.headers = MarshalHeaders(rec.headers)
  BY DEF Marshal
<1> HIDE DEF w
<1>3. BorrowValue(w.bytes, w.value) = rec.value
  BY <1>1, <1>2, ValueCrosses
<1>4. DecodeTimestamp(w.numbers[3], w.numbers[4]) =
        CASE rec.tsType = 0 -> [kind |-> "CreateTime", millis |-> rec.millis]
          [] rec.tsType = 1 -> [kind |-> "LogAppendTime", millis |-> rec.millis]
          [] OTHER -> [kind |-> "NotAvailable"]
  BY <1>2, TimestampCrosses
<1>5. /\ ArenaHolds(w.headers)
      /\ BorrowHeaders(w.headers) =
           [i \in DOMAIN rec.headers |->
              [key |-> Utf8OrEmpty(rec.headers[i].key), value |-> rec.headers[i].value]]
  BY <1>1, <1>2, HeadersCross, NullAssumption
<1>6. BorrowBytes(w.keyBlock, w.key) =
        IF rec.key = Null THEN Decimal(rec.partition)
        ELSE IF InvalidRun \in ToSet(rec.key) THEN Base64(rec.key) ELSE rec.key
  <2>1. BorrowBytes(w.keyBlock, w.key) = EnvelopeKey(rec)
    BY <1>1, <1>2, CStringCrosses
  <2> QED  BY <2>1, Zenon DEF EnvelopeKey
<1>7. Borrow(w) = Faithful(rec)
  BY <1>1, <1>2, <1>3, <1>4, <1>5, <1>6, Zenon DEF Borrow, Faithful
<1> QED  BY <1>5, <1>7 DEF w

-----------------------------------------------------------------------------
(***************************************************************************)
(* The inductive invariant: what crosses was marshalled from the record,   *)
(* the buffer holds the cut of the text told, and the far end has a reason *)
(* only once it has been made of the buffer.                               *)
(***************************************************************************)
CrossingInv ==
  /\ step \in {"arrived", "processing", "failed"} => record \in Records
  /\ seen # Null => record \in Records /\ seen = Borrow(Marshal(record))
  /\ wire # Null => record \in Records /\ wire = Marshal(record)
  /\ told # Null => told \in Texts /\ CutRight(told, errBuf)
  /\ step \in {"arrived", "processing", "failed"} => reason = Null
  /\ reason # Null => reason = TextOrFallback(errBuf)

LEMMA CrossingStarts == NoticesInit => CrossingInv
BY DEF NoticesInit, Init, CrossingInv

LEMMA CrossingHolds == CrossingInv /\ [NoticesNext]_allVars => CrossingInv'
<1> SUFFICES ASSUME CrossingInv, [NoticesNext]_allVars PROVE CrossingInv'
  OBVIOUS
<1>1. ASSUME NEW text \in Texts, InitError(text)  PROVE CrossingInv'
  <2>1. CutRight(text, WriteInitErr(text))
    BY TextsAssumption, WriteInitErrCuts
  <2> QED  BY <1>1, <2>1 DEF CrossingInv, InitError
<1>2. ASSUME NEW text \in Texts, ProcessErr(text)  PROVE CrossingInv'
  <2>1. CutRight(text, WriteCErr(text))
    BY TextsAssumption, WriteCErrCuts
  <2> QED  BY <1>2, <2>1 DEF CrossingInv, ProcessErr
<1>3. CASE CallProcess
  BY <1>3 DEF CrossingInv, CallProcess
<1>4. CASE ProcessOk
  BY <1>4 DEF CrossingInv, ProcessOk
<1>5. CASE CallDeadLetter
  BY <1>5 DEF CrossingInv, CallDeadLetter
<1>6. CASE DeadLetterReturns
  BY <1>6 DEF CrossingInv, DeadLetterReturns
<1>7. ASSUME NEW what, NEW blocks, NEW deferred, NEW marshalled, NEW borrowed,
             Call(what, blocks, deferred, marshalled, borrowed)
      PROVE  CrossingInv'
  BY <1>7 DEF CrossingInv, Call
<1>8. CASE NoticeReturns
  BY <1>8 DEF CrossingInv, NoticeReturns
<1>9. ASSUME NEW doc, TakeSnapshot(doc)  PROVE CrossingInv'
  BY <1>9 DEF CrossingInv, TakeSnapshot
<1>10. CASE TakeSnapshotJson
  BY <1>10 DEF CrossingInv, TakeSnapshotJson
<1>11. CASE UNCHANGED allVars
  BY <1>11 DEF CrossingInv, allVars, vars
<1>12. CASE Next
  BY <1>1, <1>2, <1>3, <1>4, <1>5, <1>6, <1>12 DEF Next
<1>13. CASE \/ \E m \in Packets : SendMetrics(m)
            \/ \E m \in Flushes : SendBandwidth(m)
            \/ \E line \in Lines : EmitLog(line)
            \/ \E why \in Reasons \cup {Null} : NotifyShutdown(why)
            \/ \E text \in Reasons : EmergencyStop(text)
  BY <1>7, <1>13, Zenon DEF SendMetrics, SendBandwidth, EmitLog, NotifyShutdown, EmergencyStop
<1> QED  BY <1>8, <1>9, <1>10, <1>11, <1>12, <1>13 DEF NoticesNext

LEMMA CrossingAlways == NoticesSpec => []CrossingInv
<1> QED  BY CrossingStarts, CrossingHolds, PTL DEF NoticesSpec

(***************************************************************************)
(* For every record, both handlers are given the record itself: whatever   *)
(* marshalValue and marshalHeaders write, borrow_headers reads back.       *)
(***************************************************************************)
THEOREM RecordCrossesWhole == NoticesSpec => []HandlerSeesRecord
<1>1. CrossingInv => HandlerSeesRecord
  BY RecordCrosses DEF CrossingInv, HandlerSeesRecord
<1> QED  BY <1>1, CrossingAlways, PTL

(***************************************************************************)
(* For every list of headers, the two loops of marshalHeaders agree and no *)
(* pointer leaves the block.                                               *)
(***************************************************************************)
THEOREM ArenaFits == NoticesSpec => []ArenaHoldsHeaders
<1>1. CrossingInv => ArenaHoldsHeaders
  BY RecordCrosses DEF CrossingInv, ArenaHoldsHeaders, ArenaHolds
<1> QED  BY <1>1, CrossingAlways, PTL

(***************************************************************************)
(* For every text and every buffer of four bytes or more, write_c_err and  *)
(* truncateToRuneBoundary cut at a rune and lose nothing that would fit.   *)
(***************************************************************************)
THEOREM TextWhole == NoticesSpec => []TextCutAtRune
<1>1. CrossingInv => TextCutAtRune
  <2> SUFFICES ASSUME CrossingInv, told # Null PROVE TextCutAtRune
    BY DEF TextCutAtRune
  <2>1. CutRight(told, errBuf)
    BY DEF CrossingInv
  <2>2. ASSUME reason = Fallback  PROVE told = <<>>
    <3>1. Fallback \in Seq(Nat \X Nat)
      BY DEF Fallback
    <3>2. reason = TextOrFallback(errBuf)
      BY <2>2, <3>1, NullAssumption DEF CrossingInv
    <3> QED  BY <2>1, <2>2, <3>2 DEF CutRight, TextOrFallback
  <2> QED  BY <2>1, <2>2 DEF CutRight, TextCutAtRune
<1> QED  BY <1>1, CrossingAlways, PTL

-----------------------------------------------------------------------------
(* Notices: strings *)

\* A string is read back from its own block, decoded.
LEMMA StringCrosses ==
  ASSUME NEW strings, NEW i \in DOMAIN strings, strings[i] \in Seq(Nat)
  PROVE  OwnedStr(Blocks(strings), Ref(strings, i)) = Lossy(strings[i])
<1> DEFINE s == strings[i]
<1>1. s \in Seq(Nat) /\ Len(s) \in Nat
  OBVIOUS
<1>2. Ref(strings, i).ptr = i /\ Ref(strings, i).len = Len(s)
  BY DEF Ref
<1>3. Blocks(strings)[i] = Append(s, 0)
  BY DEF Blocks
<1> HIDE DEF s
<1>4. SubSeq(Append(s, 0), 1, Len(s)) = s
  <2> DEFINE t == Append(s, 0)
  <2>1. /\ t \in Seq(Nat) /\ 0 + Len(s) <= Len(t) /\ 0 \in Nat
        /\ \A j \in 1..Len(s) : t[0 + j] = s[j]
    BY <1>1
  <2> HIDE DEF t
  <2>2. SubSeq(t, 0 + 1, 0 + Len(s)) = s
    BY <1>1, <2>1, ReadBack
  <2>3. 0 + 1 = 1 /\ 0 + Len(s) = Len(s)
    BY <1>1
  <2> QED  BY <2>2, <2>3 DEF t
<1>5. CASE Len(s) = 0
  <2>1. s = <<>> /\ DOMAIN s = {}
    BY <1>1, <1>5
  <2>2. Lossy(s) = <<>>
    BY <2>1 DEF Lossy
  <2>3. OwnedStr(Blocks(strings), Ref(strings, i)) = <<>>
    BY <1>2, <1>5 DEF OwnedStr
  <2> QED  BY <2>2, <2>3 DEF s
<1>6. CASE Len(s) # 0
  <2>1. ~(Ref(strings, i).len <= 0)
    BY <1>1, <1>2, <1>6
  <2>2. OwnedStr(Blocks(strings), Ref(strings, i))
          = Lossy(SubSeq(Blocks(strings)[Ref(strings, i).ptr], 1, Ref(strings, i).len))
    BY <2>1, Zenon DEF OwnedStr
  <2>3. OwnedStr(Blocks(strings), Ref(strings, i)) = Lossy(SubSeq(Append(s, 0), 1, Len(s)))
    BY <1>2, <1>3, <2>2
  <2>4. OwnedStr(Blocks(strings), Ref(strings, i)) = Lossy(s)
    BY <1>4, <2>3
  <2> QED  BY <2>4 DEF s
<1> QED  BY <1>5, <1>6

LEMMA LossyKeeps ==
  ASSUME NEW text \in Seq(Nat), InvalidRun \notin ToSet(text)
  PROVE  Lossy(text) = text
<1>1. \A i \in DOMAIN text : text[i] # InvalidRun
  BY DEF ToSet
<1> QED  BY <1>1 DEF Lossy

-----------------------------------------------------------------------------
(* Notices: figures, log lines and reasons *)

\* The trait bits of a uint64 survive the sign they cross with.
LEMMA TraitBits ==
  ASSUME NEW n \in 0..(UInt64 - 1)
  PROVE  (IF 2 * n >= UInt64 THEN n - UInt64 ELSE n) % UInt64 = n
<1>1. UInt64 \in Nat /\ UInt64 > 0 /\ n \in Nat /\ n < UInt64
  BY TypesAssumption
<1>2. n % UInt64 = n
  BY <1>1
<1>3. (n - UInt64) % UInt64 = n
  BY <1>1
<1> QED  BY <1>2, <1>3

LEMMA MetricsCross == ASSUME NEW m \in Packets PROVE BorrowMetrics(MarshalMetrics(m)) = m
<1> DEFINE w == MarshalMetrics(m)
           n == m.traits
<1>1. m \in [traits : 0..(UInt64 - 1), queue_depth : Int, partition : Int, offset : Int,
             process_duration_ns : Int, deadletter_duration_ns : Int, read_time_ns : Int,
             process_start_time_ns : Int, watermark_advance_time_ns : Int]
  BY TypesAssumption
<1>2. /\ w[1] = IF 2 * n >= UInt64 THEN n - UInt64 ELSE n
      /\ w[2] = m.queue_depth /\ w[3] = m.partition /\ w[4] = m.offset
      /\ w[5] = m.process_duration_ns /\ w[6] = m.deadletter_duration_ns
      /\ w[7] = m.read_time_ns /\ w[8] = m.process_start_time_ns
      /\ w[9] = m.watermark_advance_time_ns
  BY DEF MarshalMetrics, Counters
<1>3. n \in 0..(UInt64 - 1)
  BY <1>1
<1> HIDE DEF w, n
<1>4. w[1] % UInt64 = n
  BY <1>2, <1>3, TraitBits
<1>5. BorrowMetrics(w) = m
  BY <1>1, <1>2, <1>4 DEF BorrowMetrics, n
<1> QED  BY <1>5 DEF w

LEMMA LevelCrosses ==
  ASSUME NEW level \in {"debug", "info", "warn", "error"}
  PROVE  RouteLevel(LevelNumber(level)) = level
<1>1. \E n \in 0..3 : Levels[n + 1] = level
  <2>1. Levels[1] = "debug" /\ Levels[2] = "info" /\ Levels[3] = "warn" /\ Levels[4] = "error"
    BY DEF Levels
  <2>2. 0 + 1 = 1 /\ 1 + 1 = 2 /\ 2 + 1 = 3 /\ 3 + 1 = 4
    OBVIOUS
  <2>3. 0 \in 0..3 /\ 1 \in 0..3 /\ 2 \in 0..3 /\ 3 \in 0..3
    OBVIOUS
  <2> QED  BY <2>1, <2>2, <2>3
<1>2. Levels[LevelNumber(level) + 1] = level
  BY <1>1 DEF LevelNumber
<1> QED  BY <1>2 DEF RouteLevel

LEMMA OneString ==
  ASSUME NEW text \in Seq(Nat)
  PROVE  OwnedStr(Blocks(<<text>>), Ref(<<text>>, 1)) = Lossy(text)
<1>1. 1 \in DOMAIN <<text>> /\ <<text>>[1] = text
  OBVIOUS
<1> QED  BY <1>1, StringCrosses

LEMMA ReasonCrosses ==
  ASSUME NEW text \in Seq(Nat)
  PROVE  BorrowReason(Ref(<<text>>, 1), Blocks(<<text>>)) =
           IF text = <<>> THEN Unknown ELSE Lossy(text)
<1>1. Ref(<<text>>, 1).len = Len(text) /\ Len(text) \in Nat
  BY DEF Ref
<1>2. Ref(<<text>>, 1).len <= 0 <=> text = <<>>
  BY <1>1
<1> QED  BY <1>2, OneString, Zenon DEF BorrowReason

LEMMA OwnTexts ==
  /\ GracefulReason \in Seq(Nat) /\ GracefulReason # <<>> /\ Lossy(GracefulReason) = GracefulReason
  /\ DefaultReason \in Seq(Nat) /\ DefaultReason # <<>> /\ Lossy(DefaultReason) = DefaultReason
<1>1. ASSUME NEW n \in Nat, n # InvalidRun
      PROVE  <<n>> \in Seq(Nat) /\ <<n>> # <<>> /\ Lossy(<<n>>) = <<n>>
  BY <1>1 DEF Lossy
<1> QED  BY <1>1 DEF GracefulReason, DefaultReason, InvalidRun

-----------------------------------------------------------------------------
(* Notices: bandwidth *)

\* Where parts of one length w are laid in a flattened sequence.
LEMMA EvenlyLaid ==
  ASSUME NEW T, NEW parts \in Seq(Seq(T)), NEW w \in {2, 4},
         \A q \in 1..Len(parts) : Len(parts[q]) = w
  PROVE  /\ FlattenSeq(parts) \in Seq(T)
         /\ Len(FlattenSeq(parts)) = w * Len(parts)
         /\ \A q \in 1..Len(parts) : \A f \in 1..w :
              FlattenSeq(parts)[w * (q - 1) + f] = parts[q][f]
<1> DEFINE flat == FlattenSeq(parts)
           N == Len(parts)
<1>1. N \in Nat
  OBVIOUS
<1>2. PICK c : EndsAt(c, parts, N)
  BY <1>1, EndsExist
<1>3. Laid(flat, T, c, parts, N)
  BY <1>2, FlattenLays
<1>4. c[0] = 0 /\ \A q \in 1..N : c[q] = c[q - 1] + w
  <2>1. \A q \in 0..N : c[q] = IF q = 0 THEN 0 ELSE c[q - 1] + Len(parts[q])
    BY <1>2, Zenon DEF EndsAt
  <2>2. 0 \in 0..N /\ \A q \in 1..N : q \in 0..N /\ q # 0
    BY <1>1
  <2> QED  BY <2>1, <2>2
<1> HIDE DEF flat, N
<1>5. \A q \in 0..N : c[q] = w * q
  <2> DEFINE S == {n \in Nat : n <= N => c[n] = w * n}
  <2>1. 0 \in S
    BY <1>4
  <2>2. ASSUME NEW n \in S  PROVE n + 1 \in S
    <3>1. n \in Nat /\ (n <= N => c[n] = w * n) /\ (n + 1) - 1 = n
      OBVIOUS
    <3>2. CASE n + 1 <= N
      <4>1. n <= N /\ n + 1 \in 1..N
        BY <1>1, <3>1, <3>2
      <4>2. c[n + 1] = w * n + w
        BY <1>4, <3>1, <4>1
      <4> QED  BY <3>1, <4>2
    <3> QED  BY <3>1, <3>2
  <2>3. \A n \in Nat : n \in S
    <3> HIDE DEF S
    <3> QED  BY <2>1, <2>2, Induction DEF S
  <2> QED  BY <1>1, <2>3
<1>6. flat \in Seq(T) /\ Len(flat) = w * N
  BY <1>1, <1>3, <1>5 DEF Laid
<1>7. ASSUME NEW q \in 1..N, NEW f \in 1..w
      PROVE  flat[w * (q - 1) + f] = parts[q][f]
  <2>1. flat[c[q - 1] + f] = parts[q][f]
    BY <1>3 DEF Laid, N
  <2>2. c[q - 1] = w * (q - 1)
    BY <1>1, <1>5
  <2> QED  BY <2>1, <2>2
<1> QED  BY <1>6, <1>7 DEF flat, N

FlushPacket ==
  [ts_unix_ns : Int, stats_interval_ns : Int,
   brokers    : Seq([id : Seq(Nat), host : Seq(Nat), port : Seq(Nat), rack : Seq(Nat)]),
   partitions : Seq([ts_unix_ns : Int, received_bytes : Int, transmitted_bytes : Int,
                     received_message_count : Int, compressed_bytes : Int,
                     uncompressed_bytes : Int, id : Int,
                     leader : Seq(Nat), compression : Seq(Nat)]),
   metrics_id : Seq(Nat), topic : Seq(Nat), consumer_group : Seq(Nat)]

\* Every string of a packet is at the index MarshalBandwidth gives it.
LEMMA TextsAt ==
  ASSUME NEW m \in FlushPacket
  PROVE  LET texts   == PacketTexts(m)
             brokers == 4 * Len(m.brokers)
             last    == brokers + 2 * Len(m.partitions)
         IN  /\ texts \in Seq(Seq(Nat)) /\ Len(texts) = last + 3
             /\ \A i \in 1..Len(m.brokers) : \A f \in 1..4 :
                  texts[4 * (i - 1) + f] = BrokerTexts(m.brokers[i])[f]
             /\ \A i \in 1..Len(m.partitions) : \A f \in 1..2 :
                  texts[brokers + 2 * (i - 1) + f] = PartitionTexts(m.partitions[i])[f]
             /\ texts[last + 1] = m.metrics_id
             /\ texts[last + 2] = IF m.topic = <<>> THEN TopicName ELSE m.topic
             /\ texts[last + 3] = m.consumer_group
<1> DEFINE B == [i \in DOMAIN m.brokers |-> BrokerTexts(m.brokers[i])]
           P == [i \in DOMAIN m.partitions |-> PartitionTexts(m.partitions[i])]
           E == <<m.metrics_id, IF m.topic = <<>> THEN TopicName ELSE m.topic, m.consumer_group>>
           nb == Len(m.brokers)
           np == Len(m.partitions)
           fb == FlattenSeq(B)
           fp == FlattenSeq(P)
           Broker == [id : Seq(Nat), host : Seq(Nat), port : Seq(Nat), rack : Seq(Nat)]
           Partition == [ts_unix_ns : Int, received_bytes : Int, transmitted_bytes : Int,
                         received_message_count : Int, compressed_bytes : Int,
                         uncompressed_bytes : Int, id : Int,
                         leader : Seq(Nat), compression : Seq(Nat)]
           Str == Seq(Nat)
<1>1. /\ m.brokers \in Seq(Broker) /\ m.partitions \in Seq(Partition)
      /\ m.metrics_id \in Seq(Nat) /\ m.topic \in Seq(Nat) /\ m.consumer_group \in Seq(Nat)
  BY DEF FlushPacket
<1>2. nb \in Nat /\ np \in Nat /\ DOMAIN m.brokers = 1..nb /\ DOMAIN m.partitions = 1..np
  BY <1>1
<1>3. ASSUME NEW i \in 1..nb
      PROVE  /\ BrokerTexts(m.brokers[i]) \in Seq(Seq(Nat))
             /\ Len(BrokerTexts(m.brokers[i])) = 4
  <2>1. m.brokers[i] \in Broker
    <3> HIDE DEF Broker
    <3> QED  BY <1>1
  <2> QED  BY <2>1 DEF BrokerTexts
<1>4. ASSUME NEW i \in 1..np
      PROVE  /\ PartitionTexts(m.partitions[i]) \in Seq(Seq(Nat))
             /\ Len(PartitionTexts(m.partitions[i])) = 2
  <2>1. m.partitions[i] \in Partition
    <3> HIDE DEF Partition
    <3> QED  BY <1>1
  <2> QED  BY <2>1 DEF PartitionTexts
<1>5. B \in Seq(Seq(Seq(Nat))) /\ Len(B) = nb
      /\ \A i \in 1..nb : B[i] = BrokerTexts(m.brokers[i]) /\ Len(B[i]) = 4
  BY <1>2, <1>3
<1>6. P \in Seq(Seq(Seq(Nat))) /\ Len(P) = np
      /\ \A i \in 1..np : P[i] = PartitionTexts(m.partitions[i]) /\ Len(P[i]) = 2
  BY <1>2, <1>4
<1>7. E \in Seq(Seq(Nat)) /\ Len(E) = 3 /\ E[1] = m.metrics_id
      /\ E[2] = (IF m.topic = <<>> THEN TopicName ELSE m.topic) /\ E[3] = m.consumer_group
  BY <1>1, TypesAssumption
<1>8. PacketTexts(m) = (fb \o fp) \o E
  BY DEF PacketTexts
<1> HIDE DEF B, P, E, nb, np
<1>9. /\ fb \in Seq(Seq(Nat)) /\ Len(fb) = 4 * nb
      /\ \A i \in 1..nb : \A f \in 1..4 : fb[4 * (i - 1) + f] = B[i][f]
  <2>1. /\ B \in Seq(Seq(Str)) /\ 4 \in {2, 4} /\ Len(B) = nb
        /\ \A q \in 1..Len(B) : Len(B[q]) = 4
    BY <1>5
  <2> HIDE DEF Str
  <2>2. /\ fb \in Seq(Str) /\ Len(fb) = 4 * Len(B)
        /\ \A i \in 1..Len(B) : \A f \in 1..4 : fb[4 * (i - 1) + f] = B[i][f]
    BY <2>1, EvenlyLaid, Zenon
  <2> QED  BY <2>1, <2>2 DEF Str
<1>10. /\ fp \in Seq(Seq(Nat)) /\ Len(fp) = 2 * np
       /\ \A i \in 1..np : \A f \in 1..2 : fp[2 * (i - 1) + f] = P[i][f]
  <2>1. /\ P \in Seq(Seq(Str)) /\ 2 \in {2, 4} /\ Len(P) = np
        /\ \A q \in 1..Len(P) : Len(P[q]) = 2
    BY <1>6
  <2> HIDE DEF Str
  <2>2. /\ fp \in Seq(Str) /\ Len(fp) = 2 * Len(P)
        /\ \A i \in 1..Len(P) : \A f \in 1..2 : fp[2 * (i - 1) + f] = P[i][f]
    BY <2>1, EvenlyLaid, Zenon
  <2> QED  BY <2>1, <2>2 DEF Str
<1> HIDE DEF fb, fp
<1> DEFINE fbp == fb \o fp
           texts == fbp \o E
<1>11. /\ fbp \in Seq(Seq(Nat)) /\ Len(fbp) = 4 * nb + 2 * np
       /\ \A i \in 1..(4 * nb) : fbp[i] = fb[i]
       /\ \A i \in 1..(2 * np) : fbp[4 * nb + i] = fp[i]
  <2> HIDE DEF Str
  <2>1. fb \in Seq(Str) /\ fp \in Seq(Str)
    BY <1>9, <1>10 DEF Str
  <2>2. Len(fb) = 4 * nb /\ Len(fp) = 2 * np
    BY <1>9, <1>10 DEF Str
  <2>3. fbp = fb \o fp
    OBVIOUS
  <2> HIDE DEF fbp
  <2>4. /\ fbp \in Seq(Str) /\ Len(fbp) = Len(fb) + Len(fp)
        /\ \A i \in 1..Len(fb) : fbp[i] = fb[i]
        /\ \A i \in 1..Len(fp) : fbp[Len(fb) + i] = fp[i]
    BY <2>1, <2>3, ConcatAt
  <2> QED  BY <2>2, <2>4 DEF Str
<1> HIDE DEF fbp
<1>12. /\ texts \in Seq(Seq(Nat)) /\ Len(texts) = 4 * nb + 2 * np + 3
       /\ \A i \in 1..(4 * nb + 2 * np) : texts[i] = fbp[i]
       /\ \A i \in 1..3 : texts[4 * nb + 2 * np + i] = E[i]
  <2> HIDE DEF Str
  <2>1. fbp \in Seq(Str) /\ E \in Seq(Str)
    BY <1>7, <1>11 DEF Str
  <2>2. Len(fbp) = 4 * nb + 2 * np /\ Len(E) = 3
    BY <1>7, <1>11 DEF Str
  <2>3. texts = fbp \o E
    OBVIOUS
  <2> HIDE DEF texts
  <2>4. /\ texts \in Seq(Str) /\ Len(texts) = Len(fbp) + Len(E)
        /\ \A i \in 1..Len(fbp) : texts[i] = fbp[i]
        /\ \A i \in 1..Len(E) : texts[Len(fbp) + i] = E[i]
    BY <2>1, <2>3, ConcatAt
  <2> QED  BY <2>2, <2>4 DEF Str
<1> HIDE DEF texts
<1>13. ASSUME NEW i \in 1..nb, NEW f \in 1..4
       PROVE  texts[4 * (i - 1) + f] = BrokerTexts(m.brokers[i])[f]
  <2> DEFINE j == 4 * (i - 1) + f
  <2>1. j \in 1..(4 * nb) /\ j \in 1..(4 * nb + 2 * np)
    BY <1>2
  <2>2. fb[j] = BrokerTexts(m.brokers[i])[f]
    BY <1>5, <1>9
  <2> HIDE DEF j
  <2>3. texts[j] = fb[j]
    BY <1>11, <1>12, <2>1
  <2> QED  BY <2>2, <2>3 DEF j
<1>14. ASSUME NEW i \in 1..np, NEW f \in 1..2
       PROVE  texts[4 * nb + 2 * (i - 1) + f] = PartitionTexts(m.partitions[i])[f]
  <2> DEFINE j == 2 * (i - 1) + f
  <2>1. j \in 1..(2 * np) /\ 4 * nb + j \in 1..(4 * nb + 2 * np)
        /\ 4 * nb + 2 * (i - 1) + f = 4 * nb + j
    BY <1>2
  <2>2. fp[j] = PartitionTexts(m.partitions[i])[f]
    BY <1>6, <1>10
  <2> HIDE DEF j
  <2>3. texts[4 * nb + j] = fp[j]
    BY <1>11, <1>12, <2>1
  <2> QED  BY <2>1, <2>2, <2>3
<1>15. /\ texts[4 * nb + 2 * np + 1] = E[1]
       /\ texts[4 * nb + 2 * np + 2] = E[2]
       /\ texts[4 * nb + 2 * np + 3] = E[3]
  BY <1>12
<1>16. PacketTexts(m) = texts
  BY <1>8 DEF texts, fbp
<1> QED  BY <1>7, <1>12, <1>13, <1>14, <1>15, <1>16 DEF nb, np

\* Every string and figure of a flush reaches the host in its own place.
LEMMA BandwidthCrosses ==
  ASSUME NEW m \in Flushes
  PROVE  BorrowBandwidth(MarshalBandwidth(m), Blocks(PacketTexts(m)))
           = Told([kind |-> "bandwidth", sent |-> m])
<1> DEFINE texts == PacketTexts(m)
           w     == MarshalBandwidth(m)
           nb    == Len(m.brokers)
           np    == Len(m.partitions)
           own(ref) == OwnedStr(Blocks(texts), ref)
           Broker == [id : Seq(Nat), host : Seq(Nat), port : Seq(Nat), rack : Seq(Nat)]
           Partition == [ts_unix_ns : Int, received_bytes : Int, transmitted_bytes : Int,
                         received_message_count : Int, compressed_bytes : Int,
                         uncompressed_bytes : Int, id : Int,
                         leader : Seq(Nat), compression : Seq(Nat)]
<1>1. m \in FlushPacket
  BY TypesAssumption DEF FlushPacket
<1>2. /\ m.brokers \in Seq(Broker) /\ m.partitions \in Seq(Partition)
      /\ m.metrics_id \in Seq(Nat) /\ m.topic \in Seq(Nat) /\ m.consumer_group \in Seq(Nat)
  BY <1>1 DEF FlushPacket
<1>3. /\ texts \in Seq(Seq(Nat)) /\ Len(texts) = 4 * nb + 2 * np + 3
      /\ \A i \in 1..nb : \A f \in 1..4 : texts[4 * (i - 1) + f] = BrokerTexts(m.brokers[i])[f]
      /\ \A i \in 1..np : \A f \in 1..2 :
           texts[4 * nb + 2 * (i - 1) + f] = PartitionTexts(m.partitions[i])[f]
      /\ texts[4 * nb + 2 * np + 1] = m.metrics_id
      /\ texts[4 * nb + 2 * np + 2] = IF m.topic = <<>> THEN TopicName ELSE m.topic
      /\ texts[4 * nb + 2 * np + 3] = m.consumer_group
  BY <1>1, TextsAt
<1>4. /\ nb \in Nat /\ np \in Nat
      /\ DOMAIN m.brokers = 1..nb /\ DOMAIN m.partitions = 1..np
      /\ (m.brokers = <<>> <=> nb = 0) /\ (m.partitions = <<>> <=> np = 0)
  BY <1>2
<1>5. /\ \A i \in 1..nb : m.brokers[i] \in Broker
      /\ \A i \in 1..np : m.partitions[i] \in Partition
  <2> HIDE DEF Broker, Partition
  <2> QED  BY <1>2
<1> HIDE DEF texts, nb, np
<1>6. \A j \in 1..(4 * nb + 2 * np + 3) : own(Ref(texts, j)) = Lossy(texts[j])
  <2> SUFFICES ASSUME NEW j \in 1..(4 * nb + 2 * np + 3)
               PROVE  own(Ref(texts, j)) = Lossy(texts[j])
    OBVIOUS
  <2>1. j \in DOMAIN texts /\ texts[j] \in Seq(Nat)
    <3> DEFINE Str == Seq(Nat)
    <3>1. texts \in Seq(Str) /\ j \in 1..Len(texts)
      BY <1>3
    <3> HIDE DEF Str
    <3>2. j \in DOMAIN texts /\ texts[j] \in Str
      BY <3>1
    <3> QED  BY <3>2 DEF Str
  <2> QED  BY <2>1, StringCrosses
<1>7. /\ w.brokers = IF m.brokers = <<>> THEN NullPtr
                     ELSE [i \in DOMAIN m.brokers |->
                              [f \in 1..4 |-> Ref(texts, 4 * (i - 1) + f)]]
      /\ w.partitions = IF m.partitions = <<>> THEN NullPtr
                        ELSE [i \in DOMAIN m.partitions |->
                              [figures |-> PartitionFigures(m.partitions[i]),
                               strings |-> [f \in 1..2 |-> Ref(texts, 4 * nb + 2 * (i - 1) + f)]]]
      /\ w.numbers[1] = m.ts_unix_ns /\ w.numbers[2] = Milliseconds(m.stats_interval_ns)
      /\ w.counts = <<nb, np>>
      /\ w.strings = [f \in 1..3 |-> Ref(texts, 4 * nb + 2 * np + f)]
  BY DEF MarshalBandwidth, BandwidthNumbers, texts, nb, np
<1> HIDE DEF w, own
<1>8. ASSUME NEW i \in 1..nb
      PROVE  [id |-> own(w.brokers[i][1]), host |-> own(w.brokers[i][2]),
              port |-> own(w.brokers[i][3]), rack |-> own(w.brokers[i][4])]
               = LossyFields(m.brokers[i])
  <2>1. m.brokers # <<>>
    BY <1>4
  <2>2. w.brokers[i] = [f \in 1..4 |-> Ref(texts, 4 * (i - 1) + f)]
    BY <1>4, <1>7, <2>1
  <2>3. ASSUME NEW f \in 1..4
        PROVE  own(w.brokers[i][f]) = Lossy(BrokerTexts(m.brokers[i])[f])
    <3> DEFINE j == 4 * (i - 1) + f
    <3>1. j \in 1..(4 * nb + 2 * np + 3)
      BY <1>4
    <3>2. w.brokers[i][f] = Ref(texts, j) /\ texts[j] = BrokerTexts(m.brokers[i])[f]
      BY <1>3, <2>2
    <3> HIDE DEF j
    <3> QED  BY <1>6, <3>1, <3>2
  <2> DEFINE b == m.brokers[i]
  <2>4. /\ BrokerTexts(b)[1] = b.id /\ BrokerTexts(b)[2] = b.host
        /\ BrokerTexts(b)[3] = b.port /\ BrokerTexts(b)[4] = b.rack
    BY DEF BrokerTexts
  <2>5. b \in Broker
    BY <1>5
  <2>6. LossyFields(b) = [id |-> Lossy(b.id), host |-> Lossy(b.host),
                          port |-> Lossy(b.port), rack |-> Lossy(b.rack)]
    BY <2>5 DEF LossyFields
  <2>7. 1 \in 1..4 /\ 2 \in 1..4 /\ 3 \in 1..4 /\ 4 \in 1..4
    OBVIOUS
  <2>8. /\ own(w.brokers[i][1]) = Lossy(b.id) /\ own(w.brokers[i][2]) = Lossy(b.host)
        /\ own(w.brokers[i][3]) = Lossy(b.port) /\ own(w.brokers[i][4]) = Lossy(b.rack)
    BY <2>3, <2>4, <2>7
  <2> QED  BY <2>6, <2>8
<1>9. ASSUME NEW i \in 1..np
      PROVE  /\ w.partitions[i].figures = PartitionFigures(m.partitions[i])
             /\ own(w.partitions[i].strings[1]) = Lossy(m.partitions[i].leader)
             /\ own(w.partitions[i].strings[2]) = Lossy(m.partitions[i].compression)
  <2>1. m.partitions # <<>>
    BY <1>4
  <2>2. /\ w.partitions[i].figures = PartitionFigures(m.partitions[i])
        /\ w.partitions[i].strings = [f \in 1..2 |-> Ref(texts, 4 * nb + 2 * (i - 1) + f)]
    <3>1. w.partitions = [k \in 1..np |->
                            [figures |-> PartitionFigures(m.partitions[k]),
                             strings |-> [f \in 1..2 |-> Ref(texts, 4 * nb + 2 * (k - 1) + f)]]]
      BY <1>4, <1>7, <2>1, Zenon
    <3>2. w.partitions[i] = [figures |-> PartitionFigures(m.partitions[i]),
                             strings |-> [f \in 1..2 |-> Ref(texts, 4 * nb + 2 * (i - 1) + f)]]
      BY <3>1, Zenon
    <3> QED  BY <3>2
  <2>3. ASSUME NEW f \in 1..2
        PROVE  own(w.partitions[i].strings[f]) = Lossy(PartitionTexts(m.partitions[i])[f])
    <3> DEFINE j == 4 * nb + 2 * (i - 1) + f
    <3>1. j \in 1..(4 * nb + 2 * np + 3)
      BY <1>4
    <3>2. w.partitions[i].strings[f] = Ref(texts, j) /\ texts[j] = PartitionTexts(m.partitions[i])[f]
      BY <1>3, <2>2
    <3> HIDE DEF j
    <3> QED  BY <1>6, <3>1, <3>2
  <2> DEFINE p == m.partitions[i]
  <2>4. PartitionTexts(p)[1] = p.leader /\ PartitionTexts(p)[2] = p.compression
    BY DEF PartitionTexts
  <2>5. 1 \in 1..2 /\ 2 \in 1..2
    OBVIOUS
  <2> QED  BY <2>2, <2>3, <2>4, <2>5
<1>10. /\ own(w.strings[1]) = Lossy(m.metrics_id)
       /\ own(w.strings[2]) = IF m.topic = <<>> THEN TopicName ELSE Lossy(m.topic)
       /\ own(w.strings[3]) = Lossy(m.consumer_group)
  <2>1. /\ w.strings[1] = Ref(texts, 4 * nb + 2 * np + 1)
        /\ w.strings[2] = Ref(texts, 4 * nb + 2 * np + 2)
        /\ w.strings[3] = Ref(texts, 4 * nb + 2 * np + 3)
    BY <1>7
  <2>2. /\ 4 * nb + 2 * np + 1 \in 1..(4 * nb + 2 * np + 3)
        /\ 4 * nb + 2 * np + 2 \in 1..(4 * nb + 2 * np + 3)
        /\ 4 * nb + 2 * np + 3 \in 1..(4 * nb + 2 * np + 3)
    BY <1>4
  <2>3. Lossy(TopicName) = TopicName
    BY TypesAssumption, LossyKeeps
  <2> QED  BY <1>3, <1>6, <2>1, <2>2, <2>3
<1>11. w.counts[1] = nb /\ w.counts[2] = np
  BY <1>7
<1> DEFINE bs == IF w.counts[1] <= 0 THEN <<>>
                  ELSE [i \in 1..w.counts[1] |->
                          [id |-> own(w.brokers[i][1]), host |-> own(w.brokers[i][2]),
                           port |-> own(w.brokers[i][3]), rack |-> own(w.brokers[i][4])]]
           ps == IF w.counts[2] <= 0 THEN <<>>
                  ELSE [i \in 1..w.counts[2] |->
                          [ts_unix_ns |-> w.partitions[i].figures[1],
                           received_bytes |-> w.partitions[i].figures[2],
                           transmitted_bytes |-> w.partitions[i].figures[3],
                           received_message_count |-> w.partitions[i].figures[4],
                           compressed_bytes |-> w.partitions[i].figures[5],
                           uncompressed_bytes |-> w.partitions[i].figures[6],
                           id |-> w.partitions[i].figures[7],
                           leader |-> own(w.partitions[i].strings[1]),
                           compression |-> own(w.partitions[i].strings[2])]]
<1>12. bs = [i \in DOMAIN m.brokers |-> LossyFields(m.brokers[i])]
  <2>1. CASE nb = 0
    <3>1. DOMAIN m.brokers = {}
      BY <1>4, <2>1
    <3> QED  BY <1>11, <2>1, <3>1
  <2>2. CASE nb # 0
    <3>1. ~(w.counts[1] <= 0)
      BY <1>4, <1>11, <2>2
    <3> QED  BY <1>4, <1>8, <1>11, <3>1
  <2> QED  BY <2>1, <2>2
<1>17. ASSUME NEW i \in 1..np
       PROVE  [ts_unix_ns |-> w.partitions[i].figures[1],
               received_bytes |-> w.partitions[i].figures[2],
               transmitted_bytes |-> w.partitions[i].figures[3],
               received_message_count |-> w.partitions[i].figures[4],
               compressed_bytes |-> w.partitions[i].figures[5],
               uncompressed_bytes |-> w.partitions[i].figures[6],
               id |-> w.partitions[i].figures[7],
               leader |-> own(w.partitions[i].strings[1]),
               compression |-> own(w.partitions[i].strings[2])] = PartitionTold(m.partitions[i])
  <2> DEFINE p == m.partitions[i]
             g == w.partitions[i].figures
  <2>2. /\ g[1] = p.ts_unix_ns /\ g[2] = p.received_bytes /\ g[3] = p.transmitted_bytes
        /\ g[4] = p.received_message_count /\ g[5] = p.compressed_bytes
        /\ g[6] = p.uncompressed_bytes /\ g[7] = p.id
    BY <1>9 DEF PartitionFigures
  <2>4. own(w.partitions[i].strings[1]) = Lossy(p.leader)
        /\ own(w.partitions[i].strings[2]) = Lossy(p.compression)
    BY <1>9
  <2> HIDE DEF p, g
  <2> QED  BY <2>2, <2>4 DEF p, g, PartitionTold
<1>13. ps = [i \in DOMAIN m.partitions |-> PartitionTold(m.partitions[i])]
  <2>1. CASE np = 0
    <3>1. DOMAIN m.partitions = {}
      BY <1>4, <2>1
    <3> QED  BY <1>11, <2>1, <3>1
  <2>2. CASE np # 0
    <3>1. ~(w.counts[2] <= 0)
      BY <1>4, <1>11, <2>2
    <3> QED  BY <1>4, <1>11, <1>17, <3>1
  <2> QED  BY <2>1, <2>2
<1>14. BorrowBandwidth(w, Blocks(texts)) =
         [ts_unix_ns |-> w.numbers[1], stats_interval_ms |-> w.numbers[2],
          brokers |-> bs, partitions |-> ps, metrics_id |-> own(w.strings[1]),
          topic |-> own(w.strings[2]), consumer_group |-> own(w.strings[3])]
  BY DEF BorrowBandwidth, own
<1> HIDE DEF bs, ps
<1>15. BorrowBandwidth(w, Blocks(texts)) = FlushTold(m)
  BY <1>7, <1>10, <1>12, <1>13, <1>14 DEF FlushTold
<1> QED  BY <1>15 DEF w, texts, Told

-----------------------------------------------------------------------------
(***************************************************************************)
(* The inductive invariant of the notices: the host was given what the     *)
(* notice says, and every block of the call is to be freed; a snapshot in  *)
(* flight is the one taken, or NULL where there was none; and only a call  *)
(* that is over has a result.                                              *)
(***************************************************************************)
NoticeInv ==
  /\ HostIsTold
  /\ result # Null => step = "over"
  /\ step = "notified" => DOMAIN heap \subseteq frees
  /\ step = "snapshot" =>
       \/ notice.sent = Null /\ args = NullPtr
       \/ notice.sent # Null /\ args = 1 /\ heap = <<notice.sent>>

\* A notice leaves the bridge idle and is given as it was sent.
LEMMA CallTells ==
  ASSUME NoticeInv, NEW what, NEW blocks, NEW deferred, NEW marshalled, NEW borrowed,
         Call(what, blocks, deferred, marshalled, borrowed),
         borrowed = Told(what), DOMAIN blocks \subseteq deferred
  PROVE  NoticeInv'
<1>1. /\ step = "idle" /\ step' = "notified" /\ result' = result
      /\ notice' = what /\ given' = borrowed /\ heap' = blocks /\ frees' = deferred
  BY DEF Call
<1>2. result = Null
  BY <1>1 DEF NoticeInv
<1>3. result' # [error |-> -2]
  BY <1>1, <1>2, SnapshotAssumption
<1>4. given' = Told(notice')
  BY <1>1
<1> QED  BY <1>1, <1>2, <1>3, <1>4 DEF NoticeInv, HostIsTold

\* One string is one block; and bandwidthSink's list names every block of a
\* packet.
LEMMA OneBlock == ASSUME NEW text PROVE DOMAIN Blocks(<<text>>) \subseteq {1}
BY DEF Blocks

LEMMA FreesAll ==
  ASSUME NEW m \in Flushes
  PROVE  DOMAIN (Blocks(PacketTexts(m)) \o StructArrays(MarshalBandwidth(m))) \subseteq PacketFrees(m)
<1> DEFINE texts  == PacketTexts(m)
           arrays == StructArrays(MarshalBandwidth(m))
           blocks == Blocks(texts)
           n      == Len(texts)
<1>1. texts \in Seq(Seq(Nat)) /\ n \in Nat
  <2>1. m \in FlushPacket
    BY TypesAssumption DEF FlushPacket
  <2>2. texts \in Seq(Seq(Nat))
    BY <2>1, TextsAt
  <2> HIDE DEF texts
  <2> QED  BY <2>2
<1>2. /\ arrays \in Seq({MarshalBandwidth(m).brokers, MarshalBandwidth(m).partitions})
      /\ Len(arrays) \in Nat
  <2> DEFINE v == MarshalBandwidth(m)
  <2>1. ASSUME NEW a, NEW b, NEW T, a \in T, b \in T
        PROVE  /\ <<>> \o <<>> \in Seq(T) /\ <<a>> \o <<>> \in Seq(T)
               /\ <<>> \o <<b>> \in Seq(T) /\ <<a>> \o <<b>> \in Seq(T)
    BY <2>1
  <2> HIDE DEF v
  <2>2. arrays \in Seq({v.brokers, v.partitions})
    BY <2>1 DEF StructArrays, v
  <2> QED  BY <2>2 DEF v
<1>3. PacketFrees(m) = 1..n \cup {n + k : k \in 1..Len(arrays)}
  BY DEF PacketFrees
<1> HIDE DEF texts, arrays
<1>4. DOMAIN texts = 1..n
  BY <1>1
<1>5. DOMAIN blocks = 1..n /\ Len(blocks) = n
  BY <1>1, <1>4 DEF Blocks
<1> HIDE DEF blocks, n
<1>6. DOMAIN (blocks \o arrays) = 1..(n + Len(arrays))
  BY <1>2, <1>5
<1>7. 1..(n + Len(arrays)) \subseteq 1..n \cup {n + k : k \in 1..Len(arrays)}
  <2> DEFINE l == Len(arrays)
  <2>1. l \in Nat /\ n \in Nat
    BY <1>1, <1>2
  <2> HIDE DEF l
  <2>2. ASSUME NEW b \in 1..(n + l), b \notin 1..n  PROVE b - n \in 1..l /\ b = n + (b - n)
    BY <2>1, <2>2
  <2>3. 1..(n + l) \subseteq 1..n \cup {n + k : k \in 1..l}
    BY <2>2
  <2> QED  BY <2>3 DEF l
<1> QED  BY <1>3, <1>6, <1>7 DEF texts, arrays, blocks, n

LEMMA NoticeStarts == NoticesInit => NoticeInv
<1> SUFFICES ASSUME NoticesInit PROVE NoticeInv
  OBVIOUS
<1>1. result = Null /\ step \in {"arrived", "idle"}
  BY DEF NoticesInit, Init
<1>2. result # [error |-> -2]
  BY <1>1, SnapshotAssumption
<1> QED  BY <1>1, <1>2 DEF NoticeInv, HostIsTold

LEMMA NoticeHolds == NoticeInv /\ [NoticesNext]_allVars => NoticeInv'
<1> SUFFICES ASSUME NoticeInv, [NoticesNext]_allVars PROVE NoticeInv'
  OBVIOUS
<1>1. CASE Next /\ UNCHANGED noticeVars
  <2>1. /\ step \in {"arrived", "processing", "failed", "recording"}
        /\ step' \in {"initFailed", "processing", "failed", "recording", "done"}
        /\ UNCHANGED noticeVars
    BY <1>1 DEF Next, InitError, ProcessErr, CallProcess, ProcessOk, CallDeadLetter,
                DeadLetterReturns
  <2>2. result = Null /\ result' = Null
    BY <2>1 DEF NoticeInv, noticeVars
  <2>3. result' # [error |-> -2]
    BY <2>2, SnapshotAssumption
  <2> QED  BY <2>1, <2>2, <2>3 DEF NoticeInv, HostIsTold
<1>2. ASSUME NEW m \in Packets, SendMetrics(m)  PROVE NoticeInv'
  <2>1. BorrowMetrics(MarshalMetrics(m)) = Told([kind |-> "metrics", sent |-> m])
    BY MetricsCross DEF Told
  <2>2. DOMAIN <<>> \subseteq {}
    OBVIOUS
  <2> QED  BY <1>2, <2>1, <2>2, CallTells DEF SendMetrics
<1>3. ASSUME NEW m \in Flushes, SendBandwidth(m)  PROVE NoticeInv'
  <2> DEFINE what   == [kind |-> "bandwidth", sent |-> m]
             flat   == MarshalBandwidth(m)
             blocks == Blocks(PacketTexts(m)) \o StructArrays(flat)
             heard  == BorrowBandwidth(flat, Blocks(PacketTexts(m)))
  <2>1. heard = Told(what) /\ DOMAIN blocks \subseteq PacketFrees(m)
    BY BandwidthCrosses, FreesAll
  <2>2. Call(what, blocks, PacketFrees(m), flat, heard)
    BY <1>3 DEF SendBandwidth
  <2> HIDE DEF what, flat, blocks, heard
  <2> QED  BY <2>1, <2>2, CallTells
<1>4. ASSUME NEW line \in Lines, EmitLog(line)  PROVE NoticeInv'
  <2> DEFINE flat == [level |-> LevelNumber(line.level), msg |-> Ref(<<line.text>>, 1)]
             what == [kind |-> "log", sent |-> line]
             heard == [level |-> RouteLevel(flat.level),
                       text |-> OwnedStr(Blocks(<<line.text>>), flat.msg)]
  <2>1. line \in [level : {"debug", "info", "warn", "error"}, text : Seq(Nat)]
    BY TypesAssumption
  <2>2. /\ RouteLevel(flat.level) = line.level
        /\ OwnedStr(Blocks(<<line.text>>), flat.msg) = Lossy(line.text)
    BY <2>1, LevelCrosses, OneString
  <2>3. Told(what) = [line EXCEPT !.text = Lossy(@)]
    BY DEF Told
  <2>4. [line EXCEPT !.text = Lossy(@)] = [level |-> line.level, text |-> Lossy(line.text)]
    BY <2>1
  <2>5. heard = Told(what)
    BY <2>2, <2>3, <2>4
  <2> DEFINE blocks == Blocks(<<line.text>>)
  <2>6. Call(what, blocks, {1}, flat, heard)
    BY <1>4 DEF EmitLog
  <2>7. DOMAIN blocks \subseteq {1}
    BY OneBlock
  <2> HIDE DEF flat, what, heard, blocks
  <2> QED  BY <2>5, <2>6, <2>7, CallTells
<1>5. ASSUME NEW why \in Reasons \cup {Null}, NotifyShutdown(why)  PROVE NoticeInv'
  <2> DEFINE text == ReasonText(why)
             what == [kind |-> "shutdown", sent |-> why]
             heard == BorrowReason(Ref(<<text>>, 1), Blocks(<<text>>))
  <2>1. text \in Seq(Nat)
    BY TypesAssumption, OwnTexts DEF ReasonText
  <2> HIDE DEF text
  <2>2. heard = IF text = <<>> THEN Unknown ELSE Lossy(text)
    BY <2>1, ReasonCrosses
  <2>3. Told(what) = IF why = Null THEN GracefulReason
                     ELSE IF why = <<>> THEN Unknown ELSE Lossy(why)
    BY DEF Told
  <2>4. heard = Told(what)
    BY <2>2, <2>3, OwnTexts DEF text, ReasonText
  <2> DEFINE blocks == Blocks(<<text>>)
  <2>5. Call(what, blocks, {1}, Ref(<<text>>, 1), heard)
    BY <1>5 DEF NotifyShutdown, text
  <2>6. DOMAIN blocks \subseteq {1}
    BY OneBlock
  <2> HIDE DEF what, heard, blocks
  <2> QED  BY <2>4, <2>5, <2>6, CallTells
<1>6. ASSUME NEW why \in Reasons, EmergencyStop(why)  PROVE NoticeInv'
  <2> DEFINE text == EmergencyReason(why)
             what == [kind |-> "emergency", sent |-> why]
             heard == BorrowReason(Ref(<<text>>, 1), Blocks(<<text>>))
  <2>1. text \in Seq(Nat)
    BY TypesAssumption, OwnTexts DEF EmergencyReason
  <2> HIDE DEF text
  <2>2. heard = IF text = <<>> THEN Unknown ELSE Lossy(text)
    BY <2>1, ReasonCrosses
  <2>3. Told(what) = IF why = <<>> THEN DefaultReason ELSE Lossy(why)
    BY DEF Told
  <2>4. heard = Told(what)
    BY <2>2, <2>3, OwnTexts DEF text, EmergencyReason
  <2> DEFINE blocks == Blocks(<<text>>)
  <2>5. Call(what, blocks, {1}, Ref(<<text>>, 1), heard)
    BY <1>6 DEF EmergencyStop, text
  <2>6. DOMAIN blocks \subseteq {1}
    BY OneBlock
  <2> HIDE DEF what, heard, blocks
  <2> QED  BY <2>4, <2>5, <2>6, CallTells
<1>7. CASE NoticeReturns
  <2>0. DOMAIN heap \ frees = {}
    BY <1>7 DEF NoticeInv, NoticeReturns
  <2>1. result = Null /\ result' = Null /\ step' = "over" /\ heap' = <<>>
    BY <1>7, <2>0 DEF NoticeInv, NoticeReturns
  <2>2. result' # [error |-> -2]
    BY <2>1, SnapshotAssumption
  <2> QED  BY <2>1, <2>2 DEF NoticeInv, HostIsTold
<1>8. ASSUME NEW doc \in Snapshots \cup {Null}, TakeSnapshot(doc)  PROVE NoticeInv'
  <2>1. result = Null /\ result' = Null /\ step' = "snapshot"
    BY <1>8 DEF NoticeInv, TakeSnapshot
  <2>2. result' # [error |-> -2]
    BY <2>1, SnapshotAssumption
  <2>3. \/ notice'.sent = Null /\ args' = NullPtr
        \/ notice'.sent # Null /\ args' = 1 /\ heap' = <<notice'.sent>>
    <3>1. notice'.sent = doc
      BY <1>8 DEF TakeSnapshot
    <3> QED  BY <1>8, <3>1 DEF TakeSnapshot
  <2> QED  BY <2>1, <2>2, <2>3 DEF NoticeInv, HostIsTold
<1>9. CASE TakeSnapshotJson
  <2> DEFINE doc == notice.sent
  <2>1. step' = "over" /\ heap' = <<>> /\ notice' = notice
    BY <1>9 DEF TakeSnapshotJson
  <2>2. [error |-> -1] # [error |-> -2]
    <3>1. [error |-> -1].error = -1 /\ [error |-> -2].error = -2
      OBVIOUS
    <3> QED  BY <3>1
  <2>3. CASE doc = Null
    <3>1. args = NullPtr
      BY <1>9, <2>3 DEF NoticeInv, TakeSnapshotJson
    <3>2. result' = [error |-> -1]
      BY <1>9, <3>1 DEF TakeSnapshotJson
    <3> QED  BY <2>1, <2>2, <2>3, <3>2 DEF NoticeInv, HostIsTold
  <2>4. CASE doc # Null
    <3>1. args = 1 /\ heap = <<doc>>
      BY <1>9, <2>4 DEF NoticeInv, TakeSnapshotJson
    <3>2. result' = FromJson(doc)
      BY <1>9, <3>1 DEF TakeSnapshotJson, NullPtr
    <3>3. CASE KnownFields \subseteq DOMAIN doc
      <4>1. result' = [f \in KnownFields |-> doc[f]]
        BY <3>2, <3>3 DEF FromJson
      <4>2. result' # [error |-> -2]
        <5>1. DOMAIN [error |-> -2] = {"error"}
          OBVIOUS
        <5>2. DOMAIN result' = KnownFields
          BY <4>1
        <5> QED  BY <5>1, <5>2, SnapshotAssumption
      <4> QED  BY <2>1, <2>4, <4>1, <4>2 DEF NoticeInv, HostIsTold
    <3>4. CASE ~(KnownFields \subseteq DOMAIN doc)
      <4>1. result' = [error |-> -2]
        BY <3>2, <3>4 DEF FromJson
      <4> QED  BY <2>1, <2>4, <3>4, <4>1 DEF NoticeInv, HostIsTold
    <3> QED  BY <3>3, <3>4
  <2> QED  BY <2>3, <2>4
<1>10. CASE UNCHANGED allVars
  BY <1>10 DEF NoticeInv, HostIsTold, Told, FlushTold, PartitionTold, allVars, vars, noticeVars
<1> QED  BY <1>1, <1>2, <1>3, <1>4, <1>5, <1>6, <1>7, <1>8, <1>9, <1>10 DEF NoticesNext

(***************************************************************************)
(* For every packet, line, reason and snapshot of the Go types, the host   *)
(* is given what the engine reported, and a snapshot is read whole or      *)
(* refused.                                                                *)
(***************************************************************************)
THEOREM NoticesArrive == NoticesSpec => []HostIsTold
<1>1. NoticeInv => HostIsTold
  BY DEF NoticeInv
<1> QED  BY <1>1, NoticeStarts, NoticeHolds, PTL DEF NoticesSpec
=============================================================================
