--------------------------- MODULE TransferProofs ---------------------------
(***************************************************************************)
(* Proofs about module Transfer, for any number of holders and pieces and  *)
(* any size of a piece: no piece is forgotten, work that is queued is      *)
(* under way, the page's requests are those the core means, and a peer     *)
(* never fails a transfer that has an origin.                              *)
(*                                                                         *)
(* Most of the module is about the core alone.  A transfer is Fit when its *)
(* lanes hold what they may (nothing at a source that is out, one request  *)
(* to a peer, no work queued behind nothing) and NoneLost when each piece  *)
(* is verified, held by a lane, or pending.  Both are kept by each method  *)
(* of the scheduler, in the order in which they call each other: issue,    *)
(* give and deal, assign, the repairs of the tail, retire, refill, tick    *)
(* and, last, an answer (DeliveredSound).  Between two methods a transfer  *)
(* may be Fit but for one source (Fit(T, {s})), or lack the pieces that    *)
(* were just taken from a lane, which are handed to assign (P below).      *)
(*                                                                         *)
(* Led says what a method means to the page: which requests it withdraws,  *)
(* and how it ends.  From that the last part shows that the page, with the *)
(* replies still to come from the worker, stays in step with the core      *)
(* (Tuned), which closes the inductive invariant IInv.                     *)
(***************************************************************************)
EXTENDS Transfer, FiniteSetTheorems, TLAPS

-----------------------------------------------------------------------------
(* Sets in order, and sequences of ranges.                                 *)

LEMMA LeastOf ==
    ASSUME NEW S \in SUBSET Nat, S # {} PROVE \E m \in S : \A x \in S : m <= x
<1> DEFINE R == {p \in Nat \X Nat : p[1] < p[2]}
<1>1. R = OpToRel(<, Nat)
  BY DEF OpToRel
<1>2. IsWellFoundedOn(R, Nat)
  BY <1>1, NatLessThanWellFounded
<1>3. \A x, y \in Nat : x < y => <<x, y>> \in R
  OBVIOUS
<1> HIDE DEF R
<1>4. PICK m \in S : \A x \in S : ~ (<<x, m>> \in R)
  BY <1>2, WFMin
<1>5. ASSUME NEW x \in S PROVE m <= x
  <2>1. x \in Nat /\ m \in Nat
    BY <1>4
  <2>2. ~ (x < m)
    BY <1>3, <1>4, <2>1
  <2> QED
    BY <2>1, <2>2
<1> QED
  BY <1>4, <1>5

\* Each member of a finite set of pairs has a place of its own, and no place
\* is left free.
Earlier(P, a) == {b \in P : Precedes(b, a)}

LEMMA PlacesTaken ==
    ASSUME NEW P \in SUBSET (Int \X Int), IsFiniteSet(P)
    PROVE  /\ Cardinality(P) \in Nat
           /\ \A a \in P : Place(P, a) \in 1 .. Cardinality(P)
           /\ \A a, b \in P : Place(P, a) = Place(P, b) => a = b
           /\ \A i \in 1 .. Cardinality(P) : \E a \in P : Place(P, a) = i
<1>0. Cardinality(P) \in Nat
  BY FS_CardinalityType
<1>1. \A a \in P :
             /\ IsFiniteSet(Earlier(P, a)) /\ Cardinality(Earlier(P, a)) \in Nat
             /\ Cardinality(Earlier(P, a)) + 1 <= Cardinality(P)
             /\ IsFiniteSet(Earlier(P, a) \cup {a})
             /\ Cardinality(Earlier(P, a) \cup {a}) = Cardinality(Earlier(P, a)) + 1
             /\ Place(P, a) = Cardinality(Earlier(P, a)) + 1
  <2> TAKE a \in P
  <2>1. /\ a \notin Earlier(P, a) /\ Earlier(P, a) \cup {a} \in SUBSET P
        /\ Earlier(P, a) \in SUBSET P
    <3>1. a[1] \in Int /\ a[2] \in Int
      OBVIOUS
    <3> QED
      BY <3>1 DEF Precedes, Earlier
  <2>2. IsFiniteSet(Earlier(P, a)) /\ IsFiniteSet(Earlier(P, a) \cup {a})
        /\ Cardinality(Earlier(P, a) \cup {a}) <= Cardinality(P)
    BY <2>1, FS_Subset
  <2>3. Place(P, a) = Cardinality(Earlier(P, a)) + 1
    BY DEF Place, Earlier
  <2>4. Cardinality(Earlier(P, a) \cup {a}) = Cardinality(Earlier(P, a)) + 1
    BY <2>1, <2>2, FS_AddElement
  <2>5. Cardinality(Earlier(P, a)) \in Nat
    BY <2>2, FS_CardinalityType
  <2> QED
    BY <2>2, <2>3, <2>4, <2>5, <1>0
<1>2. ASSUME NEW a \in P, NEW b \in P, Precedes(a, b)
      PROVE  Place(P, a) < Place(P, b)
  <2>1. Earlier(P, a) \cup {a} \in SUBSET Earlier(P, b)
    <3> a \in Int \X Int /\ b \in Int \X Int
      OBVIOUS
    <3>1. ASSUME NEW c \in P, Precedes(c, a) PROVE Precedes(c, b)
      <4>1. c[1] \in Int /\ c[2] \in Int /\ a[1] \in Int /\ a[2] \in Int
            /\ b[1] \in Int /\ b[2] \in Int
        OBVIOUS
      <4> QED
        BY <4>1, <1>2, <3>1 DEF Precedes
    <3> QED
      BY <3>1, <1>2 DEF Earlier
  <2>2. Cardinality(Earlier(P, a) \cup {a}) <= Cardinality(Earlier(P, b))
    BY <2>1, <1>1, FS_Subset
  <2>3. /\ Cardinality(Earlier(P, a) \cup {a}) = Cardinality(Earlier(P, a)) + 1
        /\ Place(P, a) = Cardinality(Earlier(P, a)) + 1
        /\ Place(P, b) = Cardinality(Earlier(P, b)) + 1
        /\ Cardinality(Earlier(P, a)) \in Nat /\ Cardinality(Earlier(P, b)) \in Nat
    BY <1>1
  <2> QED
    BY <2>2, <2>3
<1>3. ASSUME NEW a \in P, NEW b \in P, a # b PROVE Place(P, a) # Place(P, b)
  <2>1. a[1] \in Int /\ a[2] \in Int /\ b[1] \in Int /\ b[2] \in Int
        /\ a = <<a[1], a[2]>> /\ b = <<b[1], b[2]>>
    OBVIOUS
  <2>2. Precedes(a, b) \/ Precedes(b, a)
    BY <2>1, <1>3 DEF Precedes
  <2>3. Place(P, a) \in Int /\ Place(P, b) \in Int
    <3>1. /\ Cardinality(Earlier(P, a)) \in Nat /\ Cardinality(Earlier(P, b)) \in Nat
          /\ Place(P, a) = Cardinality(Earlier(P, a)) + 1
          /\ Place(P, b) = Cardinality(Earlier(P, b)) + 1
      BY <1>1
    <3> QED
      BY <3>1
  <2> QED
    BY <2>2, <2>3, <1>2
<1>4. ASSUME NEW a \in P PROVE Place(P, a) \in 1 .. Cardinality(P)
  <2>1. /\ Cardinality(Earlier(P, a)) \in Nat
        /\ Cardinality(Earlier(P, a)) + 1 <= Cardinality(P)
        /\ Place(P, a) = Cardinality(Earlier(P, a)) + 1
    BY <1>1
  <2> QED
    BY <2>1, <1>0
<1> DEFINE f == [a \in P |-> Place(P, a)]
<1>5. f \in Injection(P, 1 .. Cardinality(P))
  BY <1>3, <1>4 DEF Injection, IsInjective
<1>6. IsFiniteSet(1 .. Cardinality(P)) /\ Cardinality(1 .. Cardinality(P)) = Cardinality(P)
  BY <1>0, FS_Interval
<1>7. f \in Surjection(P, 1 .. Cardinality(P))
  <2> HIDE DEF f
  <2> QED
    BY <1>5, <1>6, FS_Injection
<1>8. \A i \in 1 .. Cardinality(P) : \E a \in P : Place(P, a) = i
  BY <1>7 DEF Surjection
<1> QED
  BY <1>0, <1>3, <1>4, <1>8

LEMMA ListedSound ==
    ASSUME NEW P \in SUBSET (Int \X Int), IsFiniteSet(P)
    PROVE  /\ Cardinality(P) \in Nat
           /\ DOMAIN Listed(P) = 1 .. Cardinality(P)
           /\ Len(Listed(P)) = Cardinality(P)
           /\ \A i \in DOMAIN Listed(P) : \E a \in P :
                 Listed(P)[i] = a[2] /\ Place(P, a) = i
           /\ \A a \in P : Place(P, a) \in DOMAIN Listed(P) /\ Listed(P)[Place(P, a)] = a[2]
           /\ Listed(P) \in Seq(Int)
<1>1. /\ Cardinality(P) \in Nat
      /\ \A a \in P : Place(P, a) \in 1 .. Cardinality(P)
      /\ \A a, b \in P : Place(P, a) = Place(P, b) => a = b
      /\ \A i \in 1 .. Cardinality(P) : \E a \in P : Place(P, a) = i
  BY PlacesTaken
<1>2. DOMAIN Listed(P) = 1 .. Cardinality(P)
  BY DEF Listed
<1>3. ASSUME NEW a \in P PROVE Listed(P)[Place(P, a)] = a[2]
  <2>1. Place(P, a) \in 1 .. Cardinality(P)
    BY <1>1
  <2>2. (CHOOSE b \in P : Place(P, b) = Place(P, a)) = a
    BY <1>1
  <2> QED
    BY <2>1, <2>2 DEF Listed
<1>4. \A i \in DOMAIN Listed(P) : \E a \in P : Listed(P)[i] = a[2] /\ Place(P, a) = i
  BY <1>1, <1>2, <1>3
<1>5. \A i \in 1 .. Cardinality(P) : Listed(P)[i] \in Int
  BY <1>4, <1>2
<1>6. Listed(P) \in Seq(Int) /\ Len(Listed(P)) = Cardinality(P)
  BY <1>1, <1>5 DEF Listed
<1> QED
  BY <1>1, <1>2, <1>3, <1>4, <1>6

\* Ascending enumerates a finite set of numbers without repeats.
LEMMA AscendingSound ==
    ASSUME NEW S \in SUBSET Int, IsFiniteSet(S)
    PROVE  /\ Ascending(S) \in Seq(S)
           /\ Len(Ascending(S)) = Cardinality(S) /\ Cardinality(S) \in Nat
           /\ \A x \in S : \E i \in 1 .. Cardinality(S) : Ascending(S)[i] = x
           /\ \A i, j \in 1 .. Cardinality(S) : Ascending(S)[i] = Ascending(S)[j] => i = j
<1> DEFINE P == {0} \X S
<1>1. P \in SUBSET (Int \X Int) /\ \A x \in S : <<0, x>> \in P
  <2>1. \A a \in P : a[1] = 0 /\ a[2] \in S /\ a = <<a[1], a[2]>>
    OBVIOUS
  <2>2. \A a \in P : a \in Int \X Int
    <3> HIDE DEF P
    <3> TAKE a \in P
    <3>1. a[1] \in Int /\ a[2] \in Int /\ a = <<a[1], a[2]>>
      BY <2>1
    <3>2. \A x, y \in Int : <<x, y>> \in Int \X Int
      OBVIOUS
    <3> QED
      BY <3>1, <3>2, Zenon
  <2> QED
    BY <2>2
<1>2. IsFiniteSet(P) /\ Cardinality(P) = Cardinality(S)
  <2>1. IsFiniteSet({0}) /\ Cardinality({0}) = 1 /\ Cardinality(S) \in Nat
    BY FS_Singleton, FS_CardinalityType
  <2>2. IsFiniteSet({0} \X S) /\ Cardinality({0} \X S) = Cardinality({0}) * Cardinality(S)
    BY <2>1, FS_Product
  <2> QED
    BY <2>1, <2>2
<1>3. \A a \in P : a[1] = 0 /\ a[2] \in S /\ a = <<0, a[2]>>
  OBVIOUS
<1> HIDE DEF P
<1>4. /\ Cardinality(P) \in Nat
      /\ DOMAIN Listed(P) = 1 .. Cardinality(P)
      /\ Len(Listed(P)) = Cardinality(P)
      /\ \A i \in DOMAIN Listed(P) : \E a \in P : Listed(P)[i] = a[2] /\ Place(P, a) = i
      /\ \A a \in P : Place(P, a) \in DOMAIN Listed(P) /\ Listed(P)[Place(P, a)] = a[2]
      /\ Listed(P) \in Seq(Int)
  BY <1>1, <1>2, ListedSound
<1>5. Ascending(S) = Listed(P)
  BY DEF Ascending, P
<1>6. \A i \in 1 .. Cardinality(S) : Listed(P)[i] \in S
  BY <1>2, <1>3, <1>4
<1>7. \A x \in S : \E i \in 1 .. Cardinality(S) : Listed(P)[i] = x
  BY <1>1, <1>2, <1>3, <1>4
<1>8. ASSUME NEW i \in 1 .. Cardinality(S), NEW j \in 1 .. Cardinality(S), Listed(P)[i] = Listed(P)[j]
      PROVE  i = j
  <2>1. PICK a \in P : Listed(P)[i] = a[2] /\ Place(P, a) = i
    BY <1>2, <1>4
  <2>2. PICK b \in P : Listed(P)[j] = b[2] /\ Place(P, b) = j
    BY <1>2, <1>4
  <2>3. a = b
    BY <2>1, <2>2, <1>3, <1>8
  <2> QED
    BY <2>1, <2>2, <2>3
<1> QED
  BY <1>2, <1>4, <1>5, <1>6, <1>7, <1>8

\* Ranges with something in them, and queues whose ranges do not overlap.
Solid == {r \in PieceRange : NonEmpty(r)}
Apart(q) == \A i, j \in DOMAIN q : i # j => Span(q[i]) \cap Span(q[j]) = {}

LEMMA PieceFacts ==
    /\ Piece \in SUBSET Int /\ IsFiniteSet(Piece)
    /\ \A S \in SUBSET Piece : S \in SUBSET Int /\ IsFiniteSet(S)
    /\ \A r \in PieceRange : Span(r) \in SUBSET Piece /\ r.start \in Int /\ r.end \in Int
    /\ \A r \in Solid : r \in PieceRange /\ r.start < r.end /\ r.start \in Span(r)
<1>1. PieceCount \in Nat
  BY CountAssumption
<1>2. IsFiniteSet(Piece)
  BY <1>1, FS_Interval DEF Piece
<1>3. \A S \in SUBSET Piece : S \in SUBSET Int /\ IsFiniteSet(S)
  <2> TAKE S \in SUBSET Piece
  <2>1. IsFiniteSet(S)
    BY <1>2, FS_Subset
  <2> QED
    BY <2>1 DEF Piece
<1>4. \A r \in PieceRange : Span(r) \in SUBSET Piece /\ r.start \in Int /\ r.end \in Int
  BY <1>1 DEF PieceRange, Span, Piece
<1>5. \A r \in Solid : r \in PieceRange /\ r.start < r.end /\ r.start \in Span(r)
  BY <1>1 DEF Solid, NonEmpty, PieceRange, Span
<1> QED
  BY <1>2, <1>3, <1>4, <1>5 DEF Piece

LEMMA InPieces ==
    ASSUME NEW q \in Seq(PieceRange)
    PROVE  In(q) \in SUBSET Piece
<1>1. \A i \in DOMAIN q : q[i] \in PieceRange
  OBVIOUS
<1> QED
  BY <1>1, PieceFacts DEF In

LEMMA SolidPieces ==
    ASSUME NEW q \in Seq(Solid)
    PROVE  q \in Seq(PieceRange) /\ In(q) \in SUBSET Piece
<1>1. q \in Seq(PieceRange)
  BY DEF Solid
<1> QED
  BY <1>1, InPieces

\* Dropping the empty ranges loses no piece, and keeps those that are left
\* apart.
LEMMA ProperSound ==
    ASSUME NEW q \in Seq(PieceRange)
    PROVE  /\ Proper(q) \in Seq(Solid)
           /\ In(Proper(q)) = In(q)
           /\ (\E i \in DOMAIN q : NonEmpty(q[i])) => Proper(q) # <<>>
           /\ (\A i \in DOMAIN q : NonEmpty(q[i]) => i = 1) => Len(Proper(q)) <= 1
           /\ Apart(q) => Apart(Proper(q))
<1> DEFINE K == {i \in DOMAIN q : NonEmpty(q[i])}
           at == Ascending(K)
<1>1. K \in SUBSET Int /\ IsFiniteSet(K)
  <2>1. K \in SUBSET (1 .. Len(q)) /\ IsFiniteSet(1 .. Len(q))
    BY FS_Interval
  <2> QED
    BY <2>1, FS_Subset
<1>0. /\ \A i \in K : i \in DOMAIN q /\ NonEmpty(q[i])
      /\ \A i \in DOMAIN q : NonEmpty(q[i]) => i \in K
      /\ \A i \in DOMAIN q : q[i] \in PieceRange
  OBVIOUS
<1>p. Proper(q) = [k \in DOMAIN at |-> q[at[k]]]
  BY DEF Proper
<1> HIDE DEF K, at
<1>2. /\ at \in Seq(K)
      /\ Len(at) = Cardinality(K) /\ Cardinality(K) \in Nat
      /\ \A x \in K : \E i \in 1 .. Cardinality(K) : at[i] = x
      /\ \A i, j \in 1 .. Cardinality(K) : at[i] = at[j] => i = j
  BY <1>1, AscendingSound DEF at
<1>3. DOMAIN at = 1 .. Cardinality(K) /\ \A k \in 1 .. Cardinality(K) : at[k] \in K
  BY <1>2
<1>4. Proper(q) = [k \in 1 .. Cardinality(K) |-> q[at[k]]]
  BY <1>p, <1>3
<1>5. \A k \in 1 .. Cardinality(K) : q[at[k]] \in Solid
  BY <1>0, <1>3 DEF Solid
<1>6. Proper(q) \in Seq(Solid) /\ Len(Proper(q)) = Cardinality(K)
      /\ DOMAIN Proper(q) = 1 .. Cardinality(K)
      /\ \A k \in 1 .. Cardinality(K) : Proper(q)[k] = q[at[k]]
  <2>1. Proper(q) \in [1 .. Cardinality(K) -> Solid]
    BY <1>4, <1>5
  <2>2. Proper(q) \in Seq(Solid) /\ Len(Proper(q)) = Cardinality(K)
    BY <2>1, <1>2
  <2> QED
    BY <2>2, <1>4
<1>7. In(Proper(q)) = In(q)
  <2>1. ASSUME NEW k \in DOMAIN Proper(q) PROVE Span(Proper(q)[k]) \subseteq In(q)
    BY <1>0, <1>3, <1>6 DEF In
  <2>2. ASSUME NEW i \in DOMAIN q PROVE Span(q[i]) \subseteq In(Proper(q))
    <3> SUFFICES ASSUME NEW x \in Span(q[i]) PROVE x \in In(Proper(q))
      OBVIOUS
    <3>1. q[i] \in PieceRange
      BY <1>0
    <3>2. q[i].start \in Int /\ q[i].end \in Int
      BY <3>1, PieceFacts
    <3>3. NonEmpty(q[i])
      BY <3>2 DEF NonEmpty, Span
    <3>4. i \in K
      BY <1>0, <3>3
    <3>5. PICK k \in 1 .. Cardinality(K) : at[k] = i
      BY <3>4, <1>2
    <3>6. k \in DOMAIN Proper(q) /\ x \in Span(Proper(q)[k])
      BY <3>5, <1>6
    <3> QED
      BY <3>6 DEF In
  <2> QED
    BY <2>1, <2>2 DEF In
<1>8. ASSUME NEW i \in DOMAIN q, NonEmpty(q[i]) PROVE Proper(q) # <<>>
  <2>1. i \in K
    BY <1>0, <1>8
  <2>2. PICK k \in 1 .. Cardinality(K) : at[k] = i
    BY <2>1, <1>2
  <2>3. Len(Proper(q)) >= 1
    BY <2>2, <1>2, <1>6
  <2> QED
    BY <2>3
<1>9. ASSUME \A i \in DOMAIN q : NonEmpty(q[i]) => i = 1 PROVE Len(Proper(q)) <= 1
  <2>1. SUFFICES ASSUME Cardinality(K) > 1 PROVE FALSE
    BY <1>2, <1>6
  <2>2. 1 \in 1 .. Cardinality(K) /\ 2 \in 1 .. Cardinality(K)
    BY <2>1, <1>2
  <2>3. at[1] \in K /\ at[2] \in K
    BY <2>2, <1>3
  <2>4. at[1] = 1 /\ at[2] = 1
    BY <2>3, <1>0, <1>9
  <2> QED
    BY <2>2, <2>4, <1>2
<1>10. ASSUME Apart(q), NEW i \in DOMAIN Proper(q), NEW j \in DOMAIN Proper(q), i # j
       PROVE  Span(Proper(q)[i]) \cap Span(Proper(q)[j]) = {}
  <2>1. at[i] # at[j] /\ at[i] \in DOMAIN q /\ at[j] \in DOMAIN q
    BY <1>0, <1>2, <1>3, <1>6, <1>10
  <2> QED
    BY <2>1, <1>6, <1>10 DEF Apart
<1> QED
  BY <1>6, <1>7, <1>8, <1>9, <1>10 DEF Apart

LEMMA LengthSound ==
    ASSUME NEW q \in Seq(Solid)
    PROVE  /\ Length(q) \in Nat
           /\ q # <<>> => Length(q) >= 1 /\ Length(q) >= Head(q).end - Head(q).start
<1>1. \A i \in DOMAIN q : q[i] \in Solid
  OBVIOUS
<1>2. IsFiniteSet(Places(q))
  <2>1. Places(q) \in SUBSET ((1 .. Len(q)) \X Piece)
    <3>1. \A i \in DOMAIN q : i \in 1 .. Len(q) /\ Span(q[i]) \subseteq Piece
      BY <1>1, PieceFacts
    <3>2. \A i \in DOMAIN q : {i} \X Span(q[i]) \subseteq (1 .. Len(q)) \X Piece
      BY <3>1
    <3> QED
      BY <3>2 DEF Places
  <2>2. IsFiniteSet((1 .. Len(q)) \X Piece)
    <3>1. IsFiniteSet(1 .. Len(q)) /\ IsFiniteSet(Piece)
      BY PieceFacts, FS_Interval
    <3> QED
      BY <3>1, FS_Product
  <2> QED
    BY <2>1, <2>2, FS_Subset
<1>3. Length(q) \in Nat
  BY <1>2, FS_CardinalityType DEF Length
<1>4. ASSUME q # <<>> PROVE Length(q) >= 1 /\ Length(q) >= Head(q).end - Head(q).start
  <2>1. 1 \in DOMAIN q /\ Head(q) = q[1] /\ q[1] \in Solid
    BY <1>4
  <2>2. /\ q[1].start \in Int /\ q[1].end \in Int /\ q[1].start < q[1].end
    BY <2>1, PieceFacts
  <2>3. IsFiniteSet(Span(q[1])) /\ Cardinality(Span(q[1])) = q[1].end - q[1].start
    <3>0. q[1].end - 1 \in Int
      BY <2>2
    <3>1. /\ IsFiniteSet(q[1].start .. q[1].end - 1)
          /\ Cardinality(q[1].start .. q[1].end - 1) =
               IF q[1].start > q[1].end - 1 THEN 0 ELSE q[1].end - 1 - q[1].start + 1
      BY <3>0, <2>2, FS_Interval
    <3> QED
      BY <3>1, <2>2 DEF Span
  <2>4. /\ IsFiniteSet({1} \X Span(q[1]))
        /\ Cardinality({1} \X Span(q[1])) = q[1].end - q[1].start
    <3>1. IsFiniteSet({1}) /\ Cardinality({1}) = 1
      BY FS_Singleton
    <3>2. /\ IsFiniteSet({1} \X Span(q[1]))
          /\ Cardinality({1} \X Span(q[1])) = Cardinality({1}) * Cardinality(Span(q[1]))
      BY <3>1, <2>3, FS_Product
    <3> QED
      BY <3>1, <3>2, <2>2, <2>3
  <2>5. {1} \X Span(q[1]) \in SUBSET Places(q)
    BY <2>1 DEF Places
  <2>6. Cardinality({1} \X Span(q[1])) <= Length(q)
    BY <2>5, <1>2, FS_Subset DEF Length
  <2> QED
    BY <2>1, <2>2, <2>4, <2>6, <1>3
<1> QED
  BY <1>3, <1>4

LEMMA EmptyQueue ==
    ASSUME NEW q \in Seq(Solid)
    PROVE  In(q) = {} <=> q = <<>>
<1>1. ASSUME q # <<>> PROVE In(q) # {}
  <2>1. 1 \in DOMAIN q /\ q[1] \in Solid
    BY <1>1
  <2>2. q[1].start \in Span(q[1])
    BY <2>1, PieceFacts
  <2> QED
    BY <2>1, <2>2 DEF In
<1> QED
  BY <1>1 DEF In

LEMMA BorderBetween ==
    ASSUME NEW q \in Seq(Solid), NEW n \in Nat, NEW i \in DOMAIN q
    PROVE  /\ Border(q, n, i) \in q[i].start .. q[i].end
           /\ q[i].start \in Int /\ q[i].end \in Int
           /\ i = 1 /\ n >= 1 => Border(q, n, i) > q[i].start
           /\ n = 0 => Border(q, n, i) = q[i].start
           /\ i # 1 /\ n <= Head(q).end - Head(q).start => Border(q, n, i) = q[i].start
<1>1. q[i] \in Solid /\ i \in 1 .. Len(q) /\ Len(q) \in Nat
  OBVIOUS
<1>2. q[i].start \in Int /\ q[i].end \in Int /\ q[i].start < q[i].end
  BY <1>1, PieceFacts
<1> DEFINE before == SubSeq(q, 1, i - 1)
<1>3. before \in Seq(Solid) /\ Len(before) = i - 1
      /\ (i # 1 => before # <<>> /\ Head(before) = Head(q)) /\ (i = 1 => before = <<>>)
  BY <1>1
<1>4. Border(q, n, i) = Lesser(q[i].end, q[i].start + Less(n, Length(before)))
  BY DEF Border
<1> HIDE DEF before
<1>5. Length(before) \in Nat
  BY <1>3, LengthSound
<1>6. Less(n, Length(before)) \in Nat
  BY <1>5 DEF Less
<1>7. Border(q, n, i) \in q[i].start .. q[i].end
  BY <1>2, <1>4, <1>6 DEF Lesser
<1>8. ASSUME i = 1, n >= 1 PROVE Border(q, n, i) > q[i].start
  <2>1. Length(before) = 0
    <3>1. Places(<<>>) = {}
      BY DEF Places
    <3> QED
      BY <1>3, <1>8, <3>1, FS_EmptySet DEF Length
  <2>2. Less(n, Length(before)) = n
    BY <2>1, <1>8 DEF Less
  <2> QED
    BY <2>2, <1>2, <1>4, <1>8 DEF Lesser
<1>9. ASSUME i # 1, n <= Head(q).end - Head(q).start PROVE Border(q, n, i) = q[i].start
  <2>0. Head(q) = q[1] /\ q[1] \in Solid
    BY <1>1, <1>9
  <2>1. Length(before) >= Head(q).end - Head(q).start
    BY <1>3, <1>9, LengthSound
  <2>2. Head(q).end \in Int /\ Head(q).start \in Int
    BY <2>0, PieceFacts
  <2>3. Less(n, Length(before)) = 0
    BY <2>1, <2>2, <1>5, <1>9 DEF Less
  <2> QED
    BY <2>3, <1>2, <1>4 DEF Lesser
<1>10. ASSUME n = 0 PROVE Border(q, n, i) = q[i].start
  <2>1. Less(n, Length(before)) = 0
    BY <1>5, <1>10 DEF Less
  <2> QED
    BY <2>1, <1>2, <1>4 DEF Lesser
<1> QED
  BY <1>2, <1>7, <1>8, <1>9, <1>10

\* The ranges of q up to the border of its first n pieces, and those after it.
FirstCut(q, n) == [i \in DOMAIN q |-> [q[i] EXCEPT !.end = Border(q, n, i)]]
RestCut(q, n) == [i \in DOMAIN q |-> [q[i] EXCEPT !.start = Border(q, n, i)]]

\* Splitting a queue after its first n pieces.
LEMMA SplitSound ==
    ASSUME NEW q \in Seq(Solid), NEW n \in Nat
    PROVE  /\ First(q, n) \in Seq(Solid) /\ Rest(q, n) \in Seq(Solid)
           /\ In(First(q, n)) \cup In(Rest(q, n)) = In(q)
           /\ q # <<>> /\ n >= 1 => First(q, n) # <<>>
           /\ n = 0 => First(q, n) = <<>>
           /\ q # <<>> /\ n <= Head(q).end - Head(q).start => Len(First(q, n)) <= 1
           /\ Apart(q) => /\ Apart(First(q, n)) /\ Apart(Rest(q, n))
                          /\ In(First(q, n)) \cap In(Rest(q, n)) = {}
<1>1. First(q, n) = Proper(FirstCut(q, n)) /\ Rest(q, n) = Proper(RestCut(q, n))
  BY DEF First, Rest, FirstCut, RestCut
<1>2. \A i \in DOMAIN q :
        /\ q[i] \in PieceRange /\ q[i].start \in Int /\ q[i].end \in Int
        /\ q[i].start < q[i].end
        /\ Border(q, n, i) \in q[i].start .. q[i].end
        /\ FirstCut(q, n)[i] \in PieceRange /\ RestCut(q, n)[i] \in PieceRange
        /\ FirstCut(q, n)[i].start = q[i].start /\ FirstCut(q, n)[i].end = Border(q, n, i)
        /\ RestCut(q, n)[i].end = q[i].end /\ RestCut(q, n)[i].start = Border(q, n, i)
  <2> TAKE i \in DOMAIN q
  <2>1. q[i] \in Solid
    OBVIOUS
  <2>2. /\ q[i] \in PieceRange /\ q[i].start \in Int /\ q[i].end \in Int /\ q[i].start < q[i].end
        /\ Border(q, n, i) \in q[i].start .. q[i].end
    BY <2>1, PieceFacts, BorderBetween
  <2>3. /\ FirstCut(q, n)[i] = [q[i] EXCEPT !.end = Border(q, n, i)]
        /\ RestCut(q, n)[i] = [q[i] EXCEPT !.start = Border(q, n, i)]
    BY DEF FirstCut, RestCut
  <2>4. Border(q, n, i) \in 0 .. PieceCount
    BY <2>2, CountAssumption DEF PieceRange
  <2> QED
    BY <2>2, <2>3, <2>4 DEF PieceRange
<1>3. /\ FirstCut(q, n) \in Seq(PieceRange) /\ RestCut(q, n) \in Seq(PieceRange)
      /\ DOMAIN FirstCut(q, n) = DOMAIN q /\ DOMAIN RestCut(q, n) = DOMAIN q
  <2>1. DOMAIN q = 1 .. Len(q) /\ Len(q) \in Nat
    OBVIOUS
  <2>2. DOMAIN FirstCut(q, n) = DOMAIN q /\ DOMAIN RestCut(q, n) = DOMAIN q
    BY DEF FirstCut, RestCut
  <2>3. FirstCut(q, n) \in [1 .. Len(q) -> PieceRange] /\ RestCut(q, n) \in [1 .. Len(q) -> PieceRange]
    BY <1>2, <2>1 DEF FirstCut, RestCut
  <2> QED
    BY <2>1, <2>2, <2>3
<1>4. \A i \in DOMAIN q :
        /\ Span(FirstCut(q, n)[i]) \cup Span(RestCut(q, n)[i]) = Span(q[i])
        /\ Span(FirstCut(q, n)[i]) \cap Span(RestCut(q, n)[i]) = {}
  BY <1>2 DEF Span
<1>5. /\ First(q, n) \in Seq(Solid) /\ Rest(q, n) \in Seq(Solid)
      /\ In(First(q, n)) = In(FirstCut(q, n)) /\ In(Rest(q, n)) = In(RestCut(q, n))
  BY <1>1, <1>3, ProperSound
<1>6. In(FirstCut(q, n)) \cup In(RestCut(q, n)) = In(q)
  BY <1>3, <1>4 DEF In
<1>7. ASSUME q # <<>>, n >= 1 PROVE First(q, n) # <<>>
  <2>1. 1 \in DOMAIN q
    BY <1>7
  <2>2. NonEmpty(FirstCut(q, n)[1])
    BY <2>1, <1>2, <1>7, BorderBetween DEF NonEmpty
  <2> QED
    BY <2>1, <2>2, <1>1, <1>3, ProperSound
<1>8. ASSUME q # <<>>, n <= Head(q).end - Head(q).start PROVE Len(First(q, n)) <= 1
  <2>1. \A i \in DOMAIN q : NonEmpty(FirstCut(q, n)[i]) => i = 1
    <3> TAKE i \in DOMAIN q
    <3>1. i # 1 => Border(q, n, i) = q[i].start
      BY <1>8, BorderBetween
    <3> QED
      BY <3>1, <1>2 DEF NonEmpty
  <2> QED
    BY <2>1, <1>1, <1>3, ProperSound
<1>9. ASSUME Apart(q)
      PROVE  /\ Apart(First(q, n)) /\ Apart(Rest(q, n))
             /\ In(First(q, n)) \cap In(Rest(q, n)) = {}
  <2>1. Apart(FirstCut(q, n)) /\ Apart(RestCut(q, n))
    BY <1>3, <1>4, <1>9 DEF Apart
  <2>2. In(FirstCut(q, n)) \cap In(RestCut(q, n)) = {}
    <3> SUFFICES ASSUME NEW i \in DOMAIN q, NEW j \in DOMAIN q,
                        NEW x \in Span(FirstCut(q, n)[i]), x \in Span(RestCut(q, n)[j])
                 PROVE  FALSE
      BY <1>3 DEF In
    <3>1. x \in Span(q[i]) /\ x \in Span(q[j])
      BY <1>4
    <3>2. i = j
      BY <3>1, <1>9 DEF Apart
    <3> QED
      BY <3>2, <1>4
  <2> QED
    BY <2>1, <2>2, <1>1, <1>3, <1>5, ProperSound
<1>10. ASSUME n = 0 PROVE First(q, n) = <<>>
  <2>1. \A i \in DOMAIN q : Border(q, n, i) = q[i].start
    BY <1>10, BorderBetween
  <2>2. \A i \in DOMAIN q : Span(FirstCut(q, n)[i]) = {}
    BY <2>1, <1>2 DEF Span
  <2>3. In(FirstCut(q, n)) = {}
    BY <2>2, <1>3 DEF In
  <2> QED
    BY <2>3, <1>5, EmptyQueue
<1> QED
  BY <1>5, <1>6, <1>7, <1>8, <1>9, <1>10

LEMMA InConcat ==
    ASSUME NEW q \in Seq(Solid), NEW r \in Seq(Solid)
    PROVE  /\ q \o r \in Seq(Solid)
           /\ In(q \o r) = In(q) \cup In(r)
           /\ Len(q \o r) = Len(q) + Len(r)
           /\ Apart(q) /\ Apart(r) /\ In(q) \cap In(r) = {} => Apart(q \o r)
<1>1. /\ q \o r \in Seq(Solid) /\ Len(q \o r) = Len(q) + Len(r)
      /\ Len(q) \in Nat /\ Len(r) \in Nat
      /\ \A i \in 1 .. Len(q) + Len(r) :
           (q \o r)[i] = IF i <= Len(q) THEN q[i] ELSE r[i - Len(q)]
  OBVIOUS
<1>2. DOMAIN (q \o r) = 1 .. Len(q) + Len(r) /\ DOMAIN q = 1 .. Len(q) /\ DOMAIN r = 1 .. Len(r)
  BY <1>1
<1>3. /\ \A i \in DOMAIN q : i \in DOMAIN (q \o r) /\ (q \o r)[i] = q[i]
      /\ \A j \in DOMAIN r : Len(q) + j \in DOMAIN (q \o r) /\ (q \o r)[Len(q) + j] = r[j]
  BY <1>1, <1>2
<1>4. \A i \in DOMAIN (q \o r) :
         \/ i \in DOMAIN q /\ (q \o r)[i] = q[i]
         \/ i - Len(q) \in DOMAIN r /\ (q \o r)[i] = r[i - Len(q)]
  BY <1>1, <1>2
<1>5. In(q \o r) = In(q) \cup In(r)
  BY <1>3, <1>4 DEF In
<1>6. ASSUME Apart(q), Apart(r), In(q) \cap In(r) = {},
             NEW i \in DOMAIN (q \o r), NEW j \in DOMAIN (q \o r), i # j
      PROVE  Span((q \o r)[i]) \cap Span((q \o r)[j]) = {}
  <2>0. i \in Int /\ j \in Int /\ i - Len(q) # j - Len(q)
    BY <1>2, <1>1, <1>6
  <2>1. CASE i \in DOMAIN q /\ (q \o r)[i] = q[i] /\ j \in DOMAIN q /\ (q \o r)[j] = q[j]
    BY <2>1, <1>6 DEF Apart
  <2>2. CASE i \in DOMAIN q /\ (q \o r)[i] = q[i]
             /\ j - Len(q) \in DOMAIN r /\ (q \o r)[j] = r[j - Len(q)]
    BY <2>2, <1>6 DEF In
  <2>3. CASE i - Len(q) \in DOMAIN r /\ (q \o r)[i] = r[i - Len(q)]
             /\ j \in DOMAIN q /\ (q \o r)[j] = q[j]
    BY <2>3, <1>6 DEF In
  <2>4. CASE i - Len(q) \in DOMAIN r /\ (q \o r)[i] = r[i - Len(q)]
             /\ j - Len(q) \in DOMAIN r /\ (q \o r)[j] = r[j - Len(q)]
    BY <2>0, <2>4, <1>6 DEF Apart
  <2> QED
    BY <1>4, <2>1, <2>2, <2>3, <2>4
<1> QED
  BY <1>1, <1>5, <1>6 DEF Apart

LEMMA InHeadTail ==
    ASSUME NEW q \in Seq(Solid), q # <<>>
    PROVE  /\ <<Head(q)>> \in Seq(Solid) /\ Tail(q) \in Seq(Solid)
           /\ In(<<Head(q)>>) \cup In(Tail(q)) = In(q)
           /\ Apart(q) => /\ Apart(<<Head(q)>>) /\ Apart(Tail(q))
                          /\ In(<<Head(q)>>) \cap In(Tail(q)) = {}
<1>1. /\ Head(q) = q[1] /\ q[1] \in Solid /\ 1 \in DOMAIN q
      /\ Tail(q) \in Seq(Solid) /\ Len(Tail(q)) = Len(q) - 1
      /\ \A i \in 1 .. Len(q) - 1 : Tail(q)[i] = q[i + 1] /\ i + 1 \in DOMAIN q
      /\ \A i \in DOMAIN q : i # 1 => i - 1 \in 1 .. Len(q) - 1 /\ Tail(q)[i - 1] = q[i]
  OBVIOUS
<1>2. DOMAIN Tail(q) = 1 .. Len(q) - 1
  BY <1>1
<1>3. <<Head(q)>> \in Seq(Solid) /\ DOMAIN <<Head(q)>> = {1} /\ <<Head(q)>>[1] = q[1]
  BY <1>1
<1>4. In(<<Head(q)>>) \cup In(Tail(q)) = In(q)
  <2>1. In(<<Head(q)>>) = Span(q[1])
    BY <1>3 DEF In
  <2>2. \A j \in DOMAIN Tail(q) : j + 1 \in DOMAIN q /\ Tail(q)[j] = q[j + 1]
    BY <1>1, <1>2
  <2>3. \A i \in DOMAIN q : i = 1 \/ (i - 1 \in DOMAIN Tail(q) /\ Tail(q)[i - 1] = q[i])
    BY <1>1, <1>2
  <2>4. In(Tail(q)) \subseteq In(q) /\ Span(q[1]) \subseteq In(q)
    BY <2>2, <1>1 DEF In
  <2>5. In(q) \subseteq Span(q[1]) \cup In(Tail(q))
    BY <2>3 DEF In
  <2> QED
    BY <2>1, <2>4, <2>5
<1>5. ASSUME Apart(q)
      PROVE  Apart(<<Head(q)>>) /\ Apart(Tail(q)) /\ In(<<Head(q)>>) \cap In(Tail(q)) = {}
  <2>1. Apart(<<Head(q)>>)
    BY <1>3 DEF Apart
  <2>2. Apart(Tail(q))
    <3> SUFFICES ASSUME NEW i \in DOMAIN Tail(q), NEW j \in DOMAIN Tail(q), i # j
                 PROVE  Span(Tail(q)[i]) \cap Span(Tail(q)[j]) = {}
      BY DEF Apart
    <3>1. /\ i + 1 # j + 1 /\ i + 1 \in DOMAIN q /\ j + 1 \in DOMAIN q
          /\ Tail(q)[i] = q[i + 1] /\ Tail(q)[j] = q[j + 1]
      BY <1>1, <1>2
    <3> QED
      BY <3>1, <1>5 DEF Apart
  <2>3. In(<<Head(q)>>) \cap In(Tail(q)) = {}
    <3> SUFFICES ASSUME NEW j \in DOMAIN Tail(q) PROVE Span(q[1]) \cap Span(Tail(q)[j]) = {}
      BY <1>3 DEF In
    <3>1. j + 1 # 1 /\ j + 1 \in DOMAIN q /\ Tail(q)[j] = q[j + 1]
      BY <1>1, <1>2
    <3> QED
      BY <3>1, <1>1, <1>5 DEF Apart
  <2> QED
    BY <2>1, <2>2, <2>3
<1> QED
  BY <1>1, <1>3, <1>4, <1>5

\* The places from the i-th on where the pieces follow on each other.
Follow(p, i) == {j \in i .. Len(p) : \A m \in i .. j : p[m] = p[i] + (m - i)}

LEMMA RunSound ==
    ASSUME NEW p \in Seq(Piece), NEW i \in DOMAIN p
    PROVE  \E k \in i .. Len(p) :
              /\ Follow(p, i) = i .. k
              /\ \A m \in i .. k : p[m] = p[i] + (m - i)
              /\ Run(p, i) = [start |-> p[i], end |-> p[i] + (k - i) + 1]
              /\ Run(p, i) \in Solid
              /\ Span(Run(p, i)) = p[i] .. p[i] + (k - i)
<1>1. /\ Len(p) \in Nat /\ i \in 1 .. Len(p) /\ \A j \in 1 .. Len(p) : p[j] \in Piece
      /\ \A j \in 1 .. Len(p) : p[j] \in Int
  <2>1. Len(p) \in Nat /\ i \in 1 .. Len(p) /\ \A j \in 1 .. Len(p) : p[j] \in Piece
    OBVIOUS
  <2>2. Piece \in SUBSET Int
    BY PieceFacts
  <2> QED
    BY <2>1, <2>2
<1>2. i \in Follow(p, i)
  BY <1>1 DEF Follow
<1> DEFINE S == {Len(p) - j : j \in Follow(p, i)}
<1>3. S \in SUBSET Nat /\ S # {}
  BY <1>1, <1>2 DEF Follow
<1>4. PICK s \in S : \A x \in S : s <= x
  BY <1>3, LeastOf
<1>5. PICK k \in Follow(p, i) : s = Len(p) - k
  OBVIOUS
<1>6. k \in i .. Len(p) /\ \A m \in i .. k : p[m] = p[i] + (m - i)
  BY <1>5 DEF Follow
<1>7. Follow(p, i) = i .. k
  <2>1. ASSUME NEW j \in Follow(p, i) PROVE j \in i .. k
    <3>1. Len(p) - j \in S /\ j \in i .. Len(p)
      BY DEF Follow
    <3>2. Len(p) - k <= Len(p) - j
      BY <3>1, <1>4, <1>5
    <3> QED
      BY <3>1, <3>2, <1>1, <1>6
  <2>2. ASSUME NEW j \in i .. k PROVE j \in Follow(p, i)
    <3>1. /\ j \in i .. Len(p) /\ \A m \in i .. j : m \in i .. k
      BY <1>1, <1>6
    <3>2. \A m \in i .. j : p[m] = p[i] + (m - i)
      BY <3>1, <1>6
    <3> QED
      BY <3>1, <3>2 DEF Follow
  <2> QED
    BY <2>1, <2>2
<1>8. Cardinality(Follow(p, i)) = k - i + 1
  <2>1. i \in Int /\ k \in Int /\ i <= k
    BY <1>1, <1>6
  <2> QED
    BY <2>1, <1>7, FS_Interval
<1>9. Run(p, i) = [start |-> p[i], end |-> p[i] + Cardinality(Follow(p, i))]
  BY DEF Run, Follow
<1>10. Run(p, i) = [start |-> p[i], end |-> p[i] + (k - i) + 1]
  BY <1>8, <1>9, <1>1, <1>6
<1>11. p[k] = p[i] + (k - i) /\ p[k] \in Piece /\ p[i] \in Piece
  BY <1>1, <1>6
<1>12. /\ Run(p, i).start = p[i] /\ Run(p, i).end = p[i] + (k - i) + 1
       /\ p[i] \in 0 .. PieceCount /\ p[i] + (k - i) + 1 \in 0 .. PieceCount
       /\ p[i] < p[i] + (k - i) + 1 /\ p[i] \in Int /\ k - i \in Int
  <2>1. Run(p, i).start = p[i] /\ Run(p, i).end = p[i] + (k - i) + 1
    BY <1>10
  <2>2. i \in Int /\ k \in Int /\ i <= k /\ p[i] \in Int /\ PieceCount \in Int
    BY <1>1, <1>6, CountAssumption
  <2>3. p[i] + (k - i) \in 0 .. PieceCount - 1 /\ p[i] \in 0 .. PieceCount - 1
    BY <1>11 DEF Piece
  <2> QED
    BY <2>1, <2>2, <2>3
<1>13. Run(p, i) \in Solid
  BY <1>10, <1>12 DEF Solid, PieceRange, NonEmpty
<1>14. Span(Run(p, i)) = p[i] .. p[i] + (k - i)
  BY <1>12 DEF Span
<1> QED
  BY <1>6, <1>7, <1>10, <1>13, <1>14

\* Two runs that share a piece begin at the same place.
LEMMA RunsMeet ==
    ASSUME NEW p \in Seq(Piece), NEW a \in DOMAIN p, NEW b \in DOMAIN p,
           \A i, j \in DOMAIN p : p[i] = p[j] => i = j,
           a = 1 \/ p[a] # p[a - 1] + 1, b = 1 \/ p[b] # p[b - 1] + 1,
           NEW x \in Span(Run(p, a)), x \in Span(Run(p, b))
    PROVE  a = b
<1>0. DOMAIN p = 1 .. Len(p) /\ Len(p) \in Nat /\ p[a] \in Int /\ p[b] \in Int
  <2>1. DOMAIN p = 1 .. Len(p) /\ Len(p) \in Nat /\ p[a] \in Piece /\ p[b] \in Piece
    OBVIOUS
  <2> QED
    BY <2>1, PieceFacts
<1>2. PICK k \in a .. Len(p) : /\ \A q \in a .. k : p[q] = p[a] + (q - a)
                               /\ Span(Run(p, a)) = p[a] .. p[a] + (k - a)
  BY RunSound
<1>3. PICK l \in b .. Len(p) : /\ \A q \in b .. l : p[q] = p[b] + (q - b)
                               /\ Span(Run(p, b)) = p[b] .. p[b] + (l - b)
  BY RunSound
<1>4. x \in p[a] .. p[a] + (k - a) /\ x \in p[b] .. p[b] + (l - b)
  BY <1>2, <1>3
<1>5. /\ k \in Int /\ l \in Int /\ k <= Len(p) /\ l <= Len(p) /\ x \in Int
      /\ a \in Int /\ b \in Int /\ 1 <= a /\ 1 <= b
  BY <1>0, <1>2, <1>3, <1>4
<1>6. PICK i \in a .. k : i = a + (x - p[a])
  BY <1>0, <1>4, <1>5
<1>7. PICK j \in b .. l : j = b + (x - p[b])
  BY <1>0, <1>4, <1>5
<1>8. p[i] = p[a] + (i - a) /\ p[j] = p[b] + (j - b)
  BY <1>2, <1>3
<1>9. p[a] + (i - a) = x /\ p[b] + (j - b) = x
  <2>1. i = a + (x - p[a])
    BY <1>6
  <2>2. j = b + (x - p[b])
    BY <1>7
  <2>3. i \in Int /\ j \in Int
    BY <1>5
  <2>4. p[a] + (i - a) = x
    BY <1>0, <1>5, <2>1, <2>3
  <2>5. p[b] + (j - b) = x
    BY <1>0, <1>5, <2>2, <2>3
  <2> QED
    BY <2>4, <2>5
<1>10. i = j
  <2>1. i \in DOMAIN p /\ j \in DOMAIN p
    BY <1>0, <1>5
  <2> QED
    BY <2>1, <1>8, <1>9
<1>11. CASE a < b
  <2>1. b \in a .. k /\ b - 1 \in a .. k
    BY <1>11, <1>5, <1>10
  <2>2. p[b] = p[a] + (b - a) /\ p[b - 1] = p[a] + (b - 1 - a)
    BY <2>1, <1>2
  <2>3. p[b] = p[b - 1] + 1
    BY <2>2, <1>0, <1>5
  <2> QED
    BY <2>3, <1>5, <1>11
<1>12. CASE b < a
  <2>1. a \in b .. l /\ a - 1 \in b .. l
    BY <1>12, <1>5, <1>10
  <2>2. p[a] = p[b] + (a - b) /\ p[a - 1] = p[b] + (a - 1 - b)
    BY <2>1, <1>3
  <2>3. p[a] = p[a - 1] + 1
    BY <2>2, <1>0, <1>5
  <2> QED
    BY <2>3, <1>5, <1>12
<1> QED
  BY <1>5, <1>11, <1>12

\* The runs of a sequence of pieces hold just those pieces, and do not
\* overlap when no piece comes twice.
LEMMA RunsSound ==
    ASSUME NEW p \in Seq(Piece)
    PROVE  /\ Runs(p) \in Seq(Solid)
           /\ In(Runs(p)) = {p[i] : i \in DOMAIN p}
           /\ (\A i, j \in DOMAIN p : p[i] = p[j] => i = j) => Apart(Runs(p))
<1> DEFINE H == {i \in DOMAIN p : i = 1 \/ p[i] # p[i - 1] + 1}
           at == Ascending(H)
<1>1. H \in SUBSET Int /\ IsFiniteSet(H)
  <2>1. H \in SUBSET (1 .. Len(p)) /\ IsFiniteSet(1 .. Len(p))
    <3>1. DOMAIN p = 1 .. Len(p) /\ Len(p) \in Nat
      OBVIOUS
    <3>2. H \in SUBSET (1 .. Len(p))
      BY <3>1
    <3> QED
      BY <3>1, <3>2, FS_Interval
  <2> QED
    BY <2>1, FS_Subset
<1>0. /\ \A i \in H : i \in DOMAIN p /\ (i = 1 \/ p[i] # p[i - 1] + 1)
      /\ \A i \in DOMAIN p : i \notin H => i # 1 /\ p[i] = p[i - 1] + 1
      /\ DOMAIN p = 1 .. Len(p) /\ Len(p) \in Nat
      /\ \A i \in DOMAIN p : p[i] \in Int
  <2>1. DOMAIN p = 1 .. Len(p) /\ Len(p) \in Nat /\ \A i \in DOMAIN p : p[i] \in Piece
    OBVIOUS
  <2>2. \A i \in DOMAIN p : p[i] \in Int
    BY <2>1, PieceFacts
  <2> QED
    BY <2>1, <2>2
<1>p. Runs(p) = [k \in DOMAIN at |-> Run(p, at[k])]
  BY DEF Runs
<1> HIDE DEF H, at
<1>2. /\ at \in Seq(H)
      /\ Len(at) = Cardinality(H) /\ Cardinality(H) \in Nat
      /\ \A x \in H : \E i \in 1 .. Cardinality(H) : at[i] = x
      /\ \A i, j \in 1 .. Cardinality(H) : at[i] = at[j] => i = j
  BY <1>1, AscendingSound DEF at
<1>3. DOMAIN at = 1 .. Cardinality(H) /\ \A k \in 1 .. Cardinality(H) : at[k] \in H
  BY <1>2
<1>4. Runs(p) = [k \in 1 .. Cardinality(H) |-> Run(p, at[k])]
  BY <1>p, <1>3
<1>5. \A k \in 1 .. Cardinality(H) : Run(p, at[k]) \in Solid
  BY <1>0, <1>3, RunSound
<1>6. Runs(p) \in Seq(Solid) /\ Len(Runs(p)) = Cardinality(H)
      /\ DOMAIN Runs(p) = 1 .. Cardinality(H)
      /\ \A k \in 1 .. Cardinality(H) : Runs(p)[k] = Run(p, at[k])
  <2>1. Runs(p) \in [1 .. Cardinality(H) -> Solid]
    BY <1>4, <1>5
  <2>2. Runs(p) \in Seq(Solid) /\ Len(Runs(p)) = Cardinality(H)
    BY <2>1, <1>2
  <2> QED
    BY <2>2, <1>4
<1>7. In(Runs(p)) \subseteq {p[i] : i \in DOMAIN p}
  <2> SUFFICES ASSUME NEW n \in 1 .. Cardinality(H), NEW x \in Span(Run(p, at[n]))
               PROVE  x \in {p[i] : i \in DOMAIN p}
    BY <1>6 DEF In
  <2> DEFINE i == at[n]
  <2>1. i \in DOMAIN p
    BY <1>0, <1>3
  <2>2. PICK k \in i .. Len(p) : /\ \A m \in i .. k : p[m] = p[i] + (m - i)
                                 /\ Span(Run(p, i)) = p[i] .. p[i] + (k - i)
    BY <2>1, RunSound
  <2>3. x \in p[i] .. p[i] + (k - i) /\ p[i] \in Int /\ i \in 1 .. Len(p)
    BY <2>1, <2>2, <1>0
  <2> HIDE DEF i
  <2>4. PICK m \in i .. k : m = i + (x - p[i])
    BY <2>3
  <2>5. p[m] = p[i] + (m - i)
    BY <2>2, <2>4
  <2>6. p[m] = x /\ m \in DOMAIN p
    BY <2>3, <2>4, <2>5, <1>0
  <2> QED
    BY <2>6
<1>8. ASSUME NEW j \in DOMAIN p PROVE p[j] \in In(Runs(p))
  <2> DEFINE S == {i \in DOMAIN p : j \in Follow(p, i)}
  <2>1. S \in SUBSET Nat /\ j \in S
    BY <1>0 DEF Follow
  <2>2. PICK i \in S : \A x \in S : i <= x
    BY <2>1, LeastOf
  <2>3. /\ i \in DOMAIN p /\ j \in i .. Len(p) /\ i \in 1 .. Len(p)
        /\ \A m \in i .. j : p[m] = p[i] + (m - i)
    BY <1>0 DEF Follow
  <2>4. i \in H
    <3>1. SUFFICES ASSUME i # 1, p[i] = p[i - 1] + 1 PROVE FALSE
      BY <2>3, <1>0
    <3>2. i - 1 \in DOMAIN p /\ p[i - 1] \in Int
      BY <3>1, <2>3, <1>0
    <3>3. ASSUME NEW m \in i - 1 .. j PROVE p[m] = p[i - 1] + (m - (i - 1))
      <4>1. CASE m = i - 1
        BY <4>1, <3>2
      <4>2. CASE m # i - 1
        <5>1. m \in i .. j
          BY <4>2, <2>3
        <5>2. p[m] = p[i] + (m - i)
          BY <5>1, <2>3
        <5> QED
          BY <5>1, <5>2, <3>1, <3>2, <2>3
      <4> QED
        BY <4>1, <4>2
    <3>4. i - 1 \in S
      BY <3>2, <3>3, <2>3 DEF Follow
    <3> QED
      BY <3>4, <2>2, <2>3
  <2>5. PICK n \in 1 .. Cardinality(H) : at[n] = i
    BY <2>4, <1>2
  <2>6. PICK k \in i .. Len(p) : /\ Follow(p, i) = i .. k
                                 /\ Span(Run(p, i)) = p[i] .. p[i] + (k - i)
    BY <2>3, RunSound
  <2>7. j \in i .. k /\ p[j] = p[i] + (j - i) /\ p[i] \in Int
    BY <2>3, <2>6, <1>0
  <2>8. p[j] \in Span(Run(p, i))
    BY <2>3, <2>6, <2>7
  <2> QED
    BY <2>5, <2>8, <1>6 DEF In
<1>9. ASSUME \A i, j \in DOMAIN p : p[i] = p[j] => i = j PROVE Apart(Runs(p))
  <2> SUFFICES ASSUME NEW m \in 1 .. Cardinality(H), NEW n \in 1 .. Cardinality(H), m # n,
                      NEW x \in Span(Run(p, at[m])), x \in Span(Run(p, at[n]))
               PROVE  FALSE
    BY <1>6 DEF Apart
  <2>1. at[m] \in H /\ at[n] \in H /\ at[m] # at[n]
    BY <1>2, <1>3
  <2>2. at[m] \in DOMAIN p /\ at[n] \in DOMAIN p
    BY <2>1, <1>0
  <2>3. at[m] = at[n]
    BY <2>1, <2>2, <1>0, <1>9, RunsMeet
  <2> QED
    BY <2>1, <2>3
<1> QED
  BY <1>6, <1>7, <1>8, <1>9

LEMMA RangesSound ==
    ASSUME NEW S \in SUBSET Piece
    PROVE  /\ Ranges(S) \in Seq(Solid)
           /\ In(Ranges(S)) = S
           /\ S # {} <=> Ranges(S) # <<>>
           /\ Apart(Ranges(S))
<1>1. S \in SUBSET Int /\ IsFiniteSet(S)
  BY PieceFacts
<1>2. /\ Ascending(S) \in Seq(S)
      /\ Len(Ascending(S)) = Cardinality(S) /\ Cardinality(S) \in Nat
      /\ \A x \in S : \E i \in 1 .. Cardinality(S) : Ascending(S)[i] = x
      /\ \A i, j \in 1 .. Cardinality(S) : Ascending(S)[i] = Ascending(S)[j] => i = j
  BY <1>1, AscendingSound
<1> DEFINE p == Ascending(S)
<1>3. p \in Seq(Piece) /\ DOMAIN p = 1 .. Cardinality(S)
      /\ \A i \in DOMAIN p : p[i] \in S
  BY <1>2
<1>4. {p[i] : i \in DOMAIN p} = S
  BY <1>2, <1>3
<1>5. \A i, j \in DOMAIN p : p[i] = p[j] => i = j
  BY <1>2, <1>3
<1> HIDE DEF p
<1>6. /\ Runs(p) \in Seq(Solid)
      /\ In(Runs(p)) = S
      /\ Apart(Runs(p))
  BY <1>3, <1>4, <1>5, RunsSound
<1>7. Ranges(S) = Runs(p)
  BY DEF Ranges, p
<1> QED
  BY <1>6, <1>7, EmptyQueue

\* A queue without the pieces of S.
LEMMA RemainingSound ==
    ASSUME NEW q \in Seq(Solid), NEW S
    PROVE  LET left == Runs(Listed({a \in Places(q) : a[2] \notin S})) IN
           /\ left \in Seq(Solid)
           /\ In(left) = In(q) \ S
           /\ Apart(q) => Apart(left)
<1> DEFINE P == {a \in Places(q) : a[2] \notin S}
<1>1. /\ \A i \in DOMAIN q : q[i] \in Solid /\ q[i] \in PieceRange /\ Span(q[i]) \subseteq Piece
      /\ DOMAIN q = 1 .. Len(q) /\ Len(q) \in Nat
  <2>1. DOMAIN q = 1 .. Len(q) /\ Len(q) \in Nat /\ \A i \in DOMAIN q : q[i] \in Solid
    OBVIOUS
  <2> QED
    BY <2>1, PieceFacts
<1>2. \A a \in Places(q) : /\ a \in (1 .. Len(q)) \X Piece
                           /\ a[1] \in DOMAIN q /\ a[2] \in Span(q[a[1]]) /\ a[2] \in Piece
                           /\ a = <<a[1], a[2]>>
  <2> SUFFICES ASSUME NEW i \in DOMAIN q, NEW a \in {i} \X Span(q[i])
               PROVE  /\ a \in (1 .. Len(q)) \X Piece
                      /\ a[1] \in DOMAIN q /\ a[2] \in Span(q[a[1]]) /\ a[2] \in Piece
                      /\ a = <<a[1], a[2]>>
    BY DEF Places
  <2>1. a[1] = i /\ a[2] \in Span(q[i]) /\ a = <<a[1], a[2]>>
    OBVIOUS
  <2>2. i \in 1 .. Len(q) /\ a[2] \in Piece
    BY <2>1, <1>1
  <2>3. \A x \in 1 .. Len(q), y \in Piece : <<x, y>> \in (1 .. Len(q)) \X Piece
    OBVIOUS
  <2> QED
    BY <2>1, <2>2, <2>3
<1>3. \A i \in DOMAIN q : \A x \in Span(q[i]) : <<i, x>> \in Places(q)
  BY DEF Places
<1>4. /\ \A a \in P : a \in Places(q) /\ a[2] \notin S
      /\ \A a \in Places(q) : a[2] \notin S => a \in P
  OBVIOUS
<1> HIDE DEF P
<1>5. P \in SUBSET ((1 .. Len(q)) \X Piece)
  BY <1>2, <1>4
<1>6. IsFiniteSet(P)
  <2>1. IsFiniteSet(1 .. Len(q)) /\ IsFiniteSet(Piece)
    BY <1>1, PieceFacts, FS_Interval
  <2>2. IsFiniteSet((1 .. Len(q)) \X Piece)
    BY <2>1, FS_Product
  <2> QED
    BY <2>2, <1>5, FS_Subset
<1>7. P \in SUBSET (Int \X Int)
  <2>1. (1 .. Len(q)) \in SUBSET Int /\ Piece \in SUBSET Int
    BY <1>1, PieceFacts
  <2>2. (1 .. Len(q)) \X Piece \subseteq Int \X Int
    BY <2>1
  <2> QED
    BY <2>2, <1>5
<1> DEFINE p == Listed(P)
<1>8. /\ Cardinality(P) \in Nat
      /\ DOMAIN p = 1 .. Cardinality(P)
      /\ Len(p) = Cardinality(P)
      /\ \A i \in DOMAIN p : \E a \in P : p[i] = a[2] /\ Place(P, a) = i
      /\ \A a \in P : Place(P, a) \in DOMAIN p /\ p[Place(P, a)] = a[2]
      /\ p \in Seq(Int)
  BY <1>6, <1>7, ListedSound
<1> HIDE DEF p
<1>9. \A i \in DOMAIN p : p[i] \in Piece
  BY <1>2, <1>4, <1>8
<1>10. p \in Seq(Piece)
  BY <1>8, <1>9
<1>11. {p[i] : i \in DOMAIN p} = In(q) \ S
  <2>1. ASSUME NEW i \in DOMAIN p PROVE p[i] \in In(q) \ S
    BY <1>2, <1>4, <1>8 DEF In
  <2>2. ASSUME NEW x \in In(q) \ S PROVE \E i \in DOMAIN p : p[i] = x
    <3>1. PICK i \in DOMAIN q : x \in Span(q[i])
      BY DEF In
    <3>2. <<i, x>> \in P /\ <<i, x>>[2] = x
      BY <3>1, <1>3, <1>4
    <3> QED
      BY <3>2, <1>8
  <2> QED
    BY <2>1, <2>2
<1>12. /\ Runs(p) \in Seq(Solid) /\ In(Runs(p)) = {p[i] : i \in DOMAIN p}
       /\ (\A i, j \in DOMAIN p : p[i] = p[j] => i = j) => Apart(Runs(p))
  BY <1>10, RunsSound
<1>13. ASSUME Apart(q), NEW i \in DOMAIN p, NEW j \in DOMAIN p, p[i] = p[j] PROVE i = j
  <2>1. PICK a \in P : p[i] = a[2] /\ Place(P, a) = i
    BY <1>8
  <2>2. PICK b \in P : p[j] = b[2] /\ Place(P, b) = j
    BY <1>8
  <2>3. /\ a[1] \in DOMAIN q /\ a[2] \in Span(q[a[1]]) /\ a = <<a[1], a[2]>>
        /\ b[1] \in DOMAIN q /\ b[2] \in Span(q[b[1]]) /\ b = <<b[1], b[2]>>
    BY <1>2, <1>4
  <2>4. a[2] = b[2]
    BY <2>1, <2>2, <1>13
  <2>5. a[1] = b[1]
    BY <2>3, <2>4, <1>13 DEF Apart
  <2> QED
    BY <2>1, <2>2, <2>3, <2>4, <2>5
<1> QED
  BY <1>11, <1>12, <1>13 DEF p, P

LEMMA WithoutSound ==
    ASSUME NEW q \in Seq(Solid), NEW i \in DOMAIN q
    PROVE  /\ Without(q, i) \in Seq(Solid)
           /\ Len(Without(q, i)) = Len(q) - 1
           /\ In(Without(q, i)) \cup Span(q[i]) = In(q)
<1>1. /\ Len(q) \in Nat /\ DOMAIN q = 1 .. Len(q) /\ i \in 1 .. Len(q)
      /\ \A j \in 1 .. Len(q) : q[j] \in Solid
  OBVIOUS
<1>2. /\ DOMAIN Without(q, i) = 1 .. Len(q) - 1
      /\ \A j \in 1 .. Len(q) - 1 : Without(q, i)[j] = IF j < i THEN q[j] ELSE q[j + 1]
  BY DEF Without
<1>3. \A j \in 1 .. Len(q) - 1 : (IF j < i THEN q[j] ELSE q[j + 1]) \in Solid
  BY <1>1
<1>4. Without(q, i) \in Seq(Solid) /\ Len(Without(q, i)) = Len(q) - 1
  <2>1. Without(q, i) \in [1 .. Len(q) - 1 -> Solid]
    BY <1>3 DEF Without
  <2>2. Len(q) - 1 \in Nat
    BY <1>1
  <2> QED
    BY <2>1, <2>2
<1>5. \A j \in DOMAIN Without(q, i) : \E k \in DOMAIN q : Without(q, i)[j] = q[k]
  BY <1>1, <1>2
<1>6. \A k \in DOMAIN q : k = i \/ \E j \in DOMAIN Without(q, i) : Without(q, i)[j] = q[k]
  <2> SUFFICES ASSUME NEW k \in DOMAIN q, k # i
               PROVE  \E j \in DOMAIN Without(q, i) : Without(q, i)[j] = q[k]
    OBVIOUS
  <2>1. CASE k < i
    BY <2>1, <1>1, <1>2
  <2>2. CASE k > i
    <3>1. k - 1 \in 1 .. Len(q) - 1 /\ ~(k - 1 < i) /\ k - 1 + 1 = k
      BY <2>2, <1>1
    <3> QED
      BY <3>1, <1>2
  <2> QED
    BY <2>1, <2>2, <1>1
<1>7. In(Without(q, i)) \subseteq In(q) /\ Span(q[i]) \subseteq In(q)
  BY <1>5 DEF In
<1>8. In(q) \subseteq In(Without(q, i)) \cup Span(q[i])
  BY <1>6 DEF In
<1> QED
  BY <1>4, <1>7, <1>8

\* The peers probed are among the chosen ones, the pieces among the needed
\* ones, and there is a probe when there can be.
LEMMA ProbesSound ==
    ASSUME NEW needed \in SUBSET Piece, NEW peers \in SUBSET Peer, NEW slots \in Nat
    PROVE  LET probes == Probes(needed, peers, slots) IN
           /\ DOMAIN probes \in SUBSET needed
           /\ \A x \in DOMAIN probes : probes[x] \in peers
           /\ needed # {} /\ peers # {} /\ slots >= 1 => DOMAIN probes # {}
<1> DEFINE probes == Probes(needed, peers, slots)
           D == {x \in needed : Rank(needed, x) <= Lesser(slots, Cardinality(peers))}
<1>1. probes = [x \in D |-> Ascending(peers)[Rank(needed, x)]]
  BY DEF Probes
<1>2. IsFiniteSet(needed) /\ needed \in SUBSET Int
  BY PieceFacts
<1>3. peers \in SUBSET Int /\ IsFiniteSet(peers)
  <2>1. IsFiniteSet(Peer) /\ Peer \in SUBSET Int
    BY CountAssumption, FS_Interval DEF Peer
  <2> QED
    BY <2>1, FS_Subset
<1>4. /\ Ascending(peers) \in Seq(peers)
      /\ Len(Ascending(peers)) = Cardinality(peers) /\ Cardinality(peers) \in Nat
  BY <1>3, AscendingSound
<1>5. ASSUME NEW x \in needed PROVE Rank(needed, x) \in Nat /\ Rank(needed, x) >= 1
  <2>1. {y \in needed : y <= x} \in SUBSET needed /\ x \in {y \in needed : y <= x}
    BY <1>2
  <2>2. IsFiniteSet({y \in needed : y <= x})
    BY <2>1, <1>2, FS_Subset
  <2>3. Cardinality({y \in needed : y <= x}) \in Nat /\ Cardinality({y \in needed : y <= x}) # 0
    BY <2>1, <2>2, FS_CardinalityType, FS_EmptySet
  <2> QED
    BY <2>3 DEF Rank
<1>6. D \in SUBSET needed /\ DOMAIN probes = D
  BY <1>1
<1>7. ASSUME NEW x \in D PROVE probes[x] \in peers
  <2>1. Rank(needed, x) \in 1 .. Cardinality(peers)
    BY <1>4, <1>5 DEF Lesser
  <2>2. probes[x] = Ascending(peers)[Rank(needed, x)]
    BY <1>1
  <2> QED
    BY <2>1, <2>2, <1>4
<1>8. ASSUME needed # {}, peers # {}, slots >= 1 PROVE D # {}
  <2>1. needed \in SUBSET Nat
    BY CountAssumption DEF Piece
  <2>2. PICK x \in needed : \A y \in needed : x <= y
    BY <2>1, <1>8, LeastOf
  <2>3. {y \in needed : y <= x} = {x}
    <3>1. \A y \in needed : y \in Int /\ x \in Int /\ x <= y
      BY <2>2, <1>2
    <3>2. \A y \in needed : y <= x => y = x
      BY <3>1
    <3> QED
      BY <3>1, <3>2
  <2>4. Rank(needed, x) = 1
    BY <2>3, FS_Singleton DEF Rank
  <2>5. Cardinality(peers) >= 1
    BY <1>3, <1>4, <1>8, FS_EmptySet
  <2>6. x \in D
    BY <2>4, <2>5, <1>4, <1>8 DEF Lesser
  <2> QED
    BY <2>6
<1> HIDE DEF D, probes
<1>9. /\ DOMAIN probes \in SUBSET needed
      /\ \A x \in DOMAIN probes : probes[x] \in peers
      /\ needed # {} /\ peers # {} /\ slots >= 1 => DOMAIN probes # {}
  BY <1>6, <1>7, <1>8
<1> QED
  BY <1>9 DEF probes

-----------------------------------------------------------------------------
(* What every state of the core keeps to.                                  *)

\* As Lane and TransferState, but no range in a lane is empty.
SolidLane == [queue : Seq(Solid), flight : Seq(Solid), retired : BOOLEAN,
              measured : BOOLEAN]

SolidState ==
    [mode : {"mixed", "exclusive", "peer_only"}, sound : BOOLEAN,
     started : BOOLEAN, due : BOOLEAN, floor : BOOLEAN, finished : BOOLEAN,
     verified : SUBSET Piece, lane : [Source -> SolidLane],
     probes : SUBSET Peer, spare : SUBSET Peer, pending : SUBSET Piece,
     duplicated : SUBSET Piece, begun : BOOLEAN, live : SUBSET Peer,
     ended : Seq({"deliver", "fail"})]

LEMMA SourceFacts ==
    /\ Origin \in Source /\ Origin \notin Peer /\ Peer \subseteq Source
    /\ \A s \in Source : s # Origin <=> s \in Peer
    /\ Peer \in SUBSET Int /\ IsFiniteSet(Peer) /\ PeerCount \in Nat
    /\ Source \in SUBSET Int /\ IsFiniteSet(Source)
<1>1. Origin \in Source /\ Origin \notin Peer /\ Peer \subseteq Source
      /\ \A s \in Source : s # Origin <=> s \in Peer
  BY DEF Origin, Source, Peer
<1>2. Peer \in SUBSET Int /\ IsFiniteSet(Peer) /\ PeerCount \in Nat
  BY CountAssumption, FS_Interval DEF Peer
<1>3. Source \in SUBSET Int /\ IsFiniteSet(Source)
  <2>1. IsFiniteSet(Peer \cup {Origin})
    BY <1>2, FS_AddElement
  <2> QED
    BY <2>1, <1>2 DEF Source, Origin
<1> QED
  BY <1>1, <1>2, <1>3

\* What issue moves from the queue of a lane to its flight.
LEMMA SendableSound ==
    ASSUME NEW T \in SolidState, NEW s \in Source
    PROVE  /\ Sendable(T, s) \in Nat
           /\ T.lane[s].queue = <<>> => Sendable(T, s) = 0
           /\ T.lane[s].queue # <<>> /\ T.lane[s].flight = <<>> => Sendable(T, s) >= 1
           /\ s \in Peer /\ T.lane[s].flight # <<>> => Sendable(T, s) = 0
           /\ s \in Peer /\ T.lane[s].queue # <<>> =>
                Sendable(T, s) <= Head(T.lane[s].queue).end - Head(T.lane[s].queue).start
<1> DEFINE q == T.lane[s].queue
           n == Length(q)
<1>1. T.lane[s] \in SolidLane /\ q \in Seq(Solid) /\ T.lane[s].flight \in Seq(Solid)
  BY DEF SolidState, SolidLane
<1>2. n \in Nat /\ (q # <<>> => n >= 1)
  BY <1>1, LengthSound
<1>3. q = <<>> => n = 0
  <2>1. Places(<<>>) = {}
    BY DEF Places
  <2> QED
    BY <2>1, FS_EmptySet DEF Length
<1>4. ASSUME s # Origin, q # <<>>
      PROVE  Lesser(PeerCap, Head(q).end - Head(q).start) \in Nat
             /\ Lesser(PeerCap, Head(q).end - Head(q).start) >= 1
             /\ Lesser(PeerCap, Head(q).end - Head(q).start) <= Head(q).end - Head(q).start
  <2>1. Head(q) \in Solid
    BY <1>1, <1>4
  <2>2. Head(q).start \in Int /\ Head(q).end \in Int /\ Head(q).start < Head(q).end
    BY <2>1, PieceFacts
  <2> QED
    BY <2>2, CapAssumption DEF Lesser
<1>5. /\ n - Lesser(TailCap, Less(n, 1)) \in Nat
      /\ n >= 1 => n - Lesser(TailCap, Less(n, 1)) >= 1
      /\ n = 0 => n - Lesser(TailCap, Less(n, 1)) = 0
  BY <1>2, CapAssumption DEF Lesser, Less
<1>6. Sendable(T, s) =
        IF s # Origin
        THEN IF T.lane[s].flight # <<>> \/ n = 0 THEN 0
             ELSE Lesser(PeerCap, Head(q).end - Head(q).start)
        ELSE IF T.mode = "exclusive" /\ T.lane[s].flight # <<>> THEN 0
        ELSE IF HoldTail(T) THEN n - Lesser(TailCap, Less(n, 1))
        ELSE n
  BY DEF Sendable
<1>7. s \in Peer => s # Origin
  BY SourceFacts
<1> HIDE DEF n
<1>8. CASE s # Origin
  <2>1. CASE T.lane[s].flight # <<>> \/ n = 0
    <3>1. Sendable(T, s) = 0
      BY <1>6, <1>8, <2>1
    <3>2. q # <<>> => Head(q).end - Head(q).start >= 0
      <4> SUFFICES ASSUME q # <<>> PROVE Head(q).end - Head(q).start >= 0
        OBVIOUS
      <4>1. Head(q) \in Solid
        BY <1>1
      <4>2. Head(q).start \in Int /\ Head(q).end \in Int /\ Head(q).start < Head(q).end
        BY <4>1, PieceFacts
      <4> QED
        BY <4>2
    <3> QED
      BY <3>1, <3>2, <2>1, <1>2
  <2>2. CASE ~(T.lane[s].flight # <<>> \/ n = 0)
    <3>1. Sendable(T, s) = Lesser(PeerCap, Head(q).end - Head(q).start) /\ q # <<>>
      BY <1>6, <1>8, <2>2, <1>3
    <3> QED
      BY <3>1, <1>4, <1>8, <2>2
  <2> QED
    BY <2>1, <2>2
<1>9. CASE s = Origin
  <2>1. Sendable(T, s) = 0 \/ Sendable(T, s) = n \/ Sendable(T, s) = n - Lesser(TailCap, Less(n, 1))
    BY <1>6, <1>9
  <2>2. T.lane[s].flight = <<>> =>
          Sendable(T, s) = n \/ Sendable(T, s) = n - Lesser(TailCap, Less(n, 1))
    BY <1>6, <1>9
  <2>3. Sendable(T, s) \in Nat
    BY <2>1, <1>2, <1>5
  <2>4. q = <<>> => Sendable(T, s) = 0
    BY <2>1, <1>3, <1>5
  <2>5. q # <<>> /\ T.lane[s].flight = <<>> => Sendable(T, s) >= 1
    BY <2>2, <1>2, <1>5
  <2> QED
    BY <2>3, <2>4, <2>5, <1>7, <1>9
<1> QED
  BY <1>8, <1>9

LEMMA LaneWith ==
    ASSUME NEW a \in SolidLane, NEW q \in Seq(Solid), NEW f \in Seq(Solid)
    PROVE  LET l == [a EXCEPT !.flight = f, !.queue = q] IN
           /\ l \in SolidLane /\ l.queue = q /\ l.flight = f
           /\ l.retired = a.retired /\ l.measured = a.measured
  BY DEF SolidLane

LEMMA SentFields ==
    ASSUME NEW a \in SolidLane, NEW n, Rest(a.queue, n) \in Seq(Solid),
           a.flight \o First(a.queue, n) \in Seq(Solid)
    PROVE  /\ Sent(a, n) \in SolidLane
           /\ Sent(a, n).queue = Rest(a.queue, n)
           /\ Sent(a, n).flight = a.flight \o First(a.queue, n)
           /\ Sent(a, n).retired = a.retired /\ Sent(a, n).measured = a.measured
<1> DEFINE q == Rest(a.queue, n)
           f == a.flight \o First(a.queue, n)
<1>1. Sent(a, n) = [a EXCEPT !.flight = f, !.queue = q]
  BY DEF Sent
<1> HIDE DEF q, f
<1>2. q \in Seq(Solid) /\ f \in Seq(Solid)
  BY DEF q, f
<1>3. /\ Sent(a, n) \in SolidLane /\ Sent(a, n).queue = q /\ Sent(a, n).flight = f
      /\ Sent(a, n).retired = a.retired /\ Sent(a, n).measured = a.measured
  <2> DEFINE l == [a EXCEPT !.flight = f, !.queue = q]
  <2>1. /\ l \in SolidLane /\ l.queue = q /\ l.flight = f
        /\ l.retired = a.retired /\ l.measured = a.measured
    BY <1>2, LaneWith
  <2>2. Sent(a, n) = l
    BY <1>1
  <2> HIDE DEF l
  <2> QED
    BY <2>1, <2>2
<1> QED
  BY <1>3 DEF q, f

\* What issue makes of a lane, from a to b, when ranges q come to its queue.
Served(s, a, b, q) ==
    /\ b \in SolidLane /\ b.retired = a.retired /\ b.measured = a.measured
    /\ In(b.queue) \cup In(b.flight) = In(a.queue) \cup In(a.flight) \cup In(q)
    /\ a.queue # <<>> \/ q # <<>> \/ a.flight # <<>> <=> b.flight # <<>>
    /\ Len(b.flight) >= Len(a.flight)
    /\ s \in Peer /\ a.flight # <<>> => b.flight = a.flight
    /\ s \in Peer /\ Len(a.flight) <= 1 => Len(b.flight) <= 1
    /\ In(b.flight) \subseteq In(a.queue) \cup In(a.flight) \cup In(q)
    /\ b.flight = <<>> => b.queue = <<>>
    /\ Apart(a.queue) /\ In(a.queue) \cap In(a.flight) = {} /\ Apart(q)
         /\ In(q) \cap (In(a.queue) \cup In(a.flight)) = {}
         => Apart(b.queue) /\ In(b.queue) \cap In(b.flight) = {}

\* u is T but for its lanes and its books, or but for its lanes and live.
Alike(T, u) ==
    /\ u.mode = T.mode /\ u.sound = T.sound /\ u.started = T.started /\ u.due = T.due
    /\ u.verified = T.verified

SameBut(T, u) ==
    /\ Alike(T, u)
    /\ u.floor = T.floor /\ u.finished = T.finished /\ u.ended = T.ended
    /\ u.probes = T.probes /\ u.spare = T.spare /\ u.pending = T.pending
    /\ u.duplicated = T.duplicated

LEMMA IssueSound ==
    ASSUME NEW T \in SolidState, NEW s \in Source
    PROVE  LET u == Issue(T, s) IN
           /\ u \in SolidState /\ SameBut(T, u)
           /\ \A x \in Source \ {s} : u.lane[x] = T.lane[x]
           /\ u.live = IF s \in Peer /\ T.lane[s].flight = <<>> /\ T.lane[s].queue # <<>>
                       THEN T.live \cup {s} ELSE T.live
           /\ u.lane[s] \in SolidLane /\ Served(s, T.lane[s], u.lane[s], <<>>)
<1> DEFINE u == Issue(T, s)
           n == Sendable(T, s)
           q == T.lane[s].queue
           f == T.lane[s].flight
           b == u.lane[s]
<1>1. T.lane[s] \in SolidLane /\ q \in Seq(Solid) /\ f \in Seq(Solid)
      /\ T.lane \in [Source -> SolidLane]
  BY DEF SolidState, SolidLane
<1>2. /\ n \in Nat
      /\ q = <<>> => n = 0
      /\ q # <<>> /\ f = <<>> => n >= 1
      /\ s \in Peer /\ f # <<>> => n = 0
      /\ s \in Peer /\ q # <<>> => n <= Head(q).end - Head(q).start
  BY SendableSound
<1> HIDE DEF n
<1>3. /\ First(q, n) \in Seq(Solid) /\ Rest(q, n) \in Seq(Solid)
      /\ In(First(q, n)) \cup In(Rest(q, n)) = In(q)
      /\ q # <<>> /\ n >= 1 => First(q, n) # <<>>
      /\ n = 0 => First(q, n) = <<>>
      /\ q # <<>> /\ n <= Head(q).end - Head(q).start => Len(First(q, n)) <= 1
      /\ Apart(q) => /\ Apart(First(q, n)) /\ Apart(Rest(q, n))
                     /\ In(First(q, n)) \cap In(Rest(q, n)) = {}
  BY <1>1, <1>2, SplitSound
<1>4. u = [T EXCEPT !.lane[s] = Sent(@, n),
                    !.begun = @ \/ (s = Origin /\ n > 0),
                    !.live = IF s # Origin /\ n > 0 THEN @ \cup {s} ELSE @]
  BY DEF Issue, n
<1>6. /\ f \o First(q, n) \in Seq(Solid)
      /\ In(f \o First(q, n)) = In(f) \cup In(First(q, n))
      /\ Len(f \o First(q, n)) = Len(f) + Len(First(q, n))
  BY <1>1, <1>3, InConcat
<1> DEFINE l == Sent(T.lane[s], n)
<1>8. /\ l \in SolidLane /\ l.queue = Rest(q, n) /\ l.flight = f \o First(q, n)
      /\ l.retired = T.lane[s].retired /\ l.measured = T.lane[s].measured
  BY <1>1, <1>3, <1>6, SentFields
<1> HIDE DEF l
<1>9. /\ u.lane = [T.lane EXCEPT ![s] = l]
      /\ u.begun = (T.begun \/ (s = Origin /\ n > 0))
      /\ u.live = IF s # Origin /\ n > 0 THEN T.live \cup {s} ELSE T.live
      /\ SameBut(T, u)
  BY <1>4 DEF SolidState, SameBut, Alike, l
<1>10. s # Origin <=> s \in Peer
  BY SourceFacts
<1>11. u \in SolidState
  <2>1. u.lane \in [Source -> SolidLane] /\ u.live \in SUBSET Peer /\ u.begun \in BOOLEAN
    BY <1>1, <1>8, <1>9, <1>10 DEF SolidState
  <2>2. u = [T EXCEPT !.lane = u.lane, !.begun = u.begun, !.live = u.live]
    BY <1>4 DEF SolidState
  <2> QED
    BY <2>1, <2>2 DEF SolidState
<1>12. /\ \A x \in Source \ {s} : u.lane[x] = T.lane[x]
       /\ b = l
  BY <1>1, <1>9
<1>13. n = 0 <=> ~(n > 0)
  BY <1>2
<1>14. u.live = IF s \in Peer /\ f = <<>> /\ q # <<>> THEN T.live \cup {s} ELSE T.live
  BY <1>2, <1>9, <1>10, <1>13
<1> HIDE DEF u, f, q
<1>15. Len(f) \in Nat /\ (Len(f) = 0 <=> f = <<>>)
       /\ Len(First(q, n)) \in Nat /\ (Len(First(q, n)) = 0 <=> First(q, n) = <<>>)
       /\ (Len(f \o First(q, n)) = 0 <=> f \o First(q, n) = <<>>)
  BY <1>1, <1>3, <1>6
<1>16. In(b.queue) \cup In(b.flight) = In(q) \cup In(f)
  BY <1>3, <1>6, <1>8, <1>12
<1>17. q # <<>> \/ f # <<>> <=> b.flight # <<>>
  BY <1>2, <1>3, <1>6, <1>8, <1>12, <1>15
<1>18. ASSUME s \in Peer, f # <<>> PROVE b.flight = f
  <2>1. First(q, n) = <<>> /\ b.flight = f \o First(q, n) /\ f \in Seq(Solid)
    BY <1>18, <1>1, <1>2, <1>3, <1>8, <1>12
  <2>2. f \o <<>> = f
    BY <2>1
  <2> QED
    BY <2>1, <2>2
<1>19. ASSUME s \in Peer, Len(f) <= 1 PROVE Len(b.flight) <= 1
  <2>1. CASE f # <<>>
    BY <2>1, <1>18, <1>19
  <2>2. CASE f = <<>> /\ q = <<>>
    BY <2>2, <1>17, <1>8, <1>12, <1>15, <1>6
  <2>3. CASE f = <<>> /\ q # <<>>
    BY <2>3, <1>2, <1>3, <1>6, <1>8, <1>12, <1>15, <1>19
  <2> QED
    BY <2>1, <2>2, <2>3
<1>22. In(<<>>) = {}
  BY DEF In
<1>20. b.flight = <<>> => b.queue = <<>>
  <2>1. SUFFICES ASSUME b.flight = <<>> PROVE b.queue = <<>>
    OBVIOUS
  <2>2. q = <<>> /\ f = <<>>
    BY <2>1, <1>17
  <2>3. In(b.queue) = {}
    BY <2>2, <1>16, <1>22
  <2>4. b.queue \in Seq(Solid)
    BY <1>8, <1>12, <1>3
  <2> QED
    BY <2>3, <2>4, EmptyQueue
<1>21. ASSUME Apart(q), In(q) \cap In(f) = {}
       PROVE  Apart(b.queue) /\ In(b.queue) \cap In(b.flight) = {}
  BY <1>21, <1>3, <1>6, <1>8, <1>12
<1>23. Served(s, T.lane[s], b, <<>>)
  <2>1. b \in SolidLane /\ b.retired = T.lane[s].retired /\ b.measured = T.lane[s].measured
    BY <1>8, <1>12
  <2>2. Len(b.flight) >= Len(f)
    BY <1>6, <1>8, <1>12, <1>15
  <2>3. In(b.flight) \subseteq In(q) \cup In(f) \cup In(<<>>)
    BY <1>16
  <2>4. In(b.queue) \cup In(b.flight) = In(q) \cup In(f) \cup In(<<>>)
    BY <1>16, <1>22
  <2>5. q # <<>> \/ <<>> # <<>> \/ f # <<>> <=> b.flight # <<>>
    BY <1>17
  <2>6. T.lane[s].queue = q /\ T.lane[s].flight = f
    BY DEF f, q
  <2> QED
    BY <2>1, <2>2, <2>3, <2>4, <2>5, <2>6, <1>18, <1>19, <1>20, <1>21 DEF Served
<1> QED
  BY <1>8, <1>11, <1>12, <1>9, <1>14, <1>23 DEF u, f, q

\* The same of lane s when pieces X come to it: b is a if there are none and
\* nothing is issued.
Got(s, a, b, X) ==
    /\ b \in SolidLane /\ b.retired = a.retired /\ b.measured = a.measured
    /\ In(b.queue) \cup In(b.flight) = In(a.queue) \cup In(a.flight) \cup X
    /\ a.flight # <<>> \/ X # {} => b.flight # <<>>
    /\ a.queue = <<>> /\ a.flight = <<>> /\ X = {} => b.queue = <<>> /\ b.flight = <<>>
    /\ Len(b.flight) >= Len(a.flight)
    /\ s \in Peer /\ a.flight # <<>> => b.flight = a.flight
    /\ s \in Peer /\ Len(a.flight) <= 1 => Len(b.flight) <= 1
    /\ a.queue = <<>> \/ a.flight # <<>> \/ X # {} => (b.flight = <<>> => b.queue = <<>>)
    /\ Apart(a.queue) /\ In(a.queue) \cap In(a.flight) = {}
         /\ X \cap (In(a.queue) \cup In(a.flight)) = {}
         => Apart(b.queue) /\ In(b.queue) \cap In(b.flight) = {}

LEMMA GotNothing ==
    ASSUME NEW s, NEW a \in SolidLane
    PROVE  Got(s, a, a, {})
<1>1. a.queue \in Seq(Solid) /\ a.flight \in Seq(Solid) /\ Len(a.flight) \in Nat
  BY DEF SolidLane
<1> QED
  BY <1>1 DEF Got

\* The lane before, with ranges put at the end of its queue.
LEMMA GotServed ==
    ASSUME NEW s \in Source, NEW a \in SolidLane, NEW q \in Seq(Solid), Apart(q),
           NEW c \in SolidLane, c.queue = a.queue \o q, c.flight = a.flight,
           c.retired = a.retired, c.measured = a.measured,
           NEW b \in SolidLane, Served(s, c, b, <<>>)
    PROVE  /\ Got(s, a, b, In(q))
           /\ b.flight = <<>> => b.queue = <<>>
           /\ b.flight # <<>> <=> a.flight # <<>> \/ a.queue # <<>> \/ q # <<>>
<1>1. a.queue \in Seq(Solid) /\ a.flight \in Seq(Solid)
  BY DEF SolidLane
<1>2. In(<<>>) = {} /\ Apart(<<>>)
  BY DEF In, Apart
<1>3. /\ In(c.queue) = In(a.queue) \cup In(q)
      /\ Len(c.queue) = Len(a.queue) + Len(q)
      /\ Apart(a.queue) /\ In(a.queue) \cap In(q) = {} => Apart(c.queue)
  BY <1>1, InConcat
<1>4. c.queue # <<>> <=> a.queue # <<>> \/ q # <<>>
  <2>1. Len(a.queue) \in Nat /\ Len(q) \in Nat /\ c.queue \in Seq(Solid)
    BY <1>1 DEF SolidLane
  <2>2. /\ Len(a.queue) = 0 <=> a.queue = <<>>
        /\ Len(q) = 0 <=> q = <<>>
        /\ Len(c.queue) = 0 <=> c.queue = <<>>
    BY <1>1, <2>1
  <2> QED
    BY <2>1, <2>2, <1>3
<1>5. In(q) = {} <=> q = <<>>
  BY EmptyQueue
<1>6. /\ b.retired = a.retired /\ b.measured = a.measured
      /\ In(b.queue) \cup In(b.flight) = In(c.queue) \cup In(a.flight) \cup {}
      /\ c.queue # <<>> \/ <<>> # <<>> \/ a.flight # <<>> <=> b.flight # <<>>
      /\ Len(b.flight) >= Len(a.flight)
      /\ s \in Peer /\ a.flight # <<>> => b.flight = a.flight
      /\ s \in Peer /\ Len(a.flight) <= 1 => Len(b.flight) <= 1
      /\ b.flight = <<>> => b.queue = <<>>
      /\ Apart(c.queue) /\ In(c.queue) \cap In(a.flight) = {}
           => Apart(b.queue) /\ In(b.queue) \cap In(b.flight) = {}
  BY <1>2 DEF Served
<1>7. Apart(a.queue) /\ In(a.queue) \cap In(a.flight) = {}
         /\ In(q) \cap (In(a.queue) \cup In(a.flight)) = {}
         => Apart(b.queue) /\ In(b.queue) \cap In(b.flight) = {}
  BY <1>3, <1>6
<1>8. In(b.queue) \cup In(b.flight) = In(a.queue) \cup In(a.flight) \cup In(q)
  BY <1>3, <1>6
<1>9. b.flight # <<>> <=> a.flight # <<>> \/ a.queue # <<>> \/ q # <<>>
  BY <1>4, <1>6
<1>10. /\ a.flight # <<>> \/ In(q) # {} => b.flight # <<>>
       /\ a.queue = <<>> /\ a.flight = <<>> /\ In(q) = {} => b.queue = <<>> /\ b.flight = <<>>
  BY <1>5, <1>6, <1>9
<1>11. Got(s, a, b, In(q))
  BY <1>6, <1>7, <1>8, <1>10 DEF Got
<1> QED
  BY <1>6, <1>9, <1>11

\* What the peers that had nothing in flight, and now have, make of live.
LiveAfter(T, u) ==
    {p \in Peer : p \in T.live \/ (T.lane[p].flight = <<>> /\ u.lane[p].flight # <<>>)}

LEMMA Queued ==
    ASSUME NEW T \in SolidState, NEW s \in Source, NEW q \in Seq(Solid)
    PROVE  LET v == [T EXCEPT !.lane[s].queue = @ \o q] IN
           /\ v \in SolidState /\ SameBut(T, v) /\ v.live = T.live
           /\ \A x \in Source \ {s} : v.lane[x] = T.lane[x]
           /\ v.lane[s] \in SolidLane
           /\ v.lane[s].queue = T.lane[s].queue \o q
           /\ v.lane[s].flight = T.lane[s].flight
           /\ v.lane[s].retired = T.lane[s].retired
           /\ v.lane[s].measured = T.lane[s].measured
<1> DEFINE a == T.lane[s]
           c == a.queue \o q
           l == [a EXCEPT !.queue = c]
           v == [T EXCEPT !.lane[s].queue = @ \o q]
           L == [T.lane EXCEPT ![s] = l]
<1>1. a \in SolidLane /\ a.queue \in Seq(Solid) /\ T.lane \in [Source -> SolidLane]
  BY DEF SolidState, SolidLane
<1>2. c \in Seq(Solid)
  BY <1>1, InConcat
<1>3. v = [T EXCEPT !.lane = L]
  BY <1>1 DEF SolidState
<1> HIDE DEF c, v
<1>4. /\ l \in SolidLane /\ l.queue = c /\ l.flight = a.flight
      /\ l.retired = a.retired /\ l.measured = a.measured
  BY <1>1, <1>2 DEF SolidLane
<1> HIDE DEF l
<1>5. L \in [Source -> SolidLane] /\ L[s] = l /\ \A x \in Source \ {s} : L[x] = T.lane[x]
  BY <1>1, <1>4
<1> HIDE DEF L
<1>6. v \in SolidState /\ v.lane = L /\ SameBut(T, v) /\ v.live = T.live
  BY <1>3, <1>5 DEF SolidState, SameBut, Alike
<1> QED
  BY <1>4, <1>5, <1>6 DEF c, v

LEMMA GiveSound ==
    ASSUME NEW T \in SolidState, NEW s \in Source, NEW q \in Seq(Solid), Apart(q)
    PROVE  LET u == Give(T, s, q) IN
           /\ u \in SolidState /\ SameBut(T, u)
           /\ \A x \in Source \ {s} : u.lane[x] = T.lane[x]
           /\ u.live = LiveAfter(T, u)
           /\ Got(s, T.lane[s], u.lane[s], In(q))
           /\ u.lane[s].flight = <<>> => u.lane[s].queue = <<>>
<1> DEFINE u == Give(T, s, q)
           v == [T EXCEPT !.lane[s].queue = @ \o q]
           a == T.lane[s]
           c == v.lane[s]
           b == u.lane[s]
<1>1. u = Issue(v, s)
  BY DEF Give
<1>2. /\ v \in SolidState /\ SameBut(T, v) /\ v.live = T.live
      /\ \A x \in Source \ {s} : v.lane[x] = T.lane[x]
      /\ c \in SolidLane /\ c.queue = a.queue \o q /\ c.flight = a.flight
      /\ c.retired = a.retired /\ c.measured = a.measured
  BY Queued
<1> HIDE DEF v, u
<1>3. /\ u \in SolidState /\ SameBut(v, u)
      /\ \A x \in Source \ {s} : u.lane[x] = v.lane[x]
      /\ u.live = IF s \in Peer /\ c.flight = <<>> /\ c.queue # <<>>
                  THEN v.live \cup {s} ELSE v.live
      /\ b \in SolidLane /\ Served(s, c, b, <<>>)
  BY <1>1, <1>2, IssueSound
<1>4. a \in SolidLane /\ a.queue \in Seq(Solid) /\ T.live \subseteq Peer
  BY DEF SolidState, SolidLane
<1>5. /\ Got(s, a, b, In(q))
      /\ b.flight = <<>> => b.queue = <<>>
      /\ b.flight # <<>> <=> a.flight # <<>> \/ a.queue # <<>> \/ q # <<>>
  <2>1. /\ a \in SolidLane /\ b \in SolidLane /\ c \in SolidLane
        /\ c.queue = a.queue \o q /\ c.flight = a.flight
        /\ c.retired = a.retired /\ c.measured = a.measured
        /\ Served(s, c, b, <<>>)
    BY <1>2, <1>3, <1>4
  <2> HIDE DEF a, b, c
  <2> QED
    BY <2>1, GotServed
<1>6. c.queue # <<>> <=> a.queue # <<>> \/ q # <<>>
  <2>1. Len(c.queue) = Len(a.queue) + Len(q)
    BY <1>2, <1>4, InConcat
  <2>2. Len(a.queue) \in Nat /\ Len(q) \in Nat /\ c.queue \in Seq(Solid)
    BY <1>2, <1>4 DEF SolidLane
  <2>3. /\ Len(a.queue) = 0 <=> a.queue = <<>>
        /\ Len(q) = 0 <=> q = <<>>
        /\ Len(c.queue) = 0 <=> c.queue = <<>>
    BY <1>4, <2>2
  <2> QED
    BY <2>1, <2>2, <2>3
<1>7. \A x \in Source \ {s} : u.lane[x] = T.lane[x]
  BY <1>2, <1>3
<1>8. u.live = LiveAfter(T, u)
  <2>1. u.live = IF s \in Peer /\ a.flight = <<>> /\ b.flight # <<>>
                 THEN T.live \cup {s} ELSE T.live
    BY <1>2, <1>3, <1>5, <1>6
  <2>2. \A p \in Peer : p # s => p \in Source \ {s}
    BY SourceFacts
  <2> QED
    BY <2>1, <2>2, <1>7, <1>4 DEF LiveAfter
<1>9. SameBut(T, u)
  BY <1>2, <1>3 DEF SameBut, Alike
<1> QED
  BY <1>3, <1>5, <1>7, <1>8, <1>9 DEF u

-----------------------------------------------------------------------------
(* Handing out pieces: each source s gets those of X[s].                   *)

\* u is T when the pieces of X have been queued and, where that lets it, issued.
Handed(T, u, X) ==
    /\ u \in SolidState /\ SameBut(T, u) /\ u.live = LiveAfter(T, u)
    /\ \A s \in Source : Got(s, T.lane[s], u.lane[s], X[s])

\* What Deal makes of the lane of one peer, and of all of them.
GivenTo(T, plan, p) == Give(T, p, Ranges(Share(plan, p)))

DealtToPeers(T, plan) ==
    [T EXCEPT !.lane = [s \in Source |->
                          IF s = Origin \/ Share(plan, s) = {} THEN @[s]
                          ELSE GivenTo(T, plan, s).lane[s]],
              !.live = {p \in Peer : p \in @ \/ (Share(plan, p) # {}
                                                 /\ p \in GivenTo(T, plan, p).live)}]

LEMMA DealSound ==
    ASSUME NEW T \in SolidState, NEW plan, DOMAIN plan \in SUBSET Piece
    PROVE  Handed(T, Deal(T, plan), [s \in Source |-> Share(plan, s)])
<1> DEFINE L == [s \in Source |-> IF s = Origin \/ Share(plan, s) = {} THEN T.lane[s]
                                  ELSE GivenTo(T, plan, s).lane[s]]
           P == {p \in Peer : p \in T.live \/ (Share(plan, p) # {}
                                               /\ p \in GivenTo(T, plan, p).live)}
           d == DealtToPeers(T, plan)
           u == Deal(T, plan)
           q == Ranges(Share(plan, Origin))
<1>1. u = IF Share(plan, Origin) = {} THEN d ELSE Give(d, Origin, q)
  BY DEF Deal, DealtToPeers, GivenTo
<1>2. d = [T EXCEPT !.lane = L, !.live = P]
  BY DEF DealtToPeers
<1> HIDE DEF u, d
<1>3. ASSUME NEW s \in Source
      PROVE  /\ Ranges(Share(plan, s)) \in Seq(Solid) /\ Apart(Ranges(Share(plan, s)))
             /\ In(Ranges(Share(plan, s))) = Share(plan, s)
  <2>1. Share(plan, s) \in SUBSET Piece
    BY DEF Share
  <2> QED
    BY <2>1, RangesSound
<1>4. ASSUME NEW s \in Source
      PROVE  /\ GivenTo(T, plan, s) \in SolidState
             /\ GivenTo(T, plan, s).live = LiveAfter(T, GivenTo(T, plan, s))
             /\ Got(s, T.lane[s], GivenTo(T, plan, s).lane[s], Share(plan, s))
  <2>1. /\ Give(T, s, Ranges(Share(plan, s))) \in SolidState
        /\ Give(T, s, Ranges(Share(plan, s))).live =
             LiveAfter(T, Give(T, s, Ranges(Share(plan, s))))
        /\ Got(s, T.lane[s], Give(T, s, Ranges(Share(plan, s))).lane[s],
               In(Ranges(Share(plan, s))))
    BY <1>3, GiveSound
  <2> QED
    BY <1>3, <2>1 DEF GivenTo
<1>5. ASSUME NEW s \in Source PROVE T.lane[s] \in SolidLane /\ GivenTo(T, plan, s).lane[s] \in SolidLane
  BY <1>4 DEF SolidState
<1>6. L \in [Source -> SolidLane] /\ P \in SUBSET Peer
  BY <1>5
<1>7. d \in SolidState /\ SameBut(T, d) /\ d.lane = L /\ d.live = P
  <2> HIDE DEF L, P
  <2> QED
    BY <1>2, <1>6 DEF SolidState, SameBut, Alike
<1>8. ASSUME NEW s \in Source, s # Origin PROVE Got(s, T.lane[s], d.lane[s], Share(plan, s))
  <2>1. CASE Share(plan, s) = {}
    BY <2>1, <1>5, <1>7, GotNothing
  <2>2. CASE Share(plan, s) # {}
    BY <2>2, <1>4, <1>7, <1>8
  <2> QED
    BY <2>1, <2>2
<1>9. d.lane[Origin] = T.lane[Origin]
  BY <1>7, SourceFacts
<1>10. d.live = LiveAfter(T, d)
  <2>1. ASSUME NEW p \in Peer
        PROVE  p \in P <=> p \in T.live \/ (T.lane[p].flight = <<>> /\ d.lane[p].flight # <<>>)
    <3>1. p \in Source /\ p # Origin
      BY SourceFacts
    <3>2. CASE Share(plan, p) = {}
      BY <3>1, <3>2, <1>7
    <3>3. CASE Share(plan, p) # {}
      <4>1. d.lane[p] = GivenTo(T, plan, p).lane[p]
        BY <3>1, <3>3, <1>7
      <4>2. p \in P <=> p \in T.live \/ p \in GivenTo(T, plan, p).live
        BY <3>3
      <4>3. p \in GivenTo(T, plan, p).live <=> p \in LiveAfter(T, GivenTo(T, plan, p))
        BY <3>1, <1>4
      <4> QED
        BY <4>1, <4>2, <4>3 DEF LiveAfter
    <3> QED
      BY <3>2, <3>3
  <2> HIDE DEF P
  <2> QED
    BY <2>1, <1>6, <1>7 DEF LiveAfter
<1> HIDE DEF L, P
<1>11. CASE Share(plan, Origin) = {}
  <2>1. u = d
    BY <1>1, <1>11
  <2>2. Got(Origin, T.lane[Origin], d.lane[Origin], Share(plan, Origin))
    BY <1>5, <1>9, <1>11, GotNothing, SourceFacts
  <2>3. \A s \in Source : Got(s, T.lane[s], d.lane[s], Share(plan, s))
    BY <1>8, <2>2
  <2> QED
    BY <2>1, <2>3, <1>7, <1>10 DEF Handed, u
<1>12. CASE Share(plan, Origin) # {}
  <2>1. u = Give(d, Origin, q)
    BY <1>1, <1>12
  <2>2. q \in Seq(Solid) /\ Apart(q) /\ In(q) = Share(plan, Origin)
    BY <1>3, SourceFacts
  <2> HIDE DEF q
  <2>3. /\ u \in SolidState /\ SameBut(d, u)
        /\ \A x \in Source \ {Origin} : u.lane[x] = d.lane[x]
        /\ u.live = LiveAfter(d, u)
        /\ Got(Origin, d.lane[Origin], u.lane[Origin], In(q))
    BY <2>1, <2>2, <1>7, GiveSound, SourceFacts
  <2>4. \A s \in Source : Got(s, T.lane[s], u.lane[s], Share(plan, s))
    <3> TAKE s \in Source
    <3>1. CASE s = Origin
      BY <3>1, <2>2, <2>3, <1>9
    <3>2. CASE s # Origin
      BY <3>2, <2>3, <1>8
    <3> QED
      BY <3>1, <3>2
  <2>5. u.live = LiveAfter(T, u)
    <3>1. \A p \in Peer : u.lane[p] = d.lane[p]
      BY <2>3, SourceFacts
    <3> QED
      BY <3>1, <2>3, <1>10 DEF LiveAfter
  <2>6. SameBut(T, u)
    BY <2>3, <1>7 DEF SameBut, Alike
  <2> QED
    BY <2>3, <2>4, <2>5, <2>6 DEF Handed, u
<1> QED
  BY <1>11, <1>12

LEMMA HandedByGive ==
    ASSUME NEW T \in SolidState, NEW s \in Source, NEW q \in Seq(Solid), Apart(q)
    PROVE  Handed(T, Give(T, s, q), [x \in Source |-> IF x = s THEN In(q) ELSE {}])
<1> DEFINE u == Give(T, s, q)
<1>1. /\ u \in SolidState /\ SameBut(T, u) /\ u.live = LiveAfter(T, u)
      /\ \A x \in Source \ {s} : u.lane[x] = T.lane[x]
      /\ Got(s, T.lane[s], u.lane[s], In(q))
  BY GiveSound
<1> HIDE DEF u
<1>2. ASSUME NEW x \in Source, x # s PROVE Got(x, T.lane[x], u.lane[x], {})
  <2>1. T.lane[x] \in SolidLane /\ u.lane[x] = T.lane[x]
    BY <1>1, <1>2 DEF SolidState
  <2> QED
    BY <2>1, GotNothing
<1> QED
  BY <1>1, <1>2 DEF Handed, u

LEMMA GotTwice ==
    ASSUME NEW s, NEW a \in SolidLane, NEW b, NEW c, NEW X, NEW Y,
           Got(s, a, b, X), Got(s, b, c, Y), Apart(a.queue) => X \cap Y = {}
    PROVE  Got(s, a, c, X \cup Y)
<1>1. b \in SolidLane /\ c \in SolidLane
  BY DEF Got
<1>2. Len(a.flight) \in Nat /\ Len(b.flight) \in Nat /\ Len(c.flight) \in Nat
  BY <1>1 DEF SolidLane
<1>3. c.retired = a.retired /\ c.measured = a.measured
  BY DEF Got
<1>4. In(c.queue) \cup In(c.flight) = In(a.queue) \cup In(a.flight) \cup (X \cup Y)
  BY DEF Got
<1>5. Len(c.flight) >= Len(a.flight)
  BY <1>2 DEF Got
<1>6. /\ a.flight # <<>> \/ X \cup Y # {} => c.flight # <<>>
      /\ a.queue = <<>> /\ a.flight = <<>> /\ X \cup Y = {} => c.queue = <<>> /\ c.flight = <<>>
      /\ s \in Peer /\ a.flight # <<>> => c.flight = a.flight
      /\ a.queue = <<>> \/ a.flight # <<>> \/ X \cup Y # {} => (c.flight = <<>> => c.queue = <<>>)
  BY DEF Got
<1>7. s \in Peer /\ Len(a.flight) <= 1 => Len(c.flight) <= 1
  BY DEF Got
<1>8. Apart(a.queue) /\ In(a.queue) \cap In(a.flight) = {}
         /\ (X \cup Y) \cap (In(a.queue) \cup In(a.flight)) = {}
         => Apart(c.queue) /\ In(c.queue) \cap In(c.flight) = {}
  BY DEF Got
<1> QED
  BY <1>1, <1>3, <1>4, <1>5, <1>6, <1>7, <1>8 DEF Got

\* Ranges for origin, with one.
LEMMA QueueOriginSound ==
    ASSUME NEW T \in SolidState, NEW q \in Seq(Solid), Apart(q), T.mode # "peer_only"
    PROVE  Handed(T, QueueOrigin(T, q), [x \in Source |-> IF x = Origin THEN In(q) ELSE {}])
<1> DEFINE u == QueueOrigin(T, q)
           X == [x \in Source |-> IF x = Origin THEN In(q) ELSE {}]
<1>1. CASE q = <<>>
  <2>1. u = T
    BY <1>1 DEF QueueOrigin
  <2>2. In(q) = {}
    BY <1>1 DEF In
  <2>3. \A x \in Source : T.lane[x] \in SolidLane /\ X[x] = {}
    BY <2>2 DEF SolidState
  <2>4. \A x \in Source : Got(x, T.lane[x], T.lane[x], X[x])
    BY <2>3, GotNothing
  <2>5. T.live = LiveAfter(T, T)
    BY DEF LiveAfter, SolidState
  <2>6. SameBut(T, T)
    BY DEF SameBut, Alike
  <2> HIDE DEF X, u
  <2>7. Handed(T, u, X)
    BY <2>1, <2>4, <2>5, <2>6 DEF Handed
  <2> QED
    BY <2>7 DEF X, u
<1>2. CASE q # <<>>
  <2> DEFINE h == <<Head(q)>>
             r == Tail(q)
             v == Give(T, Origin, h)
             w == Give(v, Origin, r)
  <2>1. u = w
    BY <1>2 DEF QueueOrigin
  <2>2. /\ h \in Seq(Solid) /\ r \in Seq(Solid)
        /\ In(h) \cup In(r) = In(q)
        /\ Apart(h) /\ Apart(r) /\ In(h) \cap In(r) = {}
    BY <1>2, InHeadTail
  <2> HIDE DEF h, r, u
  <2>3. /\ v \in SolidState /\ SameBut(T, v) /\ v.live = LiveAfter(T, v)
        /\ \A x \in Source \ {Origin} : v.lane[x] = T.lane[x]
        /\ Got(Origin, T.lane[Origin], v.lane[Origin], In(h))
    BY <2>2, GiveSound, SourceFacts
  <2> HIDE DEF v
  <2>0. /\ w \in SolidState /\ SameBut(v, w) /\ w.live = LiveAfter(v, w)
        /\ \A x \in Source \ {Origin} : w.lane[x] = v.lane[x]
        /\ Got(Origin, v.lane[Origin], w.lane[Origin], In(r))
    BY <2>2, <2>3, GiveSound, SourceFacts
  <2> HIDE DEF w
  <2>4. /\ u \in SolidState /\ SameBut(v, u) /\ u.live = LiveAfter(v, u)
        /\ \A x \in Source \ {Origin} : u.lane[x] = v.lane[x]
        /\ Got(Origin, v.lane[Origin], u.lane[Origin], In(r))
    BY <2>1, <2>0
  <2>5. Got(Origin, T.lane[Origin], u.lane[Origin], In(q))
    <3>1. T.lane[Origin] \in SolidLane
      BY SourceFacts DEF SolidState
    <3>2. Got(Origin, T.lane[Origin], u.lane[Origin], In(h) \cup In(r))
      BY <3>1, <2>2, <2>3, <2>4, GotTwice
    <3> QED
      BY <3>2, <2>2
  <2>6. ASSUME NEW x \in Source, x # Origin PROVE Got(x, T.lane[x], u.lane[x], {})
    <3>1. T.lane[x] \in SolidLane /\ u.lane[x] = T.lane[x]
      BY <2>3, <2>4, <2>6 DEF SolidState
    <3> QED
      BY <3>1, GotNothing
  <2>7. u.live = LiveAfter(T, u)
    <3>1. \A p \in Peer : u.lane[p] = T.lane[p] /\ v.lane[p] = T.lane[p]
      BY <2>3, <2>4, SourceFacts
    <3> QED
      BY <3>1, <2>3, <2>4 DEF LiveAfter
  <2>8. SameBut(T, u)
    BY <2>3, <2>4 DEF SameBut, Alike
  <2>9. \A x \in Source : Got(x, T.lane[x], u.lane[x], X[x])
    BY <2>5, <2>6
  <2> HIDE DEF X
  <2>10. Handed(T, u, X)
    BY <2>4, <2>7, <2>8, <2>9 DEF Handed
  <2> QED
    BY <2>10 DEF X, u
<1> QED
  BY <1>1, <1>2

-----------------------------------------------------------------------------
(* What the methods keep.                                                  *)

\* What a lane may hold: nothing at a source that is out, one request at a
\* peer, and nothing at the origin of a transfer without one.
Lanes(T) ==
    /\ ~T.lane[Origin].retired
    /\ \A s \in Source : T.lane[s].retired \/ T.finished => Idle(T, s)
    /\ \A p \in Peer : Len(T.lane[p].flight) <= 1
    /\ T.mode = "peer_only" => Idle(T, Origin)
    /\ T.finished \/ T.mode # "peer_only" => T.pending = {}
    /\ T.live = {p \in Peer : T.lane[p].flight # <<>>}

\* Only sources in S have work queued behind nothing.
Behind(T, S) ==
    \A s \in Source \ S : T.lane[s].flight = <<>> => T.lane[s].queue = <<>>

\* With an exclusive origin no two sources have a piece in common.
Single(T) ==
    T.mode = "exclusive" =>
        /\ \A s, r \in Source : s # r => Held(T, s) \cap Held(T, r) = {}
        /\ Apart(T.lane[Origin].queue)
        /\ In(T.lane[Origin].queue) \cap In(T.lane[Origin].flight) = {}

\* A transfer between two methods, when the sources in S are still to be
\* served.
Fit(T, S) ==
    T \in SolidState /\ T.started /\ Lanes(T) /\ Behind(T, S) /\ Single(T)

\* Each piece is verified, with a source, or pending.
NoneLost(T) == ~T.finished => Piece \subseteq Covered(T) \cup T.pending

\* What a step does as the page sees it.
Led(T, u) ==
    /\ u.mode = T.mode /\ u.sound = T.sound /\ u.started = T.started
    /\ \A p \in Peer : T.lane[p].retired => u.lane[p].retired
    /\ \A p \in T.live \ u.live : u.lane[p].retired \/ u.finished
    /\ T.finished => u.finished
    /\ T.finished \/ ~u.finished =>
          u.ended = T.ended /\ Len(u.lane[Origin].flight) >= Len(T.lane[Origin].flight)
    /\ ~T.finished /\ u.finished =>
          \E how \in {"deliver", "fail"} : u.ended = Append(T.ended, how)

\* And what it does not do when neither origin nor the object is at fault.
Calm(T, u) ==
    /\ u.mode = T.mode /\ u.sound = T.sound
    /\ T.finished => u.finished
    /\ T.mode # "peer_only" /\ T.sound /\ ~T.finished /\ u.finished =>
          u.ended = Append(T.ended, "deliver")

\* Who may be handed something.
MayGet(T, X) ==
    /\ \A s \in Source : X[s] # {} => /\ ~T.lane[s].retired /\ ~T.finished
                                      /\ s = Origin => T.mode # "peer_only"
    /\ T.mode = "exclusive" => \A s, r \in Source :
          /\ X[s] \cap Held(T, r) = {}
          /\ s # r => X[s] \cap X[r] = {}

LEMMA HandedHeld ==
    ASSUME NEW T \in SolidState, NEW u, NEW X, Handed(T, u, X), MayGet(T, X), Lanes(T)
    PROVE  /\ \A s \in Source : Held(u, s) = Held(T, s) \cup X[s]
           /\ Covered(u) = Covered(T) \cup UNION {X[s] : s \in Source}
<1>1. ASSUME NEW s \in Source PROVE Held(u, s) = Held(T, s) \cup X[s]
  <2>1. /\ u.lane[s].retired = T.lane[s].retired
        /\ In(u.lane[s].queue) \cup In(u.lane[s].flight) =
             In(T.lane[s].queue) \cup In(T.lane[s].flight) \cup X[s]
    BY DEF Handed, Got
  <2>2. T.lane[s].retired => X[s] = {}
    BY DEF MayGet
  <2> QED
    BY <2>1, <2>2 DEF Held
<1>2. u.verified = T.verified
  BY DEF Handed, SameBut, Alike
<1>3. \A x : (\E s \in Source : x \in Held(u, s))
             <=> (\E s \in Source : x \in Held(T, s)) \/ (\E s \in Source : x \in X[s])
  BY <1>1
<1>4. Covered(u) = Covered(T) \cup UNION {X[s] : s \in Source}
  BY <1>2, <1>3 DEF Covered
<1> QED
  BY <1>1, <1>4

LEMMA HandedLanes ==
    ASSUME NEW T \in SolidState, NEW u, NEW X, Handed(T, u, X), MayGet(T, X), Lanes(T)
    PROVE  Lanes(u)
<1>1. /\ u.mode = T.mode /\ u.finished = T.finished /\ u.pending = T.pending
      /\ u.live = LiveAfter(T, u)
  BY DEF Handed, SameBut, Alike
<1>2. ASSUME NEW s \in Source, X[s] = {}, Idle(T, s) PROVE Idle(u, s)
  <2>1. Got(s, T.lane[s], u.lane[s], X[s])
    BY DEF Handed
  <2> QED
    BY <1>2, <2>1 DEF Got, Idle
<1>3. \A s \in Source : u.lane[s].retired = T.lane[s].retired
  BY DEF Handed, Got
<1>4. \A s \in Source : u.lane[s].retired \/ u.finished => Idle(u, s)
  BY <1>1, <1>2, <1>3 DEF MayGet, Lanes
<1>5. ASSUME NEW p \in Peer PROVE Len(u.lane[p].flight) <= 1
  <2>1. Got(p, T.lane[p], u.lane[p], X[p]) /\ Len(T.lane[p].flight) <= 1
    BY SourceFacts DEF Handed, Lanes
  <2> QED
    BY <2>1 DEF Got
<1>6. u.mode = "peer_only" => Idle(u, Origin)
  BY <1>1, <1>2, SourceFacts DEF MayGet, Lanes
<1>7. u.live = {p \in Peer : u.lane[p].flight # <<>>}
  <2>1. \A p \in Peer : T.lane[p].flight # <<>> => u.lane[p].flight # <<>>
    BY SourceFacts DEF Handed, Got
  <2>2. T.live = {p \in Peer : T.lane[p].flight # <<>>}
    BY DEF Lanes
  <2> QED
    BY <1>1, <2>1, <2>2 DEF LiveAfter
<1>8. ~u.lane[Origin].retired
  BY <1>3, SourceFacts DEF Lanes
<1>9. u.finished \/ u.mode # "peer_only" => u.pending = {}
  BY <1>1 DEF Lanes
<1> QED
  BY <1>4, <1>5, <1>6, <1>7, <1>8, <1>9 DEF Lanes

LEMMA HandedBehind ==
    ASSUME NEW T \in SolidState, NEW u, NEW X, Handed(T, u, X), NEW S, Behind(T, S)
    PROVE  Behind(u, S)
<1> SUFFICES ASSUME NEW s \in Source, s \notin S, u.lane[s].flight = <<>>
             PROVE  u.lane[s].queue = <<>>
  BY DEF Behind
<1>1. Got(s, T.lane[s], u.lane[s], X[s])
  BY DEF Handed
<1>2. T.lane[s].queue = <<>> \/ T.lane[s].flight # <<>>
  BY DEF Behind
<1> QED
  BY <1>1, <1>2 DEF Got

LEMMA HandedSingle ==
    ASSUME NEW T \in SolidState, NEW u, NEW X, Handed(T, u, X), MayGet(T, X), Lanes(T),
           Single(T)
    PROVE  Single(u)
<1> SUFFICES ASSUME T.mode = "exclusive"
             PROVE  /\ \A s, r \in Source : s # r => Held(u, s) \cap Held(u, r) = {}
                    /\ Apart(u.lane[Origin].queue)
                    /\ In(u.lane[Origin].queue) \cap In(u.lane[Origin].flight) = {}
  BY DEF Single, Handed, SameBut, Alike
<1>1. \A s \in Source : Held(u, s) = Held(T, s) \cup X[s]
  BY HandedHeld
<1>2. \A s, r \in Source : s # r => Held(T, s) \cap Held(T, r) = {}
  BY DEF Single
<1>3. \A s, r \in Source : X[s] \cap Held(T, r) = {} /\ (s # r => X[s] \cap X[r] = {})
  BY DEF MayGet
<1>4. \A s, r \in Source : s # r => Held(u, s) \cap Held(u, r) = {}
  <2> SUFFICES ASSUME NEW s \in Source, NEW r \in Source, s # r
               PROVE  Held(u, s) \cap Held(u, r) = {}
    OBVIOUS
  <2>1. /\ Held(u, s) = Held(T, s) \cup X[s] /\ Held(u, r) = Held(T, r) \cup X[r]
        /\ Held(T, s) \cap Held(T, r) = {} /\ X[s] \cap X[r] = {}
        /\ X[s] \cap Held(T, r) = {} /\ X[r] \cap Held(T, s) = {}
    BY <1>1, <1>2, <1>3
  <2> QED
    BY <2>1
<1>5. X[Origin] \cap (In(T.lane[Origin].queue) \cup In(T.lane[Origin].flight)) = {}
  BY <1>3, SourceFacts DEF Held, Lanes
<1>6. Got(Origin, T.lane[Origin], u.lane[Origin], X[Origin])
  BY SourceFacts DEF Handed
<1>7. Apart(T.lane[Origin].queue) /\ In(T.lane[Origin].queue) \cap In(T.lane[Origin].flight) = {}
  BY DEF Single
<1> QED
  BY <1>4, <1>5, <1>6, <1>7 DEF Got

LEMMA HandedLed ==
    ASSUME NEW T \in SolidState, NEW u, NEW X, Handed(T, u, X)
    PROVE  Led(T, u) /\ Calm(T, u)
<1>1. /\ u.mode = T.mode /\ u.sound = T.sound /\ u.started = T.started
      /\ u.finished = T.finished /\ u.ended = T.ended /\ u.live = LiveAfter(T, u)
  BY DEF Handed, SameBut, Alike
<1>2. \A p \in Peer : T.lane[p].retired => u.lane[p].retired
  BY SourceFacts DEF Handed, Got
<1>3. T.live \ u.live = {}
  BY <1>1 DEF LiveAfter, SolidState
<1>4. Len(u.lane[Origin].flight) >= Len(T.lane[Origin].flight)
  BY SourceFacts DEF Handed, Got
<1> QED
  BY <1>1, <1>2, <1>3, <1>4 DEF Led, Calm

LEMMA HandedFit ==
    ASSUME NEW T \in SolidState, NEW u, NEW X, Handed(T, u, X), MayGet(T, X),
           T.started, Lanes(T), NEW S, Behind(T, S), Single(T)
    PROVE  Fit(u, S) /\ Led(T, u) /\ Calm(T, u)
<1>1. u \in SolidState /\ u.started
  BY DEF Handed, SameBut, Alike
<1> QED
  BY <1>1, HandedLanes, HandedBehind, HandedSingle, HandedLed DEF Fit

\* What a method makes of a fit transfer.
Post(T, u, S) ==
    /\ Fit(u, S) /\ NoneLost(u) /\ Led(T, u) /\ Calm(T, u)
    /\ u.verified = T.verified /\ u.due = T.due
    /\ LivePeers(u) = LivePeers(T)
    /\ ~T.finished /\ (T.mode = "peer_only" => ~T.due /\ LivePeers(T) # {}) => ~u.finished

LEMMA LedSame ==
    ASSUME NEW T \in SolidState
    PROVE  Led(T, T) /\ Calm(T, T)
<1>1. Len(T.lane[Origin].flight) >= Len(T.lane[Origin].flight)
  BY SourceFacts DEF SolidState, SolidLane
<1> QED
  BY <1>1 DEF Led, Calm

LEMMA LedOn ==
    ASSUME NEW T \in SolidState, NEW u \in SolidState, NEW v \in SolidState,
           Led(T, u), Led(u, v)
    PROVE  Led(T, v)
<1>1. v.mode = T.mode /\ v.sound = T.sound /\ v.started = T.started
  BY DEF Led
<1>2. \A p \in Peer : T.lane[p].retired => v.lane[p].retired
  BY DEF Led
<1>3. \A p \in T.live \ v.live : v.lane[p].retired \/ v.finished
  <2> SUFFICES ASSUME NEW p \in T.live \ v.live PROVE v.lane[p].retired \/ v.finished
    OBVIOUS
  <2>1. p \in Peer
    BY DEF SolidState
  <2>2. CASE p \in u.live
    BY <2>2 DEF Led
  <2>3. CASE p \notin u.live
    BY <2>1, <2>3 DEF Led
  <2> QED
    BY <2>2, <2>3
<1>4. T.finished => v.finished
  BY DEF Led
<1>5. ASSUME T.finished \/ ~v.finished
      PROVE  v.ended = T.ended /\ Len(v.lane[Origin].flight) >= Len(T.lane[Origin].flight)
  <2>1. /\ Len(T.lane[Origin].flight) \in Nat /\ Len(u.lane[Origin].flight) \in Nat
        /\ Len(v.lane[Origin].flight) \in Nat
    BY SourceFacts DEF SolidState, SolidLane
  <2>2. /\ u.ended = T.ended /\ v.ended = u.ended
        /\ Len(u.lane[Origin].flight) >= Len(T.lane[Origin].flight)
        /\ Len(v.lane[Origin].flight) >= Len(u.lane[Origin].flight)
    BY <1>5 DEF Led
  <2> DEFINE a == Len(T.lane[Origin].flight)
             b == Len(u.lane[Origin].flight)
             c == Len(v.lane[Origin].flight)
  <2>3. c >= a
    <3>1. a \in Nat /\ b \in Nat /\ c \in Nat /\ b >= a /\ c >= b
      BY <2>1, <2>2
    <3> HIDE DEF a, b, c
    <3> QED
      BY <3>1
  <2> QED
    BY <2>2, <2>3
<1>6. ASSUME ~T.finished, v.finished
      PROVE  \E how \in {"deliver", "fail"} : v.ended = Append(T.ended, how)
  <2>1. CASE u.finished
    BY <1>6, <2>1 DEF Led
  <2>2. CASE ~u.finished
    BY <1>6, <2>2 DEF Led
  <2> QED
    BY <2>1, <2>2
<1> QED
  BY <1>1, <1>2, <1>3, <1>4, <1>5, <1>6 DEF Led

LEMMA CalmOn ==
    ASSUME NEW T, NEW u, NEW v, Led(T, u), Led(u, v), Calm(T, u), Calm(u, v)
    PROVE  Calm(T, v)
<1>1. v.mode = T.mode /\ v.sound = T.sound /\ (T.finished => v.finished)
  BY DEF Calm
<1>2. ASSUME T.mode # "peer_only", T.sound, ~T.finished, v.finished
      PROVE  v.ended = Append(T.ended, "deliver")
  <2>1. CASE u.finished
    BY <1>2, <2>1 DEF Led, Calm
  <2>2. CASE ~u.finished
    BY <1>2, <2>2 DEF Led, Calm
  <2> QED
    BY <2>1, <2>2
<1> QED
  BY <1>1, <1>2 DEF Calm

\* With an origin, a transfer that is not done has something in flight.
LEMMA OrdinaryMoves ==
    ASSUME NEW T, Fit(T, {}), NoneLost(T), ~T.finished, T.pending = {}, Unverified(T) # {}
    PROVE  \E s \in Source : T.lane[s].flight # <<>>
<1>1. PICK x \in Piece : x \notin T.verified
  BY DEF Unverified
<1>2. PICK s \in Source : x \in Held(T, s)
  BY <1>1 DEF NoneLost, Covered
<1>3. T.lane[s].flight = <<>> => T.lane[s].queue = <<>>
  BY DEF Fit, Behind
<1>4. In(<<>>) = {}
  BY DEF In
<1>5. T.lane[s].flight # <<>>
  BY <1>2, <1>3, <1>4 DEF Held
<1> QED
  BY <1>5

-----------------------------------------------------------------------------
(* Ending.                                                                 *)

\* The transfer when it ends well or not.
EndedBy(T, how) == [CloseOut(T) EXCEPT !.ended = Append(@, how)]

LEMMA CloseOutSound ==
    ASSUME NEW T \in SolidState, T.started, ~T.finished, ~T.lane[Origin].retired,
           \A p \in T.live : T.lane[p].flight # <<>>, NEW how \in {"deliver", "fail"},
           NEW u, u = EndedBy(T, how), NEW S
    PROVE  /\ Fit(u, S) /\ NoneLost(u) /\ Led(T, u)
           /\ u.ended = Append(T.ended, how) /\ u.finished
           /\ u.verified = T.verified /\ u.probes = T.probes /\ u.due = T.due
           /\ u.mode = T.mode /\ u.sound = T.sound /\ LivePeers(u) = LivePeers(T)
<1> DEFINE L == [s \in Source |-> [T.lane[s] EXCEPT !.queue = <<>>, !.flight = <<>>]]
           P == {p \in T.live : T.lane[p].flight = <<>>}
           E == Append(T.ended, how)
<1>1. u = [T EXCEPT !.finished = TRUE, !.pending = {}, !.live = P, !.lane = L, !.ended = E]
  BY DEF EndedBy, CloseOut, SolidState
<1>2. P = {}
  OBVIOUS
<1>3. ASSUME NEW s \in Source
      PROVE  L[s] \in SolidLane /\ L[s].queue = <<>> /\ L[s].flight = <<>>
             /\ L[s].retired = T.lane[s].retired
  <2>1. T.lane[s] \in SolidLane
    BY DEF SolidState
  <2>2. <<>> \in Seq(Solid)
    OBVIOUS
  <2>3. L[s] = [T.lane[s] EXCEPT !.queue = <<>>, !.flight = <<>>]
    OBVIOUS
  <2> HIDE DEF L
  <2> QED
    BY <2>1, <2>2, <2>3 DEF SolidLane
<1>4. L \in [Source -> SolidLane]
  BY <1>3
<1>5. E \in Seq({"deliver", "fail"})
  BY DEF SolidState
<1> HIDE DEF L, P, E
<1>6. /\ u \in SolidState /\ u.lane = L /\ u.live = {} /\ u.finished /\ u.pending = {}
      /\ u.ended = E /\ u.verified = T.verified /\ u.probes = T.probes /\ u.due = T.due
      /\ u.mode = T.mode /\ u.sound = T.sound /\ u.started
  BY <1>1, <1>2, <1>4, <1>5 DEF SolidState
<1>7. \A s \in Source : Idle(u, s) /\ Held(u, s) = {}
  <2>1. In(<<>>) = {}
    BY DEF In
  <2> QED
    BY <2>1, <1>3, <1>6 DEF Idle, Held
<1>8. Lanes(u)
  <2>1. \A p \in Peer : u.lane[p].flight = <<>> /\ Len(u.lane[p].flight) <= 1
    BY <1>7, SourceFacts DEF Idle
  <2> QED
    BY <2>1, <1>3, <1>6, <1>7, SourceFacts DEF Lanes
<1>9. Single(u)
  <2>1. Apart(<<>>) /\ In(<<>>) = {}
    BY DEF Apart, In
  <2> QED
    BY <2>1, <1>7, SourceFacts DEF Single, Idle
<1>11. Behind(u, S) /\ NoneLost(u)
  BY <1>6, <1>7 DEF Behind, NoneLost, Idle
<1>12. Led(T, u)
  BY <1>3, <1>6, SourceFacts DEF Led, E
<1>13. LivePeers(u) = LivePeers(T)
  BY <1>3, <1>6, SourceFacts DEF LivePeers
<1> QED
  BY <1>6, <1>8, <1>9, <1>11, <1>12, <1>13 DEF Fit, E

LEMMA FailSound ==
    ASSUME NEW T \in SolidState, T.started, ~T.finished, ~T.lane[Origin].retired,
           \A p \in T.live : T.lane[p].flight # <<>>,
           NEW S
    PROVE  /\ Fit(Fail(T), S) /\ NoneLost(Fail(T)) /\ Led(T, Fail(T))
           /\ Fail(T).ended = Append(T.ended, "fail") /\ Fail(T).finished
           /\ Fail(T).verified = T.verified
           /\ Fail(T).due = T.due /\ Fail(T).mode = T.mode /\ Fail(T).sound = T.sound
           /\ LivePeers(Fail(T)) = LivePeers(T)
<1>1. Fail(T) = EndedBy(T, "fail")
  BY DEF Fail, EndedBy
<1> QED
  BY <1>1, CloseOutSound

LEMMA FinishSound ==
    ASSUME NEW T \in SolidState, T.started, ~T.finished, ~T.lane[Origin].retired,
           \A p \in T.live : T.lane[p].flight # <<>>,
           NEW S
    PROVE  /\ Fit(Finish(T), S) /\ NoneLost(Finish(T)) /\ Led(T, Finish(T))
           /\ Calm(T, Finish(T)) /\ Finish(T).finished
           /\ Finish(T).mode = T.mode
<1>1. Finish(T) = EndedBy(T, "deliver") \/ (Finish(T) = EndedBy(T, "fail") /\ ~T.sound)
  BY DEF Finish, Fail, EndedBy
<1> DEFINE u == Finish(T)
<1>2. CASE u = EndedBy(T, "deliver")
  <2> HIDE DEF u
  <2>1. /\ Fit(u, S) /\ NoneLost(u) /\ Led(T, u)
        /\ u.ended = Append(T.ended, "deliver") /\ u.finished
        /\ u.mode = T.mode /\ u.sound = T.sound
    BY <1>2, CloseOutSound
  <2> QED
    BY <2>1 DEF Calm, u
<1>3. CASE u = EndedBy(T, "fail") /\ ~T.sound
  <2> HIDE DEF u
  <2>1. /\ Fit(u, S) /\ NoneLost(u) /\ Led(T, u)
        /\ u.ended = Append(T.ended, "fail") /\ u.finished
        /\ u.mode = T.mode /\ u.sound = T.sound
    BY <1>3, CloseOutSound
  <2> QED
    BY <2>1, <1>3 DEF Calm, u
<1> QED
  BY <1>1, <1>2, <1>3


\* Changes to what is noted beside the lanes.
LEMMA Noted ==
    ASSUME NEW T, NEW S, Fit(T, S), NEW v,
           v.mode = T.mode, v.finished = T.finished, v.verified = T.verified,
           v.lane = T.lane, v.live = T.live,
           v.finished \/ v.mode # "peer_only" => v.pending = {}
    PROVE  /\ Lanes(v) /\ Behind(v, S) /\ Single(v)
           /\ Covered(v) = Covered(T) /\ LivePeers(v) = LivePeers(T)
           /\ \A s \in Source : Held(v, s) = Held(T, s)
<1>1. /\ \A s \in Source : Held(v, s) = Held(T, s)
      /\ Covered(v) = Covered(T) /\ LivePeers(v) = LivePeers(T)
      /\ \A s : Idle(v, s) <=> Idle(T, s)
  BY DEF Held, Covered, LivePeers, Idle
<1>2. Lanes(T) /\ Behind(T, S) /\ Single(T)
  BY DEF Fit
<1>3. Lanes(v)
  BY <1>1, <1>2 DEF Lanes
<1>4. Behind(v, S)
  BY <1>2 DEF Behind
<1>5. Single(v)
  BY <1>1, <1>2 DEF Single
<1> QED
  BY <1>1, <1>3, <1>4, <1>5

LEMMA HandedPost ==
    ASSUME NEW T, NEW S, Fit(T, S), NEW v \in SolidState,
           v.mode = T.mode, v.finished = T.finished, v.verified = T.verified,
           v.lane = T.lane, v.live = T.live,
           v.sound = T.sound, v.started = T.started, v.due = T.due, v.ended = T.ended,
           v.finished \/ v.mode # "peer_only" => v.pending = {},
           NEW X, MayGet(v, X), NEW u, Handed(v, u, X),
           ~T.finished => Piece \subseteq Covered(T) \cup v.pending \cup UNION {X[s] : s \in Source}
    PROVE  Post(T, u, S)
<1>1. /\ Lanes(v) /\ Behind(v, S) /\ Single(v)
      /\ Covered(v) = Covered(T) /\ LivePeers(v) = LivePeers(T)
  BY Noted
<1>2. v.started /\ T \in SolidState
  BY DEF Fit
<1>3. Fit(u, S) /\ Led(v, u) /\ Calm(v, u)
  BY <1>1, <1>2, HandedFit
<1>4. Covered(u) = Covered(v) \cup UNION {X[s] : s \in Source}
  BY <1>1, HandedHeld
<1>5. /\ u.verified = T.verified /\ u.due = T.due
      /\ u.pending = v.pending /\ u.finished = T.finished /\ u.mode = T.mode
  BY DEF Handed, SameBut, Alike
<1>6. LivePeers(u) = LivePeers(T)
  <2>1. \A p \in Peer : u.lane[p].retired = v.lane[p].retired
    BY SourceFacts DEF Handed, Got
  <2> QED
    BY <2>1, <1>1 DEF LivePeers
<1>7. NoneLost(u)
  BY <1>1, <1>4, <1>5 DEF NoneLost
<1>8. Led(T, u) /\ Calm(T, u)
  BY <1>3 DEF Led, Calm
<1> QED
  BY <1>3, <1>5, <1>6, <1>7, <1>8 DEF Post

LEMMA HandedNothing ==
    ASSUME NEW T \in SolidState
    PROVE  Handed(T, T, [s \in Source |-> {}])
<1>1. \A s \in Source : T.lane[s] \in SolidLane
  BY DEF SolidState
<1>2. \A s \in Source : Got(s, T.lane[s], T.lane[s], {})
  BY <1>1, GotNothing
<1>3. T.live = LiveAfter(T, T) /\ SameBut(T, T)
  BY DEF LiveAfter, SolidState, SameBut, Alike
<1> QED
  BY <1>2, <1>3 DEF Handed

LEMMA Shares ==
    ASSUME NEW D \in SUBSET Piece, NEW plan \in [D -> Source]
    PROVE  /\ UNION {Share(plan, s) : s \in Source} = D
           /\ DOMAIN plan \in SUBSET Piece
           /\ \A s \in Source : Share(plan, s) \subseteq D
           /\ \A s, r \in Source : s # r => Share(plan, s) \cap Share(plan, r) = {}
           /\ \A x \in D : x \in Share(plan, plan[x])
  BY DEF Share

LEMMA FailPost ==
    ASSUME NEW T, NEW S, Fit(T, S), ~T.finished, T.mode = "peer_only",
           T.due \/ LivePeers(T) = {}, NEW v \in SolidState,
           v.mode = T.mode, v.finished = T.finished, v.verified = T.verified,
           v.lane = T.lane, v.live = T.live, v.ended = T.ended,
           v.sound = T.sound, v.started = T.started, v.due = T.due
    PROVE  Post(T, Fail(v), S)
<1> DEFINE u == Fail(v)
<1>1. /\ v.started /\ ~v.finished /\ ~v.lane[Origin].retired
      /\ \A p \in v.live : v.lane[p].flight # <<>>
  BY DEF Fit, Lanes
<1>2. /\ Fit(u, S) /\ NoneLost(u) /\ Led(v, u) /\ u.finished
      /\ u.verified = v.verified
      /\ u.due = v.due /\ u.mode = v.mode /\ u.sound = v.sound
      /\ LivePeers(u) = LivePeers(v)
  BY <1>1, FailSound
<1> HIDE DEF u
<1>3. LivePeers(v) = LivePeers(T)
  BY DEF LivePeers
<1>4. Led(T, u) /\ Calm(T, u)
  BY <1>2 DEF Led, Calm
<1>5. Post(T, u, S)
  BY <1>2, <1>3, <1>4 DEF Post
<1> QED
  BY <1>5 DEF u

LEMMA RefillSound ==
    ASSUME NEW T, NEW S, Fit(T, S), NoneLost(T), T.mode = "peer_only",
           NEW u \in Refill(T)
    PROVE  Post(T, u, S)
<1> DEFINE P == T.pending \ Covered(T)
           v == [T EXCEPT !.pending = @ \ Covered(T)]
           slots == Less(MaxHolders, Cardinality(ActiveHolders(T)))
           peers == {p \in LivePeers(T) \cap T.spare : Idle(T, p)}
           probes == Probes(v.pending, peers, slots)
           r == [v EXCEPT !.pending = {}]
           w == [v EXCEPT !.spare = @ \ Probed(probes), !.pending = @ \ DOMAIN probes]
<1>1. /\ T \in SolidState /\ T.started /\ Lanes(T) /\ Behind(T, S)
  BY DEF Fit
<1>2. /\ v \in SolidState /\ v.pending = P /\ P \in SUBSET Piece
      /\ v.mode = T.mode /\ v.finished = T.finished /\ v.verified = T.verified
      /\ v.lane = T.lane /\ v.probes = T.probes /\ v.live = T.live /\ v.ended = T.ended
      /\ v.sound = T.sound /\ v.started = T.started /\ v.due = T.due /\ v.spare = T.spare
  BY <1>1 DEF SolidState
<1>3. \/ u = T /\ T.finished
      \/ ~T.finished /\ T.due /\ u = Fail([T EXCEPT !.floor = TRUE])
      \/ ~T.finished /\ ~T.due /\ LivePeers(T) = {} /\ u = Fail(v)
      \/ ~T.finished /\ (slots = 0 \/ P = {}) /\ u = v
      \/ /\ ~T.finished /\ P # {}
         /\ \E some \in SUBSET Ready(T) : \E plan \in [P -> some] : u = Deal(r, plan)
      \/ /\ ~T.finished /\ P # {} /\ slots # 0 /\ Ready(T) = {} /\ LivePeers(T) # {}
         /\ u = Deal(w, probes)
  <2>1. v.pending = P
    BY <1>2
  <2> QED
    BY <1>1, <2>1 DEF Refill, AlonePlans, Chosen
<1> HIDE DEF v
<1>4. LivePeers(T) \in SUBSET Peer /\ Ready(T) \in SUBSET LivePeers(T) /\ peers \in SUBSET LivePeers(T)
      /\ \A p \in LivePeers(T) : p \in Source /\ ~T.lane[p].retired /\ p # Origin
  BY SourceFacts DEF LivePeers, Ready
<1>5. P \cap T.verified = {} /\ (~T.finished => Piece \subseteq Covered(T) \cup P)
  BY DEF NoneLost, Covered
<1>6. CASE u = T /\ T.finished
  BY <1>1, <1>6, LedSame DEF Post, NoneLost
<1>7. CASE ~T.finished /\ T.due /\ u = Fail([T EXCEPT !.floor = TRUE])
  <2> DEFINE f == [T EXCEPT !.floor = TRUE]
  <2>1. /\ f \in SolidState
        /\ f.mode = T.mode /\ f.finished = T.finished /\ f.verified = T.verified
        /\ f.lane = T.lane /\ f.probes = T.probes /\ f.live = T.live /\ f.ended = T.ended
        /\ f.sound = T.sound /\ f.started = T.started /\ f.due = T.due
    BY <1>1 DEF SolidState
  <2>2. u = Fail(f)
    BY <1>7
  <2> HIDE DEF f
  <2>3. Post(T, Fail(f), S)
    BY <1>7, <2>1, FailPost
  <2> QED
    BY <2>2, <2>3
<1>8. CASE ~T.finished /\ ~T.due /\ LivePeers(T) = {} /\ u = Fail(v)
  <2>1. Post(T, Fail(v), S)
    BY <1>2, <1>8, FailPost
  <2> QED
    BY <1>8, <2>1
<1>9. CASE ~T.finished /\ (slots = 0 \/ P = {}) /\ u = v
  <2> DEFINE X == [s \in Source |-> {}]
  <2>1. Handed(v, v, X)
    BY <1>2, HandedNothing
  <2>2. MayGet(v, X)
    BY <1>2 DEF MayGet
  <2>3. UNION {X[s] : s \in Source} = {}
    OBVIOUS
  <2> HIDE DEF X
  <2>5. Post(T, v, S)
    <3>1. T.finished \/ v.mode # "peer_only" => v.pending = {}
      BY <1>2, <1>9
    <3>2. ~T.finished => Piece \subseteq Covered(T) \cup v.pending \cup UNION {X[s] : s \in Source}
      BY <1>2, <1>5
    <3> QED
      BY <1>2, <2>1, <2>2, <3>1, <3>2, HandedPost
  <2> QED
    BY <1>9, <2>5
<1>10. CASE /\ ~T.finished /\ P # {}
            /\ \E some \in SUBSET Ready(T) : \E plan \in [P -> some] : u = Deal(r, plan)
  <2>0. PICK some \in SUBSET Ready(T) : \E plan \in [P -> some] : u = Deal(r, plan)
    BY <1>10
  <2>1. PICK plan \in [P -> some] : u = Deal(r, plan)
    BY <2>0
  <2> DEFINE X == [s \in Source |-> Share(plan, s)]
  <2>2. plan \in [P -> Source]
    BY <1>4
  <2>3. /\ UNION {X[s] : s \in Source} = P /\ DOMAIN plan \in SUBSET Piece
        /\ \A s \in Source : X[s] \subseteq P /\ (X[s] # {} => s \in LivePeers(T))
    <3>1. UNION {X[s] : s \in Source} = P /\ DOMAIN plan \in SUBSET Piece
      BY <1>2, <2>2, Shares
    <3>2. \A s \in Source : X[s] \subseteq P /\ (X[s] # {} => s \in LivePeers(T))
      BY <1>4, <2>2 DEF Share
    <3> QED
      BY <3>1, <3>2, <1>10
  <2>4. /\ r \in SolidState /\ r.pending = {}
        /\ r.mode = T.mode /\ r.finished = T.finished /\ r.verified = T.verified
        /\ r.lane = T.lane /\ r.probes = T.probes /\ r.live = T.live /\ r.ended = T.ended
        /\ r.sound = T.sound /\ r.started = T.started /\ r.due = T.due /\ r.spare = T.spare
    BY <1>2 DEF SolidState
  <2> HIDE DEF r
  <2>5. Handed(r, u, X)
    BY <2>1, <2>3, <2>4, DealSound
  <2> HIDE DEF X
  <2>6. MayGet(r, X)
    BY <1>4, <1>5, <1>10, <2>3, <2>4 DEF MayGet
  <2>7. Piece \subseteq Covered(T) \cup r.pending \cup UNION {X[s] : s \in Source}
    BY <1>5, <1>10, <2>3
  <2> QED
    BY <2>4, <2>5, <2>6, <2>7, HandedPost
<1>11. CASE /\ ~T.finished /\ P # {} /\ slots # 0 /\ Ready(T) = {} /\ LivePeers(T) # {}
            /\ u = Deal(w, probes)
  <2> DEFINE X == [s \in Source |-> Share(probes, s)]
             D == DOMAIN probes
  <2>1. slots \in Nat
    <3>1. ActiveHolders(T) \in SUBSET Source
      BY DEF ActiveHolders
    <3>2. IsFiniteSet(ActiveHolders(T))
      BY <3>1, SourceFacts, FS_Subset
    <3>3. Cardinality(ActiveHolders(T)) \in Nat
      BY <3>2, FS_CardinalityType
    <3> QED
      BY <3>3, CapAssumption DEF Less
  <2>2. /\ D \in SUBSET P /\ \A x \in D : probes[x] \in peers
    <3>1. v.pending \in SUBSET Piece /\ peers \in SUBSET Peer
      BY <1>2, <1>4
    <3> HIDE DEF peers, slots
    <3>3. /\ DOMAIN probes \in SUBSET v.pending
          /\ \A x \in DOMAIN probes : probes[x] \in peers
      BY <2>1, <3>1, ProbesSound
    <3> QED
      BY <1>2, <1>11, <3>3
  <2>3. probes \in [D -> Source]
    <3>1. probes = [x \in DOMAIN probes |-> probes[x]]
      BY DEF Probes
    <3> QED
      BY <3>1, <2>2, <1>4
  <2> HIDE DEF probes, peers, slots
  <2>4. /\ UNION {X[s] : s \in Source} = D /\ DOMAIN probes \in SUBSET Piece
        /\ \A s \in Source : X[s] \subseteq D
    <3>1. D \in SUBSET Piece
      BY <1>2, <2>2
    <3>2. /\ UNION {Share(probes, s) : s \in Source} = D
          /\ \A s \in Source : Share(probes, s) \subseteq D
          /\ \A x \in D : x \in Share(probes, probes[x])
      <4> HIDE DEF D
      <4> QED
        BY <2>3, <3>1, Shares
    <3>3. \A x \in D : probes[x] \in Source
      BY <2>3
    <3> QED
      BY <3>1, <3>2, <3>3
  <2>5. \A s \in Source : X[s] # {} => s \in LivePeers(T)
    BY <1>4, <2>2 DEF Share
  <2>7. /\ w \in SolidState /\ w.pending = P \ D
        /\ w.mode = T.mode /\ w.finished = T.finished /\ w.verified = T.verified
        /\ w.lane = T.lane /\ w.probes = T.probes /\ w.live = T.live /\ w.ended = T.ended
        /\ w.sound = T.sound /\ w.started = T.started /\ w.due = T.due
    BY <1>2 DEF SolidState
  <2> HIDE DEF w
  <2>8. Handed(w, u, X)
    BY <1>11, <2>4, <2>7, DealSound
  <2> HIDE DEF X
  <2>9. MayGet(w, X)
    BY <1>4, <1>5, <1>11, <2>2, <2>4, <2>5, <2>7 DEF MayGet
  <2>10. Piece \subseteq Covered(T) \cup w.pending \cup UNION {X[s] : s \in Source}
    BY <1>5, <1>11, <2>4, <2>7
  <2> QED
    BY <1>11, <2>7, <2>8, <2>9, <2>10, HandedPost
<1> HIDE DEF slots, w, r, P, probes, peers
<1> QED
  BY <1>3, <1>6, <1>7, <1>8, <1>9, <1>10, <1>11

LEMMA PostFrom ==
    ASSUME NEW T, NEW v, NEW u, NEW S, Post(v, u, S),
           v.mode = T.mode, v.finished = T.finished, v.verified = T.verified,
           v.lane = T.lane, v.live = T.live, v.ended = T.ended,
           v.sound = T.sound, v.started = T.started, v.due = T.due
    PROVE  Post(T, u, S)
<1>1. LivePeers(v) = LivePeers(T)
  BY DEF LivePeers
<1>2. Led(T, u) /\ Calm(T, u)
  BY DEF Post, Led, Calm
<1> QED
  BY <1>1, <1>2 DEF Post

\* A step that hands out pieces and changes nothing else.
LEMMA OnlyHanded ==
    ASSUME NEW T, NEW S, Fit(T, S), NEW X, MayGet(T, X), NEW u, Handed(T, u, X),
           ~T.finished => Piece \subseteq Covered(T) \cup T.pending \cup UNION {X[s] : s \in Source}
    PROVE  Post(T, u, S)
<1>1. T \in SolidState /\ (T.finished \/ T.mode # "peer_only" => T.pending = {})
  BY DEF Fit, Lanes
<1> QED
  BY <1>1, HandedPost

LEMMA AssignSound ==
    ASSUME NEW T, NEW S, Fit(T, S), NEW pieces \in SUBSET Piece,
           ~T.finished => Piece \subseteq Covered(T) \cup T.pending \cup pieces,
           T.finished => pieces = {},
           T.mode = "exclusive" => pieces \cap Covered(T) = {},
           NEW u \in Assign(T, pieces)
    PROVE  Post(T, u, S)
<1>1. /\ T \in SolidState /\ T.started /\ Lanes(T)
      /\ T.finished \/ T.mode # "peer_only" => T.pending = {}
  BY DEF Fit, Lanes
<1>2. CASE T.mode = "peer_only"
  <2> DEFINE v == [T EXCEPT !.pending = @ \cup (pieces \ Covered(T))]
  <2>1. u \in Refill(v)
    BY <1>2 DEF Assign
  <2>2. /\ v \in SolidState /\ v.pending = T.pending \cup (pieces \ Covered(T))
        /\ v.mode = T.mode /\ v.finished = T.finished /\ v.verified = T.verified
        /\ v.lane = T.lane /\ v.probes = T.probes /\ v.live = T.live /\ v.ended = T.ended
        /\ v.sound = T.sound /\ v.started = T.started /\ v.due = T.due /\ v.spare = T.spare
    BY <1>1 DEF SolidState
  <2> HIDE DEF v
  <2>3. v.finished \/ v.mode # "peer_only" => v.pending = {}
    BY <1>1, <1>2, <2>2
  <2>4. /\ Lanes(v) /\ Behind(v, S) /\ Single(v)
        /\ Covered(v) = Covered(T)
    BY <2>2, <2>3, Noted
  <2>5. Fit(v, S)
    BY <2>2, <2>4 DEF Fit
  <2>6. NoneLost(v)
    BY <2>2, <2>4 DEF NoneLost
  <2>7. Post(v, u, S)
    BY <1>2, <2>1, <2>2, <2>5, <2>6, RefillSound
  <2> QED
    BY <2>2, <2>7, PostFrom
<1>3. CASE T.mode # "peer_only" /\ (pieces = {} \/ T.finished)
  <2> DEFINE X == [s \in Source |-> {}]
  <2>1. u = T
    BY <1>3 DEF Assign
  <2>2. Handed(T, T, X)
    BY <1>1, HandedNothing
  <2>3. MayGet(T, X)
    BY DEF MayGet
  <2>4. ~T.finished => Piece \subseteq Covered(T) \cup T.pending \cup UNION {X[s] : s \in Source}
    BY <1>3
  <2> HIDE DEF X
  <2> QED
    BY <1>3, <2>1, <2>2, <2>3, <2>4, OnlyHanded
<1>4. CASE /\ T.mode # "peer_only" /\ ~T.finished /\ u = QueueOrigin(T, Ranges(pieces))
  <2> DEFINE q == Ranges(pieces)
             X == [x \in Source |-> IF x = Origin THEN In(q) ELSE {}]
  <2>1. q \in Seq(Solid) /\ Apart(q) /\ In(q) = pieces
    BY RangesSound
  <2> HIDE DEF q
  <2>2. Handed(T, QueueOrigin(T, q), X)
    BY <1>1, <1>4, <2>1, QueueOriginSound
  <2>3. X[Origin] = pieces /\ \A s \in Source : s # Origin => X[s] = {}
    BY <2>1, SourceFacts
  <2> HIDE DEF X
  <2>4. MayGet(T, X)
    <3>1. \A s \in Source : X[s] # {} => s = Origin
      BY <2>3
    <3>2. \A s, r \in Source : T.mode = "exclusive" => X[s] \cap Held(T, r) = {}
      BY <2>3 DEF Covered
    <3> QED
      BY <1>1, <1>4, <2>3, <3>1, <3>2 DEF MayGet, Lanes
  <2>5. Piece \subseteq Covered(T) \cup T.pending \cup UNION {X[s] : s \in Source}
    BY <1>4, <2>3, SourceFacts
  <2>6. u = QueueOrigin(T, q)
    BY <1>4 DEF q
  <2> QED
    BY <1>4, <2>2, <2>4, <2>5, <2>6, OnlyHanded
<1>5. CASE /\ T.mode # "peer_only" /\ ~T.finished
           /\ \E v \in SolidState : \E plan \in [pieces -> LivePeers(T) \cup {Origin}] :
                 /\ v.mode = T.mode /\ v.finished = T.finished /\ v.verified = T.verified
                 /\ v.lane = T.lane /\ v.probes = T.probes /\ v.live = T.live
                 /\ v.ended = T.ended /\ v.sound = T.sound /\ v.started = T.started
                 /\ v.due = T.due /\ v.pending = T.pending
                 /\ u = Deal(v, plan)
  <2>1. PICK v \in SolidState : \E plan \in [pieces -> LivePeers(T) \cup {Origin}] :
                 /\ v.mode = T.mode /\ v.finished = T.finished /\ v.verified = T.verified
                 /\ v.lane = T.lane /\ v.probes = T.probes /\ v.live = T.live
                 /\ v.ended = T.ended /\ v.sound = T.sound /\ v.started = T.started
                 /\ v.due = T.due /\ v.pending = T.pending
                 /\ u = Deal(v, plan)
    BY <1>5
  <2>2. PICK plan \in [pieces -> LivePeers(T) \cup {Origin}] : u = Deal(v, plan)
    BY <2>1
  <2> DEFINE X == [s \in Source |-> Share(plan, s)]
  <2>3. plan \in [pieces -> Source]
    BY SourceFacts DEF LivePeers
  <2>4. /\ UNION {X[s] : s \in Source} = pieces /\ DOMAIN plan \in SUBSET Piece
    BY <2>3, Shares
  <2>5. /\ \A s \in Source : X[s] \subseteq pieces
        /\ \A s, r \in Source : s # r => X[s] \cap X[r] = {}
        /\ \A s \in Source : X[s] # {} => s \in LivePeers(T) \cup {Origin}
    BY <2>2 DEF Share
  <2>6. Handed(v, u, X)
    BY <2>2, <2>4, DealSound
  <2> HIDE DEF X
  <2>7. \A s \in Source : Held(v, s) = Held(T, s)
    BY <2>1 DEF Held
  <2>8. MayGet(v, X)
    <3>1. \A s, r \in Source : T.mode = "exclusive" => X[s] \cap Held(v, r) = {}
      BY <2>5, <2>7 DEF Covered
    <3>2. \A s \in Source : X[s] # {} => ~v.lane[s].retired
      BY <1>1, <2>1, <2>5 DEF LivePeers, Lanes
    <3> QED
      BY <1>5, <2>1, <2>5, <3>1, <3>2 DEF MayGet
  <2>9. Piece \subseteq Covered(T) \cup v.pending \cup UNION {X[s] : s \in Source}
    BY <1>5, <2>1, <2>4
  <2>11. v.finished \/ v.mode # "peer_only" => v.pending = {}
    BY <1>1, <2>1
  <2> QED
    BY <1>5, <2>1, <2>6, <2>8, <2>9, <2>11, HandedPost
<1>6. ASSUME T.mode # "peer_only", pieces # {}, ~T.finished
      PROVE  \/ u = QueueOrigin(T, Ranges(pieces))
             \/ \E v \in SolidState : \E plan \in [pieces -> LivePeers(T) \cup {Origin}] :
                 /\ v.mode = T.mode /\ v.finished = T.finished /\ v.verified = T.verified
                 /\ v.lane = T.lane /\ v.probes = T.probes /\ v.live = T.live
                 /\ v.ended = T.ended /\ v.sound = T.sound /\ v.started = T.started
                 /\ v.due = T.due /\ v.pending = T.pending
                 /\ u = Deal(v, plan)
  <2> DEFINE peers == LivePeers(T) \cap T.probes \cap T.spare
             probes == Probes(pieces, peers, MaxHolders)
             m == Cardinality(DOMAIN probes)
             others == IF m = MaxHolders THEN {} ELSE LivePeers(T) \ T.probes
             Both(plan) == [x \in pieces |-> IF x \in DOMAIN probes THEN probes[x] ELSE plan[x]]
             v == [T EXCEPT !.spare = @ \ Probed(probes)]
  <2>1. \/ u = QueueOrigin(T, Ranges(pieces))
        \/ \E plan \in Plans(T, pieces \ DOMAIN probes, others, MaxHolders - m) :
              u = Deal(v, Both(plan))
    BY <1>6 DEF Assign
  <2>2. SUFFICES ASSUME NEW plan \in Plans(T, pieces \ DOMAIN probes, others, MaxHolders - m),
                        u = Deal(v, Both(plan))
                 PROVE  \E w \in SolidState : \E p \in [pieces -> LivePeers(T) \cup {Origin}] :
                          /\ w.mode = T.mode /\ w.finished = T.finished /\ w.verified = T.verified
                          /\ w.lane = T.lane /\ w.probes = T.probes /\ w.live = T.live
                          /\ w.ended = T.ended /\ w.sound = T.sound /\ w.started = T.started
                          /\ w.due = T.due /\ w.pending = T.pending
                          /\ u = Deal(w, p)
    BY <2>1
  <2>3. DOMAIN probes \in SUBSET pieces /\ \A x \in DOMAIN probes : probes[x] \in peers
    <3>1. peers \in SUBSET Peer /\ MaxHolders \in Nat
      BY CapAssumption DEF LivePeers
    <3> HIDE DEF peers
    <3> QED
      BY <3>1, ProbesSound
  <2>4. plan \in [pieces \ DOMAIN probes -> LivePeers(T) \cup {Origin}]
    <3>1. \E some \in SUBSET others : plan \in [pieces \ DOMAIN probes -> some \cup {Origin}]
      <4> HIDE DEF probes, others, m
      <4> QED
        BY DEF Plans, TailPlans, Chosen
    <3>2. others \in SUBSET LivePeers(T)
      OBVIOUS
    <3> HIDE DEF others, probes
    <3> QED
      BY <3>1, <3>2
  <2>5. Both(plan) \in [pieces -> LivePeers(T) \cup {Origin}]
    <3>1. peers \in SUBSET LivePeers(T)
      OBVIOUS
    <3> HIDE DEF probes, peers
    <3> QED
      BY <2>3, <2>4, <3>1
  <2> HIDE DEF probes
  <2>6. /\ v \in SolidState
        /\ v.mode = T.mode /\ v.finished = T.finished /\ v.verified = T.verified
        /\ v.lane = T.lane /\ v.probes = T.probes /\ v.live = T.live
        /\ v.ended = T.ended /\ v.sound = T.sound /\ v.started = T.started
        /\ v.due = T.due /\ v.pending = T.pending
    BY <1>1 DEF SolidState
  <2> QED
    BY <2>2, <2>5, <2>6
<1> QED
  BY <1>2, <1>3, <1>4, <1>5, <1>6

\* What origin has queued may be claimed by peers.
LEMMA ClaimSound ==
    ASSUME NEW T, Fit(T, {}), T.mode = "exclusive", NEW P
    PROVE  LET c == Claim(T, P) IN
           /\ Fit(c, {}) /\ Led(T, c) /\ Calm(T, c)
           /\ c.verified = T.verified /\ c.due = T.due
           /\ c.pending = T.pending /\ c.finished = T.finished /\ c.mode = T.mode
           /\ \A p \in Peer : c.lane[p] = T.lane[p]
           /\ Held(c, Origin) = (In(T.lane[Origin].queue) \ P) \cup In(T.lane[Origin].flight)
<1> DEFINE q == T.lane[Origin].queue
           f == T.lane[Origin].flight
           left == Runs(Listed({a \in Places(q) : a[2] \notin P}))
           l == [T.lane[Origin] EXCEPT !.queue = left]
           L == [T.lane EXCEPT ![Origin] = l]
           c == Claim(T, P)
<1>1. /\ T \in SolidState /\ T.started /\ Lanes(T) /\ Behind(T, {}) /\ Single(T)
  BY DEF Fit
<1>2. T.lane \in [Source -> SolidLane] /\ T.lane[Origin] \in SolidLane /\ q \in Seq(Solid)
  BY <1>1, SourceFacts DEF SolidState, SolidLane
<1>3. left \in Seq(Solid) /\ In(left) = In(q) \ P /\ (Apart(q) => Apart(left))
  <2> HIDE DEF q
  <2> QED
    BY <1>2, RemainingSound
<1>4. c = [T EXCEPT !.lane = L]
  BY <1>1, <1>2 DEF Claim, SolidState
<1> HIDE DEF left, c
<1>5. /\ l \in SolidLane /\ l.queue = left /\ l.flight = f
      /\ l.retired = T.lane[Origin].retired /\ l.measured = T.lane[Origin].measured
  BY <1>2, <1>3 DEF SolidLane
<1> HIDE DEF l
<1>6. L \in [Source -> SolidLane] /\ L[Origin] = l /\ \A p \in Peer : L[p] = T.lane[p]
  BY <1>2, <1>5, SourceFacts
<1> HIDE DEF L
<1>7. /\ c \in SolidState /\ c.lane = L
      /\ c.mode = T.mode /\ c.finished = T.finished /\ c.verified = T.verified
      /\ c.probes = T.probes /\ c.live = T.live /\ c.ended = T.ended
      /\ c.sound = T.sound /\ c.started = T.started /\ c.due = T.due
      /\ c.pending = T.pending /\ c.spare = T.spare
  BY <1>1, <1>4, <1>6 DEF SolidState
<1>8. left = <<>> \/ q # <<>>
  <2>1. In(<<>>) = {}
    BY DEF In
  <2>2. q = <<>> => In(left) = {}
    BY <1>3, <2>1
  <2> QED
    BY <2>2, <1>3, EmptyQueue
<1>9. \A s \in Source : s = Origin \/ s \in Peer
  BY SourceFacts
<1>10. Idle(T, Origin) => Idle(c, Origin)
  BY <1>5, <1>6, <1>7, <1>8 DEF Idle
<1>11. \A p \in Peer : Idle(c, p) <=> Idle(T, p)
  BY <1>6, <1>7 DEF Idle
<1>12. ~T.lane[Origin].retired /\ ~c.lane[Origin].retired
  BY <1>1, <1>5, <1>6, <1>7 DEF Lanes
<1>13. Lanes(c)
  <2>1. \A s \in Source : c.lane[s].retired \/ c.finished => Idle(c, s)
    BY <1>1, <1>6, <1>7, <1>9, <1>10, <1>11, <1>12 DEF Lanes
  <2>2. /\ \A p \in Peer : Len(c.lane[p].flight) <= 1
        /\ c.live = {p \in Peer : c.lane[p].flight # <<>>}
    BY <1>1, <1>6, <1>7 DEF Lanes
  <2> QED
    BY <1>1, <1>7, <1>10, <1>12, <2>1, <2>2 DEF Lanes
<1>14. Behind(c, {})
  BY <1>1, <1>5, <1>6, <1>7, <1>8, <1>9 DEF Behind
<1>15. LivePeers(c) = LivePeers(T)
  BY <1>6, <1>7 DEF LivePeers
<1>17. \A p \in Peer : Held(c, p) = Held(T, p)
  BY <1>6, <1>7 DEF Held
<1>18. /\ Held(c, Origin) = (In(q) \ P) \cup In(f)
       /\ Held(T, Origin) = In(q) \cup In(f)
  BY <1>3, <1>5, <1>6, <1>7, <1>12 DEF Held
<1>19. Single(c)
  <2>1. \A s, r \in Source : s # r => Held(T, s) \cap Held(T, r) = {}
    BY <1>1 DEF Single
  <2>2. \A s \in Source : Held(c, s) \subseteq Held(T, s)
    BY <1>9, <1>17, <1>18
  <2>3. Apart(q) /\ In(q) \cap In(f) = {}
    BY <1>1 DEF Single
  <2>4. c.lane[Origin].queue = left /\ c.lane[Origin].flight = f
    BY <1>5, <1>6, <1>7
  <2>5. \A s, r \in Source : s # r => Held(c, s) \cap Held(c, r) = {}
    <3> SUFFICES ASSUME NEW s \in Source, NEW r \in Source, s # r
                 PROVE  Held(c, s) \cap Held(c, r) = {}
      OBVIOUS
    <3>1. Held(T, s) \cap Held(T, r) = {} /\ Held(c, s) \subseteq Held(T, s)
          /\ Held(c, r) \subseteq Held(T, r)
      BY <2>1, <2>2
    <3> QED
      BY <3>1
  <2>6. Apart(left) /\ In(left) \cap In(f) = {}
    BY <1>3, <2>3
  <2> QED
    BY <2>4, <2>5, <2>6 DEF Single
<1>20. Led(T, c) /\ Calm(T, c)
  <2>1. \A p \in Peer : T.lane[p].retired => c.lane[p].retired
    BY <1>6, <1>7
  <2>2. Len(c.lane[Origin].flight) >= Len(T.lane[Origin].flight)
    <3>1. c.lane[Origin].flight = f /\ Len(f) \in Nat
      BY <1>2, <1>5, <1>6, <1>7 DEF SolidLane
    <3> QED
      BY <3>1
  <2> QED
    BY <1>7, <2>1, <2>2 DEF Led, Calm
<1>21. Fit(c, {})
  BY <1>1, <1>7, <1>13, <1>14, <1>19 DEF Fit
<1> QED
  BY <1>6, <1>7, <1>18, <1>20, <1>21 DEF c

LEMMA RebalanceSound ==
    ASSUME NEW T, Fit(T, {}), NoneLost(T),
           NEW u \in Rebalance(T)
    PROVE  Post(T, u, {})
<1> DEFINE origin == T.lane[Origin]
           owed == Unverified(T) \cap
                  (In(origin.queue) \cup IF T.mode = "exclusive" THEN {} ELSE In(origin.flight))
           pending == owed \ UNION {Held(T, p) : p \in Peer}
           idle == Ready(T)
           busy == {p \in LivePeers(T) \ idle : owed \cap Held(T, p) = {}}
           both == Cardinality(idle) + Cardinality(busy)
           share == (Cardinality(pending) * Cardinality(idle) + both - 1) \div both
           LastOnes(n) == {x \in pending : Cardinality({y \in pending : y > x}) < n}
           InTurn(plan) == \A x, y \in DOMAIN plan : x < y => plan[x] <= plan[y]
<1>1. T \in SolidState /\ Lanes(T) /\ Single(T)
  BY DEF Fit
<1>2. Post(T, T, {})
  BY <1>1, LedSame DEF Post
<1>3. \/ u = T
      \/ /\ ~T.finished /\ pending # {}
         /\ \E n \in 1 .. share : \E plan \in [LastOnes(n) -> idle] :
               u = Deal(Claim(T, LastOnes(n)), plan)
  <2>1. Rebalance(T) =
          IF T.finished \/ T.floor \/ pending = {} \/ idle = {} \/ T.due THEN {T}
          ELSE {T} \cup UNION {{Deal(Claim(T, LastOnes(n)), plan) :
                                  plan \in {plan \in AlonePlans(LastOnes(n), idle) :
                                              InTurn(plan)}} :
                                n \in 1 .. share}
    BY DEF Rebalance
  <2>2. \A n : \A plan \in {plan \in AlonePlans(LastOnes(n), idle) : InTurn(plan)} :
           plan \in [LastOnes(n) -> idle]
    BY DEF AlonePlans
  <2> HIDE DEF LastOnes, InTurn, share, pending, idle
  <2>3. u = T \/ (/\ ~(T.finished \/ T.floor \/ pending = {} \/ idle = {} \/ T.due)
                  /\ \E n \in 1 .. share :
                       \E plan \in {plan \in AlonePlans(LastOnes(n), idle) : InTurn(plan)} :
                          u = Deal(Claim(T, LastOnes(n)), plan))
    BY <2>1
  <2> QED
    BY <2>2, <2>3
<1>4. SUFFICES ASSUME ~T.finished, pending # {}, NEW n \in 1 .. share,
                      NEW plan \in [LastOnes(n) -> idle],
                      u = Deal(Claim(T, LastOnes(n)), plan)
               PROVE  Post(T, u, {})
  BY <1>2, <1>3
<1> DEFINE P == LastOnes(n)
           c == Claim(T, P)
           X == [s \in Source |-> Share(plan, s)]
<1>5. P \in SUBSET pending /\ P \in SUBSET Piece /\ u = Deal(c, plan)
      /\ plan \in [P -> Ready(T)]
  BY <1>4 DEF Unverified
<1>6. T.mode # "peer_only"
  <2>1. SUFFICES ASSUME T.mode = "peer_only" PROVE FALSE
    OBVIOUS
  <2>2. Idle(T, Origin)
    BY <1>1, <2>1 DEF Lanes
  <2>3. In(<<>>) = {}
    BY DEF In
  <2> QED
    BY <1>4, <2>2, <2>3 DEF Idle
<1>7. \A x \in P : /\ x \in In(origin.queue) \/ x \in In(origin.flight)
                   /\ T.mode = "exclusive" => x \in In(origin.queue)
                   /\ \A p \in Peer : x \notin Held(T, p)
  BY <1>5
<1> HIDE DEF LastOnes, P, c, pending
<1>8. Ready(T) \subseteq LivePeers(T) /\ LivePeers(T) \subseteq Source /\ Origin \notin LivePeers(T)
  BY SourceFacts DEF Ready, LivePeers
<1>9. /\ UNION {X[s] : s \in Source} = P /\ DOMAIN plan \in SUBSET Piece
  <2>1. plan \in [P -> Source]
    BY <1>5, <1>8
  <2> QED
    BY <1>5, <2>1, Shares
<1>10. /\ \A s \in Source : X[s] \subseteq P
       /\ \A s, r \in Source : s # r => X[s] \cap X[r] = {}
       /\ \A s \in Source : X[s] # {} => s \in LivePeers(T)
  BY <1>5, <1>8 DEF Share
<1>11. Fit(c, {}) /\ Led(T, c) /\ Calm(T, c)
       /\ c.verified = T.verified /\ c.due = T.due
       /\ c.pending = T.pending /\ c.finished = T.finished /\ c.mode = T.mode
       /\ (\A p \in Peer : c.lane[p] = T.lane[p])
       /\ (T.mode = "exclusive" =>
             Held(c, Origin) = (In(origin.queue) \ P) \cup In(origin.flight))
       /\ (T.mode # "exclusive" => c = T)
  <2>1. CASE T.mode = "exclusive"
    BY <2>1, ClaimSound DEF c
  <2>2. CASE T.mode # "exclusive"
    <3>1. c = T
      BY <2>2 DEF Claim, c
    <3> QED
      BY <3>1, <1>1, <2>2, LedSame
  <2> QED
    BY <2>1, <2>2
<1>12. c \in SolidState
  BY <1>11 DEF Fit
<1>13. Handed(c, u, X)
  BY <1>5, <1>9, <1>12, DealSound
<1> HIDE DEF X
<1>14. \A p \in Peer : Held(c, p) = Held(T, p)
  BY <1>11 DEF Held
<1>15. LivePeers(c) = LivePeers(T)
  BY <1>11 DEF LivePeers
<1>16. ~T.lane[Origin].retired
  BY <1>1 DEF Lanes
<1>17. ASSUME T.mode = "exclusive", NEW r \in Source PROVE P \cap Held(c, r) = {}
  <2>1. CASE r \in Peer
    BY <2>1, <1>7, <1>14
  <2>2. CASE r = Origin
    <3>1. In(origin.queue) \cap In(origin.flight) = {}
      BY <1>1, <1>17 DEF Single
    <3>2. P \subseteq In(origin.queue)
      BY <1>7, <1>17
    <3>3. Held(c, Origin) = (In(origin.queue) \ P) \cup In(origin.flight)
      BY <1>11, <1>17
    <3> HIDE DEF origin
    <3> QED
      BY <2>2, <3>1, <3>2, <3>3
  <2> QED
    BY <2>1, <2>2, SourceFacts
<1>18. MayGet(c, X)
  <2>1. \A s \in Source : X[s] # {} => ~c.lane[s].retired /\ s # Origin
    BY <1>8, <1>10, <1>15 DEF LivePeers
  <2> QED
    BY <1>4, <1>6, <1>10, <1>11, <1>17, <2>1 DEF MayGet
<1>19. Covered(T) \subseteq Covered(c) \cup P
  <2>1. Held(T, Origin) \subseteq Held(c, Origin) \cup P
    <3>1. CASE T.mode = "exclusive"
      BY <3>1, <1>11, <1>16 DEF Held
    <3>2. CASE T.mode # "exclusive"
      BY <3>2, <1>11
    <3> QED
      BY <3>1, <3>2
  <2>2. \A s \in Source : Held(T, s) \subseteq Held(c, s) \cup P
    BY <2>1, <1>14, SourceFacts
  <2> QED
    BY <2>2, <1>11 DEF Covered
<1>20. Piece \subseteq Covered(c) \cup c.pending \cup UNION {X[s] : s \in Source}
  BY <1>4, <1>9, <1>11, <1>19 DEF NoneLost
<1>21. Post(c, u, {})
  BY <1>6, <1>11, <1>13, <1>18, <1>20, OnlyHanded
<1>22. Led(T, u) /\ Calm(T, u)
  <2>1. u \in SolidState
    BY <1>21 DEF Post, Fit
  <2> QED
    BY <1>1, <1>11, <1>12, <1>21, <2>1, LedOn, CalmOn DEF Post
<1> QED
  BY <1>11, <1>15, <1>21, <1>22, <1>6 DEF Post

-----------------------------------------------------------------------------
(* Taking sources out.                                                     *)

\* What the methods that call others make of a fit transfer.
Step(T, u) ==
    /\ Fit(u, {}) /\ NoneLost(u) /\ Led(T, u) /\ Calm(T, u)
    /\ u.verified = T.verified /\ u.due = T.due

LEMMA PostStep ==
    ASSUME NEW T, NEW u, Post(T, u, {})
    PROVE  Step(T, u)
BY DEF Post, Step

LEMMA StepOn ==
    ASSUME NEW T \in SolidState, NEW u, NEW v, Step(T, u), Step(u, v)
    PROVE  Step(T, v)
<1>1. u \in SolidState /\ v \in SolidState
  BY DEF Step, Fit
<1>2. Led(T, v) /\ Calm(T, v)
  BY <1>1, LedOn, CalmOn DEF Step
<1> QED
  BY <1>2 DEF Step

LEMMA StepSame ==
    ASSUME NEW T, Fit(T, {}), NoneLost(T)
    PROVE  Step(T, T)
<1>1. T \in SolidState
  BY DEF Fit
<1> QED
  BY <1>1, LedSame DEF Step

\* u is T with the peers in G retired and the pieces in V verified.
TakenOut(T, u, G, V) ==
    /\ u \in SolidState
    /\ u.mode = T.mode /\ u.sound = T.sound /\ u.started = T.started /\ u.due = T.due
    /\ u.finished = T.finished /\ u.pending = T.pending /\ u.ended = T.ended
    /\ u.live = T.live \ G /\ u.verified = T.verified \cup V
    /\ \A s \in G : u.lane[s].retired /\ Idle(u, s)
    /\ \A s \in Source \ G : u.lane[s] = T.lane[s]

LEMMA TakenOutSound ==
    ASSUME NEW T, NEW S, Fit(T, S), NEW G \in SUBSET Peer, NEW V, NEW u, TakenOut(T, u, G, V)
    PROVE  /\ Fit(u, S) /\ Led(T, u) /\ Calm(T, u)
           /\ LivePeers(u) = LivePeers(T) \ G
           /\ \A s \in G : Held(u, s) = {}
           /\ \A s \in Source \ G : Held(u, s) = Held(T, s)
           /\ Covered(T) \subseteq Covered(u) \cup UNION {Held(T, p) : p \in G}
<1>1. T \in SolidState /\ Lanes(T) /\ Behind(T, S) /\ Single(T) /\ T.started
  BY DEF Fit
<1>2. Origin \notin G /\ G \subseteq Source /\ Origin \in Source
  BY SourceFacts
<1>3. \A s \in G : Held(u, s) = {} /\ u.lane[s].flight = <<>> /\ u.lane[s].queue = <<>>
                   /\ u.lane[s].retired
  BY DEF TakenOut, Held, Idle
<1>4. \A s \in Source \ G : u.lane[s] = T.lane[s] /\ Held(u, s) = Held(T, s)
                            /\ (Idle(u, s) <=> Idle(T, s))
  BY DEF TakenOut, Held, Idle
<1>5. Lanes(u)
  <2>1. ~u.lane[Origin].retired
    BY <1>1, <1>2, <1>4 DEF Lanes
  <2>2. \A s \in Source : u.lane[s].retired \/ u.finished => Idle(u, s)
    BY <1>1, <1>4 DEF Lanes, TakenOut
  <2>3. \A p \in Peer : Len(u.lane[p].flight) <= 1
    <3>1. Len(<<>>) <= 1
      OBVIOUS
    <3> QED
      BY <1>1, <1>3, <1>4, <3>1, SourceFacts DEF Lanes
  <2>4. u.mode = "peer_only" => Idle(u, Origin)
    BY <1>1, <1>2, <1>4 DEF Lanes, TakenOut
  <2>5. u.finished \/ u.mode # "peer_only" => u.pending = {}
    BY <1>1 DEF Lanes, TakenOut
  <2>6. u.live = {p \in Peer : u.lane[p].flight # <<>>}
    <3>1. T.live = {p \in Peer : T.lane[p].flight # <<>>}
      BY <1>1 DEF Lanes
    <3>2. u.live = T.live \ G
      BY DEF TakenOut
    <3>3. \A p \in Peer : /\ p \in G => u.lane[p].flight = <<>>
                          /\ p \notin G => u.lane[p].flight = T.lane[p].flight
      BY <1>3, <1>4, SourceFacts
    <3> QED
      BY <3>1, <3>2, <3>3
  <2> QED
    BY <2>1, <2>2, <2>3, <2>4, <2>5, <2>6 DEF Lanes
<1>6. Behind(u, S)
  BY <1>1, <1>3, <1>4 DEF Behind
<1>7. \A s \in Source : Held(u, s) \subseteq Held(T, s)
  BY <1>3, <1>4
<1>8. Single(u)
  <2> SUFFICES ASSUME u.mode = "exclusive"
               PROVE  /\ \A s, r \in Source : s # r => Held(u, s) \cap Held(u, r) = {}
                      /\ Apart(u.lane[Origin].queue)
                      /\ In(u.lane[Origin].queue) \cap In(u.lane[Origin].flight) = {}
    BY DEF Single
  <2>1. T.mode = "exclusive" /\ u.lane[Origin] = T.lane[Origin]
    BY <1>2, <1>4 DEF TakenOut
  <2>2. ASSUME NEW s \in Source, NEW r \in Source, s # r PROVE Held(u, s) \cap Held(u, r) = {}
    <3>1. Held(T, s) \cap Held(T, r) = {}
      BY <1>1, <2>1, <2>2 DEF Single
    <3> QED
      BY <1>7, <3>1
  <2> QED
    BY <1>1, <2>1, <2>2 DEF Single
<1>9. Fit(u, S)
  BY <1>1, <1>5, <1>6, <1>8 DEF Fit, TakenOut
<1>10. Led(T, u) /\ Calm(T, u)
  <2>1. Len(u.lane[Origin].flight) >= Len(T.lane[Origin].flight)
    <3>1. T.lane[Origin].flight \in Seq(Solid)
      BY <1>1, <1>2 DEF SolidState, SolidLane
    <3>2. u.lane[Origin].flight = T.lane[Origin].flight
      BY <1>2, <1>4
    <3> QED
      BY <3>1, <3>2
  <2>2. \A p \in Peer : T.lane[p].retired => u.lane[p].retired
    BY <1>3, <1>4, SourceFacts
  <2>3. \A p \in T.live \ u.live : u.lane[p].retired
    BY <1>3 DEF TakenOut
  <2> QED
    BY <2>1, <2>2, <2>3 DEF Led, Calm, TakenOut
<1>11. LivePeers(u) = LivePeers(T) \ G
  BY <1>3, <1>4, SourceFacts DEF LivePeers
<1>12. Covered(T) \subseteq Covered(u) \cup UNION {Held(T, p) : p \in G}
  <2>1. T.verified \subseteq u.verified
    BY DEF TakenOut
  <2> QED
    BY <1>4, <2>1 DEF Covered
<1> QED
  BY <1>3, <1>4, <1>9, <1>10, <1>11, <1>12

LEMMA RetiredFields ==
    ASSUME NEW T \in SolidState, NEW p \in Source
    PROVE  LET r == Retired(T, p) IN
           /\ r \in SolidState
           /\ r.mode = T.mode /\ r.sound = T.sound /\ r.started = T.started
           /\ r.due = T.due /\ r.finished = T.finished /\ r.pending = T.pending
           /\ r.ended = T.ended /\ r.live = T.live /\ r.verified = T.verified
           /\ r.lane[p].retired /\ Idle(r, p)
           /\ \A s \in Source \ {p} : r.lane[s] = T.lane[s]
<1> DEFINE r == Retired(T, p)
           a == T.lane[p]
           l == [a EXCEPT !.retired = TRUE, !.queue = <<>>, !.flight = <<>>]
           L == [T.lane EXCEPT ![p] = l]
<1>1. a \in SolidLane /\ T.lane \in [Source -> SolidLane]
  BY DEF SolidState
<1>2. l \in SolidLane /\ l.retired /\ l.queue = <<>> /\ l.flight = <<>>
  <2>1. <<>> \in Seq(Solid)
    OBVIOUS
  <2> HIDE DEF a
  <2> QED
    BY <1>1, <2>1 DEF SolidLane
<1>3. r = [T EXCEPT !.lane = L]
  BY <1>1 DEF Retired, SolidState, SolidLane
<1> HIDE DEF l
<1>4. L \in [Source -> SolidLane] /\ L[p] = l /\ \A s \in Source \ {p} : L[s] = T.lane[s]
  BY <1>1, <1>2
<1> HIDE DEF L, r
<1>5. r \in SolidState /\ r.lane = L
  BY <1>3, <1>4 DEF SolidState
<1>6. /\ r.mode = T.mode /\ r.sound = T.sound /\ r.started = T.started
      /\ r.due = T.due /\ r.finished = T.finished /\ r.pending = T.pending
      /\ r.ended = T.ended /\ r.live = T.live /\ r.verified = T.verified
  BY <1>3 DEF SolidState
<1> QED
  BY <1>2, <1>4, <1>5, <1>6 DEF r, Idle

LEMMA RetiredTakenOut ==
    ASSUME NEW T \in SolidState, NEW p \in Peer
    PROVE  /\ TakenOut(T, Retired(Cancelled(T, p), p), {p}, {})
           /\ Freed(T, p) = Held(T, p) \ Covered(Retired(Cancelled(T, p), p))
<1> DEFINE c == Cancelled(T, p)
           u == Retired(c, p)
           w == Retired(T, p)
<1>1. p \in Source
  BY SourceFacts
<1>2. /\ c \in SolidState /\ c.lane = T.lane /\ c.live = T.live \ {p}
      /\ c.mode = T.mode /\ c.sound = T.sound /\ c.started = T.started /\ c.due = T.due
      /\ c.finished = T.finished /\ c.pending = T.pending /\ c.ended = T.ended
      /\ c.verified = T.verified
  BY DEF Cancelled, SolidState
<1> HIDE DEF c
<1>3. /\ w.verified = T.verified /\ w.lane[p].retired
      /\ \A s \in Source \ {p} : w.lane[s] = T.lane[s]
  BY <1>1, RetiredFields
<1>4. /\ u \in SolidState
      /\ u.mode = c.mode /\ u.sound = c.sound /\ u.started = c.started
      /\ u.due = c.due /\ u.finished = c.finished /\ u.pending = c.pending
      /\ u.ended = c.ended /\ u.live = c.live /\ u.verified = c.verified
      /\ u.lane[p].retired /\ Idle(u, p)
      /\ \A s \in Source \ {p} : u.lane[s] = c.lane[s]
  BY <1>1, <1>2, RetiredFields
<1> HIDE DEF u, w
<1>5. TakenOut(T, u, {p}, {})
  BY <1>2, <1>4 DEF TakenOut
<1>6. \A s \in Source : Held(w, s) = Held(u, s)
  BY <1>2, <1>3, <1>4 DEF Held
<1>7. Covered(w) = Covered(u)
  BY <1>2, <1>3, <1>4, <1>6 DEF Covered
<1> QED
  BY <1>5, <1>7 DEF c, u, w, Freed

\* One peer is given up, and what it alone had is assigned.
LEMMA GiveUpSound ==
    ASSUME NEW T, NEW S, Fit(T, S), NoneLost(T), NEW p \in Peer,
           NEW u \in Assign(Retired(Cancelled(T, p), p), Freed(T, p))
    PROVE  /\ Fit(u, S) /\ NoneLost(u) /\ Led(T, u) /\ Calm(T, u)
           /\ u.verified = T.verified /\ u.due = T.due
           /\ LivePeers(u) = LivePeers(T) \ {p}
           /\ ~T.finished /\ (T.mode = "peer_only" => ~T.due /\ LivePeers(T) \ {p} # {})
                => ~u.finished
<1> DEFINE r == Retired(Cancelled(T, p), p)
           F == Freed(T, p)
<1>1. T \in SolidState /\ Lanes(T)
  BY DEF Fit
<1>2. TakenOut(T, r, {p}, {}) /\ F = Held(T, p) \ Covered(r)
  BY <1>1, RetiredTakenOut
<1>3. u \in Assign(r, F)
  OBVIOUS
<1> HIDE DEF r, F
<1>4. /\ Fit(r, S) /\ Led(T, r) /\ Calm(T, r)
      /\ LivePeers(r) = LivePeers(T) \ {p}
      /\ Covered(T) \subseteq Covered(r) \cup UNION {Held(T, x) : x \in {p}}
  <2> DEFINE G == {p}
             N == {}
  <2>1. G \in SUBSET Peer /\ TakenOut(T, r, G, N)
    BY <1>2
  <2> HIDE DEF G, N
  <2>2. /\ Fit(r, S) /\ Led(T, r) /\ Calm(T, r) /\ LivePeers(r) = LivePeers(T) \ G
        /\ Covered(T) \subseteq Covered(r) \cup UNION {Held(T, x) : x \in G}
    BY <2>1, TakenOutSound
  <2> QED
    BY <2>2 DEF G
<1>5. /\ r.finished = T.finished /\ r.pending = T.pending /\ r.verified = T.verified
      /\ r.due = T.due /\ r.mode = T.mode
  BY <1>2 DEF TakenOut
<1>6. F \in SUBSET Piece
  <2>1. T.lane[p] \in SolidLane
    BY <1>1, SourceFacts DEF SolidState
  <2>2. \A q \in Seq(Solid) : In(q) \in SUBSET Piece
    BY SolidPieces
  <2> QED
    BY <1>2, <2>1, <2>2 DEF Held, SolidLane
<1>7. ~r.finished => Piece \subseteq Covered(r) \cup r.pending \cup F
  BY <1>2, <1>4, <1>5 DEF NoneLost
<1>8. r.finished => F = {}
  <2>1. T.finished => Idle(T, p)
    BY <1>1, SourceFacts DEF Lanes
  <2>2. In(<<>>) = {}
    BY DEF In
  <2> QED
    BY <1>2, <1>5, <2>1, <2>2 DEF Held, Idle
<1>9. F \cap Covered(r) = {}
  BY <1>2
<1>10. Post(r, u, S)
  BY <1>3, <1>4, <1>6, <1>7, <1>8, <1>9, AssignSound
<1>11. Led(T, u) /\ Calm(T, u)
  <2>1. r \in SolidState /\ u \in SolidState
    BY <1>4, <1>10 DEF Fit, Post
  <2> QED
    BY <1>1, <1>4, <1>10, <2>1, LedOn, CalmOn DEF Post
<1> QED
  BY <1>4, <1>5, <1>10, <1>11 DEF Post

\* A source whose answer is in is given what it has queued.
LEMMA IssueFit ==
    ASSUME NEW T, NEW s \in Source, Fit(T, {s}), NoneLost(T)
    PROVE  Step(T, Issue(T, s))
<1> DEFINE u == Issue(T, s)
           X == [x \in Source |-> {}]
           e == <<>>
<1>1. T \in SolidState /\ Lanes(T)
  BY DEF Fit
<1>2. /\ u \in SolidState /\ SameBut(T, u)
      /\ \A x \in Source \ {s} : u.lane[x] = T.lane[x]
      /\ u.live = IF s \in Peer /\ T.lane[s].flight = <<>> /\ T.lane[s].queue # <<>>
                  THEN T.live \cup {s} ELSE T.live
      /\ u.lane[s] \in SolidLane /\ Served(s, T.lane[s], u.lane[s], e)
  BY <1>1, IssueSound
<1> HIDE DEF u
<1>3. T.lane[s] \in SolidLane /\ T.lane[s].queue \in Seq(Solid)
  BY <1>1 DEF SolidState, SolidLane
<1>4. e \in Seq(Solid) /\ Apart(e) /\ In(e) = {} /\ T.lane[s].queue = T.lane[s].queue \o e
  BY <1>3 DEF Apart, In
<1> HIDE DEF e
<1>5. Got(s, T.lane[s], u.lane[s], {})
  <2> DEFINE a == T.lane[s]
             b == u.lane[s]
  <2>1. a \in SolidLane /\ b \in SolidLane /\ a.queue = a.queue \o e /\ Served(s, a, b, e)
    BY <1>2, <1>3, <1>4
  <2> HIDE DEF a, b
  <2>2. Served(s, a, b, <<>>)
    BY <2>1 DEF e
  <2>3. Got(s, a, b, In(e))
    BY <1>4, <2>1, <2>2, GotServed
  <2> QED
    BY <1>4, <2>3 DEF a, b
<1>6. ASSUME NEW x \in Source PROVE Got(x, T.lane[x], u.lane[x], {})
  <2>1. CASE x = s
    BY <2>1, <1>5
  <2>2. CASE x # s
    <3>1. T.lane[x] \in SolidLane /\ u.lane[x] = T.lane[x]
      BY <1>1, <1>2, <2>2 DEF SolidState
    <3> QED
      BY <3>1, GotNothing
  <2> QED
    BY <2>1, <2>2
<1>7. u.live = LiveAfter(T, u)
  <2>1. T.live = {p \in Peer : T.lane[p].flight # <<>>}
    BY <1>1 DEF Lanes
  <2>2. \A p \in Peer : p # s => u.lane[p] = T.lane[p]
    BY <1>2, SourceFacts
  <2>3. u.lane[s].flight # <<>> <=> T.lane[s].queue # <<>> \/ T.lane[s].flight # <<>>
    BY <1>2, <1>4 DEF Served, e
  <2> QED
    BY <1>2, <2>1, <2>2, <2>3 DEF LiveAfter
<1>8. Handed(T, u, X)
  BY <1>2, <1>6, <1>7 DEF Handed
<1>9. MayGet(T, X) /\ UNION {X[x] : x \in Source} = {}
  BY DEF MayGet
<1> HIDE DEF X
<1>10. Post(T, u, {s})
  BY <1>8, <1>9, OnlyHanded DEF NoneLost
<1>11. Behind(u, {})
  <2>1. u.lane[s].flight = <<>> => u.lane[s].queue = <<>>
    BY <1>2 DEF Served
  <2>2. Behind(u, {s})
    BY <1>10 DEF Post, Fit
  <2> QED
    BY <2>1, <2>2 DEF Behind
<1> QED
  BY <1>10, <1>11 DEF Post, Fit, Step, u

\* The function that a loop over 1 .. N defines, round p taking x to h[<<p, x>>].
Maps(h, N, D) == h \in [(1 .. N) \X D -> D]
Chained(f, N, D, a, h) ==
    /\ f \in [0 .. N -> D] /\ f[0] = a
    /\ \A p \in 1 .. N : f[p] = h[<<p, f[p - 1]>>]

LEMMA Chain ==
    ASSUME NEW N \in Nat, NEW D, NEW a \in D, NEW h, Maps(h, N, D)
    PROVE  \E f : Chained(f, N, D, a, h)
<1> SUFFICES ASSUME h \in [(1 .. N) \X D -> D]
             PROVE  \E f \in [0 .. N -> D] :
                       f[0] = a /\ \A p \in 1 .. N : f[p] = h[<<p, f[p - 1]>>]
  BY DEF Maps, Chained
<1> DEFINE Is(n, f) == /\ f \in [0 .. n -> D] /\ f[0] = a
                       /\ \A p \in 1 .. n : f[p] = h[<<p, f[p - 1]>>]
           Bad == {n \in 0 .. N : ~ \E f \in [0 .. n -> D] : Is(n, f)}
<1>0. ASSUME Bad = {} PROVE \E f \in [0 .. N -> D] : Is(N, f)
  <2>1. N \in 0 .. N /\ N \notin Bad
    <3> HIDE DEF Bad
    <3> QED
      BY <1>0
  <2> HIDE DEF Is
  <2> QED
    BY <2>1
<1>1. SUFFICES ASSUME Bad # {} PROVE FALSE
  <2> HIDE DEF Bad
  <2> QED
    BY <1>0
<1>2. PICK m \in Bad : \A x \in Bad : m <= x
  <2>1. Bad \in SUBSET Nat
    OBVIOUS
  <2> QED
    BY <1>1, <2>1, LeastOf
<1>3. m \in 0 .. N /\ m \in Nat
  BY <1>2
<1>4. m # 0
  <2> DEFINE f == [p \in 0 .. 0 |-> a]
  <2>1. f \in [0 .. 0 -> D] /\ Is(0, f)
    OBVIOUS
  <2> QED
    BY <2>1, <1>2
<1>5. m - 1 \in 0 .. N /\ m - 1 \notin Bad
  <2> HIDE DEF Bad
  <2> QED
    BY <1>2, <1>3, <1>4
<1>6. PICK f \in [0 .. m - 1 -> D] : Is(m - 1, f)
  BY <1>5
<1> DEFINE g == [p \in 0 .. m |-> IF p = m THEN h[<<m, f[m - 1]>>] ELSE f[p]]
<1>7. m \in 1 .. N /\ m - 1 \in 0 .. m - 1
  BY <1>3, <1>4
<1>8. h[<<m, f[m - 1]>>] \in D
  BY <1>6, <1>7
<1>9. \A p \in 0 .. m : p # m => p \in 0 .. m - 1
  BY <1>3
<1>10. g \in [0 .. m -> D]
  BY <1>6, <1>8, <1>9
<1>11. \A p \in 1 .. m : g[p] = h[<<p, g[p - 1]>>]
  <2> SUFFICES ASSUME NEW p \in 1 .. m PROVE g[p] = h[<<p, g[p - 1]>>]
    OBVIOUS
  <2>1. p - 1 \in 0 .. m /\ p - 1 # m /\ p \in 0 .. m /\ (p # m => p \in 1 .. m - 1)
    BY <1>3
  <2>2. g[p - 1] = f[p - 1]
    BY <2>1
  <2>3. CASE p = m
    BY <2>1, <2>2, <2>3
  <2>4. CASE p # m
    <3>1. f[p] = h[<<p, f[p - 1]>>]
      BY <1>6, <2>1, <2>4
    <3> QED
      BY <2>1, <2>2, <2>4, <3>1
  <2> QED
    BY <2>3, <2>4
<1>12. g[0] = a
  BY <1>3, <1>4, <1>6
<1> HIDE DEF g
<1>13. Is(m, g)
  BY <1>10, <1>11, <1>12
<1> QED
  BY <1>2, <1>10, <1>13

-----------------------------------------------------------------------------
(* The methods.                                                            *)

LEMMA RebalanceStep ==
    ASSUME NEW T, Fit(T, {}), NoneLost(T), NEW u \in Rebalance(T)
    PROVE  Step(T, u)
BY RebalanceSound, PostStep

LEMMA AbandonSound ==
    ASSUME NEW T, Fit(T, {}), NoneLost(T), NEW p \in Peer, NEW u \in Abandon(T, p)
    PROVE  Step(T, u)
<1>1. PICK v \in Assign(Retired(Cancelled(T, p), p), Freed(T, p)) : u \in Rebalance(v)
  BY DEF Abandon, Then
<1>2. Step(T, v)
  BY GiveUpSound DEF Step
<1>3. Step(v, u)
  BY <1>1, <1>2, RebalanceStep DEF Step
<1> QED
  BY <1>2, <1>3, StepOn DEF Fit

\* When the peer p has failed, seen from the core that has its answer.
LEMMA FailedSound ==
    ASSUME NEW T, Fit(T, {}), NoneLost(T), NEW p \in Peer, NEW u \in Failed(Cancelled(T, p), p)
    PROVE  Step(T, u)
<1> DEFINE c == Cancelled(T, p)
<1>1. T \in SolidState /\ Lanes(T)
  BY DEF Fit
<1>2. c.finished = T.finished /\ c.lane = T.lane /\ c.verified = T.verified
  BY <1>1 DEF Cancelled, SolidState
<1>3. Freed(c, p) = Freed(T, p)
  <2>1. Covered(Retired(c, p)) = Covered(Retired(T, p))
    <3>1. c \in SolidState
      BY <1>1 DEF Cancelled, SolidState
    <3> HIDE DEF c
    <3> DEFINE w == Retired(c, p)
               v == Retired(T, p)
    <3>2. /\ w.verified = c.verified /\ w.lane[p].retired
          /\ \A s \in Source \ {p} : w.lane[s] = c.lane[s]
      BY <3>1, RetiredFields, SourceFacts
    <3>3. /\ v.verified = T.verified /\ v.lane[p].retired
          /\ \A s \in Source \ {p} : v.lane[s] = T.lane[s]
      BY <1>1, RetiredFields, SourceFacts
    <3> HIDE DEF w, v
    <3>4. \A s \in Source : Held(w, s) = Held(v, s)
      BY <1>2, <3>2, <3>3 DEF Held
    <3>5. Covered(w) = Covered(v)
      BY <1>2, <3>2, <3>3, <3>4 DEF Covered
    <3> QED
      BY <3>5 DEF w, v
  <2> QED
    BY <1>2, <2>1 DEF Freed, Held
<1>4. CASE T.finished \/ T.lane[p].retired
  <2>1. u = c
    BY <1>2, <1>4, SourceFacts DEF Failed
  <2>2. p \notin T.live
    BY <1>1, <1>4, SourceFacts DEF Lanes, Idle
  <2>3. c = T
    BY <1>1, <2>2 DEF Cancelled, SolidState
  <2> QED
    BY <2>1, <2>3, StepSame
<1>5. CASE ~T.finished /\ ~T.lane[p].retired
  <2>1. \E v \in Assign(Retired(c, p), Freed(c, p)) : u \in Rebalance(v)
    BY <1>2, <1>5, SourceFacts DEF Failed, Then
  <2>2. PICK v \in Assign(Retired(c, p), Freed(T, p)) : u \in Rebalance(v)
    BY <2>1, <1>3
  <2>3. Step(T, v)
    BY <2>2, GiveUpSound DEF Step
  <2>4. Step(v, u)
    BY <2>2, <2>3, RebalanceStep DEF Step
  <2> QED
    BY <1>1, <2>3, <2>4, StepOn
<1> QED
  BY <1>4, <1>5

LEMMA EndgameSound ==
    ASSUME NEW T, Fit(T, {}), NoneLost(T), NEW u \in Endgame(T)
    PROVE  Step(T, u)
<1> DEFINE pieces == EndgamePieces(T)
           late == {s \in Source : T.lane[s].flight # <<>> /\ Held(T, s) \cap pieces # {}}
           v == [T EXCEPT !.duplicated = @ \cup pieces]
           q == Ranges(pieces)
<1>1. T \in SolidState /\ Lanes(T)
  BY DEF Fit
<1>2. u = T \/ (late # {} /\ \E s \in EndgameSources(T) : u = Give(v, s, q))
  BY DEF Endgame
<1>3. CASE u = T
  BY <1>3, StepSame
<1>4. CASE late # {} /\ \E s \in EndgameSources(T) : u = Give(v, s, q)
  <2>1. PICK s \in EndgameSources(T) : u = Give(v, s, q)
    BY <1>4
  <2>2. pieces \in SUBSET Piece /\ T.mode # "exclusive" /\ ~T.finished
    <3>1. PICK x \in Source : T.lane[x].flight # <<>> /\ Held(T, x) \cap pieces # {}
      BY <1>4
    <3>2. pieces # {}
      BY <3>1
    <3> QED
      BY <1>1, <3>1, <3>2 DEF EndgamePieces, Unverified, Lanes, Idle
  <2>3. s \in Source /\ ~T.lane[s].retired /\ (s = Origin => T.mode # "peer_only")
    BY <1>1, <2>1, SourceFacts DEF EndgameSources, Ready, LivePeers, Lanes
  <2> HIDE DEF pieces
  <2>4. q \in Seq(Solid) /\ Apart(q)
    BY <2>2, RangesSound
  <2> HIDE DEF q
  <2>5. /\ v \in SolidState
        /\ v.mode = T.mode /\ v.finished = T.finished /\ v.verified = T.verified
        /\ v.lane = T.lane /\ v.live = T.live /\ v.ended = T.ended
        /\ v.sound = T.sound /\ v.started = T.started /\ v.due = T.due
        /\ v.pending = T.pending
    BY <1>1, <2>2 DEF SolidState
  <2> HIDE DEF v
  <2> DEFINE X == [x \in Source |-> IF x = s THEN In(q) ELSE {}]
  <2>6. Handed(v, u, X)
    BY <2>1, <2>3, <2>4, <2>5, HandedByGive
  <2>7. MayGet(v, X)
    BY <2>2, <2>3, <2>5 DEF MayGet
  <2>8. v.finished \/ v.mode # "peer_only" => v.pending = {}
    BY <1>1, <2>5 DEF Lanes
  <2> HIDE DEF X
  <2>9. ~T.finished => Piece \subseteq Covered(T) \cup v.pending \cup UNION {X[x] : x \in Source}
    BY <2>5 DEF NoneLost
  <2>10. Post(T, u, {})
    BY <2>5, <2>6, <2>7, <2>8, <2>9, HandedPost
  <2> QED
    BY <2>10, PostStep
<1> QED
  BY <1>2, <1>3, <1>4

LEMMA AtFloorSound ==
    ASSUME NEW T, Fit(T, {}), NoneLost(T), ~T.finished, T.mode # "peer_only"
    PROVE  Step(T, AtFloor(T))
<1> DEFINE peers == Late(T)
           L == [s \in Source |-> IF s \in peers
                                  THEN [T.lane[s] EXCEPT !.retired = TRUE, !.queue = <<>>,
                                                         !.flight = <<>>]
                                  ELSE T.lane[s]]
           f == [T EXCEPT !.floor = TRUE, !.live = @ \ peers, !.lane = L]
           taken == UNION {Held(T, p) : p \in peers}
           P == taken \ Covered(f)
           q == Ranges(P)
           u == QueueOrigin(f, q)
           X == [x \in Source |-> IF x = Origin THEN In(q) ELSE {}]
<1>1. T \in SolidState /\ Lanes(T) /\ T.pending = {}
  BY DEF Fit, Lanes
<1>2. u = AtFloor(T)
  BY <1>1 DEF AtFloor, SolidState
<1>3. peers \in SUBSET Peer
  BY DEF Late, LivePeers
<1> HIDE DEF peers
<1>4. ASSUME NEW s \in Source
      PROVE  /\ L[s] \in SolidLane
             /\ s \in peers => L[s].retired /\ L[s].queue = <<>> /\ L[s].flight = <<>>
             /\ s \notin peers => L[s] = T.lane[s]
  <2>1. T.lane[s] \in SolidLane
    BY <1>1 DEF SolidState
  <2>2. <<>> \in Seq(Solid)
    OBVIOUS
  <2>3. L[s] = IF s \in peers THEN [T.lane[s] EXCEPT !.retired = TRUE, !.queue = <<>>,
                                                     !.flight = <<>>]
               ELSE T.lane[s]
    OBVIOUS
  <2> HIDE DEF L
  <2> QED
    BY <2>1, <2>2, <2>3 DEF SolidLane
<1>5. L \in [Source -> SolidLane]
  BY <1>4
<1> HIDE DEF L
<1>6. /\ f \in SolidState /\ f.lane = L /\ f.live = T.live \ peers
      /\ f.mode = T.mode /\ f.sound = T.sound /\ f.started = T.started /\ f.due = T.due
      /\ f.finished = T.finished /\ f.pending = T.pending /\ f.ended = T.ended
      /\ f.verified = T.verified
  BY <1>1, <1>5 DEF SolidState
<1> HIDE DEF f
<1>7. TakenOut(T, f, peers, {})
  BY <1>3, <1>4, <1>6, SourceFacts DEF TakenOut, Idle
<1>8. /\ Fit(f, {}) /\ Led(T, f) /\ Calm(T, f)
      /\ Covered(T) \subseteq Covered(f) \cup taken
  BY <1>3, <1>7, TakenOutSound
<1>9. P \in SUBSET Piece
  <2>1. \A x \in Seq(Solid) : In(x) \in SUBSET Piece
    BY SolidPieces
  <2>2. \A p \in Peer : T.lane[p] \in SolidLane
    BY <1>1, SourceFacts DEF SolidState
  <2>3. \A p \in Peer : Held(T, p) \in SUBSET Piece
    BY <2>1, <2>2 DEF Held, SolidLane
  <2> QED
    BY <1>3, <2>3
<1>10. P \cap Covered(f) = {} /\ Piece \subseteq Covered(f) \cup P
  BY <1>1, <1>8 DEF NoneLost
<1> HIDE DEF P
<1>11. q \in Seq(Solid) /\ Apart(q) /\ In(q) = P
  BY <1>9, RangesSound
<1> HIDE DEF q
<1>12. Handed(f, u, X)
  BY <1>6, <1>11, QueueOriginSound
<1>13. X[Origin] = P /\ \A s \in Source : s # Origin => X[s] = {}
  BY <1>11, SourceFacts
<1> HIDE DEF X
<1>14. MayGet(f, X)
  <2>1. \A s \in Source : X[s] # {} => s = Origin
    BY <1>13
  <2>2. \A s, r \in Source : X[s] \cap Held(f, r) = {}
    BY <1>10, <1>13 DEF Covered
  <2>3. ~f.lane[Origin].retired
    BY <1>8 DEF Fit, Lanes
  <2> QED
    BY <1>6, <1>13, <2>1, <2>2, <2>3 DEF MayGet
<1>15. Piece \subseteq Covered(f) \cup f.pending \cup UNION {X[s] : s \in Source}
  BY <1>10, <1>13, SourceFacts
<1>16. Post(f, u, {})
  BY <1>8, <1>12, <1>14, <1>15, OnlyHanded
<1> HIDE DEF u
<1>17. Led(T, u) /\ Calm(T, u)
  <2>1. u \in SolidState
    BY <1>16 DEF Post, Fit
  <2> QED
    BY <1>1, <1>6, <1>8, <1>16, <2>1, LedOn, CalmOn DEF Post
<1> QED
  BY <1>2, <1>6, <1>16, <1>17 DEF Post, Step

LEMMA Rising ==
    ASSUME NEW N \in Nat, NEW D, NEW f, f[0] \in D,
           \A p \in 1 .. N : f[p - 1] \in D => f[p] \in D
    PROVE  \A p \in 0 .. N : f[p] \in D
<1> DEFINE Bad == {p \in 0 .. N : f[p] \notin D}
<1>1. SUFFICES ASSUME Bad # {} PROVE FALSE
  OBVIOUS
<1>2. PICK m \in Bad : \A x \in Bad : m <= x
  <2>1. Bad \in SUBSET Nat
    OBVIOUS
  <2> QED
    BY <1>1, <2>1, LeastOf
<1>3. m \in 1 .. N /\ m - 1 \in 0 .. N
  BY <1>2
<1>4. m - 1 \notin Bad
  BY <1>2, <1>3
<1>5. f[m] \in D
  BY <1>3, <1>4
<1> QED
  BY <1>2, <1>5

\* What stays while the peers that are not needed any more go, but for w.
Kept(T, u, w) ==
    /\ Fit(u, {w}) /\ NoneLost(u) /\ Led(T, u) /\ Calm(T, u)
    /\ u.verified = T.verified /\ u.due = T.due
    /\ w \in LivePeers(T) => w \in LivePeers(u)
    /\ ~T.finished /\ (T.mode = "peer_only" => ~T.due /\ w \in LivePeers(T)) => ~u.finished

LEMMA KeptOn ==
    ASSUME NEW T \in SolidState, NEW u, NEW w, Kept(T, u, w), NEW p \in Peer, p # w,
           NEW v \in Assign(Retired(Cancelled(u, p), p), Freed(u, p))
    PROVE  v \in SolidState /\ Kept(T, v, w)
<1>1. Fit(u, {w}) /\ NoneLost(u) /\ u \in SolidState
  BY DEF Kept, Fit
<1>2. /\ Fit(v, {w}) /\ NoneLost(v) /\ Led(u, v) /\ Calm(u, v)
      /\ v.verified = u.verified /\ v.due = u.due
      /\ LivePeers(v) = LivePeers(u) \ {p}
      /\ ~u.finished /\ (u.mode = "peer_only" => ~u.due /\ LivePeers(u) \ {p} # {})
            => ~v.finished
  BY <1>1, GiveUpSound
<1>3. v \in SolidState
  BY <1>2 DEF Fit
<1>4. Led(T, v) /\ Calm(T, v)
  BY <1>1, <1>2, <1>3, LedOn, CalmOn DEF Kept
<1>5. w \in LivePeers(T) => w \in LivePeers(v)
  BY <1>2 DEF Kept
<1>6. ~T.finished /\ (T.mode = "peer_only" => ~T.due /\ w \in LivePeers(T)) => ~v.finished
  BY <1>2 DEF Kept, Led
<1> QED
  BY <1>2, <1>3, <1>4, <1>5, <1>6 DEF Kept

LEMMA DropRedundantSound ==
    ASSUME NEW T, NEW w \in Source, Fit(T, {w}), NoneLost(T), NEW u \in DropRedundant(T, w)
    PROVE  Kept(T, u, w)
<1> DEFINE redundant == {p \in LivePeers(T) \ {w} :
                           T.lane[p].flight # <<>> /\ In(T.lane[p].flight) \subseteq T.verified}
           Gone(p, A) == UNION {Assign(Retired(Cancelled(x, p), p), Freed(x, p)) : x \in A}
           after[p \in 0 .. PeerCount] ==
               IF p = 0 THEN {T}
               ELSE IF p \notin redundant THEN after[p - 1]
               ELSE UNION {Assign(Retired(Cancelled(x, p), p), Freed(x, p)) :
                             x \in after[p - 1]}
           D == SUBSET {x \in SolidState : Kept(T, x, w)}
           h == [x \in (1 .. PeerCount) \X D |->
                    IF x[1] \notin redundant THEN x[2] ELSE Gone(x[1], x[2])]
<1>1. DropRedundant(T, w) = after[PeerCount]
  BY DEF DropRedundant
<1>2. after = CHOOSE g : g = [p \in 0 .. PeerCount |->
                                IF p = 0 THEN {T}
                                ELSE IF p \notin redundant THEN g[p - 1]
                                ELSE UNION {Assign(Retired(Cancelled(x, p), p), Freed(x, p)) :
                                              x \in g[p - 1]}]
  OBVIOUS
<1>3. T \in SolidState /\ PeerCount \in Nat
  BY CountAssumption DEF Fit
<1>4. {T} \in D
  <2>1. Kept(T, T, w)
    BY <1>3, LedSame DEF Kept
  <2> QED
    BY <1>3, <2>1
<1>5. \A p \in 1 .. PeerCount : p \in Peer
  BY DEF Peer
<1>6. ASSUME NEW p \in 1 .. PeerCount, NEW A \in D, p \in redundant
      PROVE  Gone(p, A) \in D
  <2>1. p \in Peer /\ p # w
    BY <1>5, <1>6
  <2> HIDE DEF redundant
  <2>2. ASSUME NEW x \in A, NEW v \in Assign(Retired(Cancelled(x, p), p), Freed(x, p))
        PROVE  v \in SolidState /\ Kept(T, v, w)
    <3>1. Kept(T, x, w)
      BY <1>6, <2>2
    <3> QED
      BY <1>3, <2>1, <2>2, <3>1, KeptOn
  <2> QED
    BY <2>2
<1> HIDE DEF D, Gone, redundant
<1>7. h \in [(1 .. PeerCount) \X D -> D]
  BY <1>6
<1>8. PICK f \in [0 .. PeerCount -> D] :
         f[0] = {T} /\ \A p \in 1 .. PeerCount : f[p] = h[<<p, f[p - 1]>>]
  <2> DEFINE a == {T}
             N == PeerCount
  <2>1. a \in D /\ N \in Nat /\ Maps(h, N, D)
    BY <1>3, <1>4, <1>7 DEF Maps
  <2> HIDE DEF h, a, N
  <2>2. \E f : Chained(f, N, D, a, h)
    BY <2>1, Chain
  <2> QED
    BY <2>2 DEF a, N, Chained
<1>9. \A p \in 1 .. PeerCount : f[p] = IF p \notin redundant THEN f[p - 1] ELSE Gone(p, f[p - 1])
  <2> SUFFICES ASSUME NEW p \in 1 .. PeerCount
               PROVE  f[p] = IF p \notin redundant THEN f[p - 1] ELSE Gone(p, f[p - 1])
    OBVIOUS
  <2>1. p - 1 \in 0 .. PeerCount
    BY <1>3
  <2>2. <<p, f[p - 1]>> \in (1 .. PeerCount) \X D
    BY <1>8, <2>1
  <2> QED
    BY <1>8, <2>2
<1> DEFINE Is(g) == g = [p \in 0 .. PeerCount |->
                           IF p = 0 THEN {T}
                           ELSE IF p \notin redundant THEN g[p - 1]
                           ELSE UNION {Assign(Retired(Cancelled(x, p), p), Freed(x, p)) :
                                         x \in g[p - 1]}]
<1>10. Is(f)
  <2>1. \A p \in 0 .. PeerCount : p # 0 => p \in 1 .. PeerCount
    BY <1>3
  <2> QED
    BY <1>8, <1>9, <2>1 DEF Gone
<1>11. after = CHOOSE g : Is(g)
  BY <1>2
<1> HIDE DEF after, Is
<1>12. Is(after)
  BY <1>10, <1>11
<1>13. after[0] = {T}
  BY <1>3, <1>12 DEF Is
<1>14. \A p \in 1 .. PeerCount :
          after[p] = IF p \notin redundant THEN after[p - 1] ELSE Gone(p, after[p - 1])
  <2>1. \A p \in 1 .. PeerCount : p # 0 /\ p \in 0 .. PeerCount
    OBVIOUS
  <2> QED
    BY <1>12, <2>1 DEF Is, Gone
<1>15. \A p \in 1 .. PeerCount : after[p - 1] \in D => after[p] \in D
  BY <1>6, <1>14
<1>16. after[PeerCount] \in D
  <2>1. \A p \in 0 .. PeerCount : after[p] \in D
    BY <1>3, <1>4, <1>13, <1>15, Rising
  <2> QED
    BY <1>3, <2>1
<1> QED
  BY <1>1, <1>16 DEF D

\* The judging of the peers that are watched, one after the other.
LEMMA JudgedSound ==
    ASSUME NEW T, Fit(T, {}), NoneLost(T), NEW W,
           NEW judged, judged = CHOOSE g : g = [p \in 0 .. PeerCount |->
              IF p = 0 THEN {T}
              ELSE IF p \notin W THEN g[p - 1]
              ELSE g[p - 1] \cup
                     UNION {IF u.finished THEN {u} ELSE Abandon(u, p) : u \in g[p - 1]}],
           NEW v \in judged[PeerCount]
    PROVE  Step(T, v)
<1> DEFINE Gone(p, A) == A \cup UNION {IF x.finished THEN {x} ELSE Abandon(x, p) : x \in A}
           D == SUBSET {x \in SolidState : Step(T, x)}
           h == [x \in (1 .. PeerCount) \X D |->
                    IF x[1] \notin W THEN x[2] ELSE Gone(x[1], x[2])]
<1>1. T \in SolidState /\ PeerCount \in Nat
  BY CountAssumption DEF Fit
<1>2. {T} \in D
  <2>1. Step(T, T)
    BY StepSame
  <2> QED
    BY <1>1, <2>1
<1>3. \A p \in 1 .. PeerCount : p \in Peer
  BY DEF Peer
<1>4. ASSUME NEW p \in 1 .. PeerCount, NEW A \in D
      PROVE  Gone(p, A) \in D
  <2>1. ASSUME NEW x \in A, NEW y \in IF x.finished THEN {x} ELSE Abandon(x, p)
        PROVE  y \in SolidState /\ Step(T, y)
    <3>1. Step(T, x)
      OBVIOUS
    <3>2. Fit(x, {}) /\ NoneLost(x)
      BY <3>1 DEF Step
    <3>3. Step(x, y)
      <4>1. CASE x.finished
        BY <2>1, <3>2, <4>1, StepSame
      <4>2. CASE ~x.finished
        BY <1>3, <2>1, <3>2, <4>2, AbandonSound
      <4> QED
        BY <4>1, <4>2
    <3>4. Step(T, y)
      BY <1>1, <3>1, <3>3, StepOn
    <3> QED
      BY <3>4 DEF Step, Fit
  <2> QED
    BY <2>1
<1> HIDE DEF D, Gone
<1>5. h \in [(1 .. PeerCount) \X D -> D]
  BY <1>4
<1>6. PICK f \in [0 .. PeerCount -> D] :
         f[0] = {T} /\ \A p \in 1 .. PeerCount : f[p] = h[<<p, f[p - 1]>>]
  <2> DEFINE a == {T}
             N == PeerCount
  <2>1. a \in D /\ N \in Nat /\ Maps(h, N, D)
    BY <1>1, <1>2, <1>5 DEF Maps
  <2> HIDE DEF h, a, N
  <2>2. \E f : Chained(f, N, D, a, h)
    BY <2>1, Chain
  <2> QED
    BY <2>2 DEF a, N, Chained
<1>7. \A p \in 1 .. PeerCount : f[p] = IF p \notin W THEN f[p - 1] ELSE Gone(p, f[p - 1])
  <2> SUFFICES ASSUME NEW p \in 1 .. PeerCount
               PROVE  f[p] = IF p \notin W THEN f[p - 1] ELSE Gone(p, f[p - 1])
    OBVIOUS
  <2>1. p - 1 \in 0 .. PeerCount
    BY <1>1
  <2>2. <<p, f[p - 1]>> \in (1 .. PeerCount) \X D
    BY <1>6, <2>1
  <2> QED
    BY <1>6, <2>2
<1> DEFINE Is(g) == g = [p \in 0 .. PeerCount |->
              IF p = 0 THEN {T}
              ELSE IF p \notin W THEN g[p - 1]
              ELSE g[p - 1] \cup
                     UNION {IF u.finished THEN {u} ELSE Abandon(u, p) : u \in g[p - 1]}]
<1>8. Is(f)
  <2>1. \A p \in 0 .. PeerCount : p # 0 => p \in 1 .. PeerCount
    BY <1>1
  <2> QED
    BY <1>6, <1>7, <2>1 DEF Gone
<1>9. judged = CHOOSE g : Is(g)
  OBVIOUS
<1> HIDE DEF Is
<1>10. Is(judged)
  BY <1>8, <1>9
<1>11. judged[0] = {T}
  BY <1>1, <1>10 DEF Is
<1>12. \A p \in 1 .. PeerCount :
          judged[p] = IF p \notin W THEN judged[p - 1] ELSE Gone(p, judged[p - 1])
  <2>1. \A p \in 1 .. PeerCount : p # 0 /\ p \in 0 .. PeerCount
    OBVIOUS
  <2> QED
    BY <1>10, <2>1 DEF Is, Gone
<1>13. \A p \in 1 .. PeerCount : judged[p - 1] \in D => judged[p] \in D
  BY <1>4, <1>12
<1>14. judged[PeerCount] \in D
  <2>1. \A p \in 0 .. PeerCount : judged[p] \in D
    BY <1>1, <1>2, <1>11, <1>13, Rising
  <2> QED
    BY <1>1, <2>1
<1> QED
  BY <1>14 DEF D

LEMMA TickSound ==
    ASSUME NEW T, Fit(T, {}), NoneLost(T), NEW u \in Tick(T)
    PROVE  Step(T, u)
<1>1. T \in SolidState
  BY DEF Fit
<1>2. CASE T.finished
  BY <1>2, StepSame DEF Tick
<1>3. CASE ~T.finished /\ T.mode = "peer_only" /\ T.due
  <2> DEFINE v == [T EXCEPT !.floor = TRUE]
  <2>1. u = Fail(v)
    BY <1>3 DEF Tick
  <2>2. v \in SolidState
    BY <1>1 DEF SolidState
  <2>3. /\ v.mode = T.mode /\ v.finished = T.finished /\ v.verified = T.verified
        /\ v.lane = T.lane /\ v.live = T.live /\ v.ended = T.ended
        /\ v.sound = T.sound /\ v.started = T.started /\ v.due = T.due
    BY <1>1 DEF SolidState
  <2> HIDE DEF v
  <2>4. Post(T, Fail(v), {})
    BY <1>3, <2>2, <2>3, FailPost
  <2> QED
    BY <2>1, <2>4, PostStep
<1>4. CASE ~T.finished /\ T.mode = "peer_only" /\ ~T.due
  <2>1. u \in Endgame(T)
    BY <1>4 DEF Tick
  <2> QED
    BY <2>1, EndgameSound
<1>5. CASE ~T.finished /\ T.mode # "peer_only" /\ ~T.floor /\ T.due
  <2>1. u = AtFloor(T)
    BY <1>5 DEF Tick
  <2> QED
    BY <1>5, <2>1, AtFloorSound
<1>6. CASE ~T.finished /\ T.mode # "peer_only" /\ ~(~T.floor /\ T.due)
  <2> DEFINE W == Watched(T)
             judged[p \in 0 .. PeerCount] ==
                 IF p = 0 THEN {T}
                 ELSE IF p \notin W THEN judged[p - 1]
                 ELSE judged[p - 1] \cup
                        UNION {IF x.finished THEN {x} ELSE Abandon(x, p) :
                                 x \in judged[p - 1]}
  <2>1. u \in Then(UNION {Endgame(x) : x \in judged[PeerCount]}, Rebalance)
    BY <1>6 DEF Tick
  <2>2. judged = CHOOSE g : g = [p \in 0 .. PeerCount |->
                 IF p = 0 THEN {T}
                 ELSE IF p \notin W THEN g[p - 1]
                 ELSE g[p - 1] \cup
                        UNION {IF x.finished THEN {x} ELSE Abandon(x, p) :
                                 x \in g[p - 1]}]
    OBVIOUS
  <2> HIDE DEF judged, W
  <2>3. PICK v \in judged[PeerCount] : \E y \in Endgame(v) : u \in Rebalance(y)
    BY <2>1 DEF Then
  <2>4. PICK y \in Endgame(v) : u \in Rebalance(y)
    BY <2>3
  <2>5. Step(T, v)
    BY <2>2, JudgedSound
  <2>6. Step(v, y)
    BY <2>5, EndgameSound DEF Step
  <2>7. Step(y, u)
    BY <2>4, <2>6, RebalanceStep DEF Step
  <2>8. Step(T, y)
    BY <1>1, <2>5, <2>6, StepOn
  <2> QED
    BY <1>1, <2>7, <2>8, StepOn
<1> QED
  BY <1>1, <1>2, <1>3, <1>4, <1>5, <1>6

LEMMA ProgressSound ==
    ASSUME NEW T, Fit(T, {}), NoneLost(T), NEW p \in Peer, NEW u \in Progress(T, p)
    PROVE  Step(T, u)
<1>1. u = T \/ u \in Tick(T) \/ u \in Abandon(T, p)
  BY DEF Progress
<1> QED
  BY <1>1, StepSame, TickSound, AbandonSound

\* An answer: the i-th request of source s is over, and the pieces V of it are
\* good; after that the source is credited with them.
Took(T, s, i, V) == [T EXCEPT !.lane[s].flight = Without(@, i), !.verified = @ \cup V]

Credited(T, s, V) ==
    [T EXCEPT !.lane[s].measured = @ \/ s # Origin,
              !.probes = IF V = {} THEN @ ELSE @ \ {s},
              !.spare = IF V = {} THEN @ ELSE @ \ {s}]

LEMMA TookFields ==
    ASSUME NEW T \in SolidState, NEW s \in Source, NEW i \in DOMAIN T.lane[s].flight,
           NEW V \in SUBSET Piece
    PROVE  LET u == Took(T, s, i, V) IN
           /\ u \in SolidState
           /\ u.mode = T.mode /\ u.sound = T.sound /\ u.started = T.started
           /\ u.due = T.due /\ u.finished = T.finished /\ u.pending = T.pending
           /\ u.ended = T.ended /\ u.live = T.live /\ u.verified = T.verified \cup V
           /\ u.lane[s].queue = T.lane[s].queue /\ u.lane[s].retired = T.lane[s].retired
           /\ u.lane[s].flight = Without(T.lane[s].flight, i)
           /\ \A x \in Source \ {s} : u.lane[x] = T.lane[x]
<1> DEFINE u == Took(T, s, i, V)
           a == T.lane[s]
           f == Without(a.flight, i)
           l == [a EXCEPT !.flight = f]
           L == [T.lane EXCEPT ![s] = l]
           W == T.verified \cup V
<1>1. a \in SolidLane /\ T.lane \in [Source -> SolidLane]
  BY DEF SolidState
<1>2. f \in Seq(Solid)
  BY <1>1, WithoutSound DEF SolidLane
<1>3. u = [T EXCEPT !.lane = L, !.verified = W]
  BY <1>1 DEF Took, SolidState, SolidLane
<1> HIDE DEF f
<1>4. l \in SolidLane /\ l.queue = a.queue /\ l.retired = a.retired /\ l.flight = f
  <2> HIDE DEF a
  <2> QED
    BY <1>1, <1>2 DEF SolidLane
<1> HIDE DEF l
<1>5. L \in [Source -> SolidLane] /\ L[s] = l /\ \A x \in Source \ {s} : L[x] = T.lane[x]
  BY <1>1, <1>4
<1>6. W \in SUBSET Piece
  BY DEF SolidState
<1> HIDE DEF L, u, W
<1>7. u \in SolidState /\ u.lane = L /\ u.verified = W
  BY <1>3, <1>5, <1>6 DEF SolidState
<1>8. /\ u.mode = T.mode /\ u.sound = T.sound /\ u.started = T.started
      /\ u.due = T.due /\ u.finished = T.finished /\ u.pending = T.pending
      /\ u.ended = T.ended /\ u.live = T.live
  BY <1>3 DEF SolidState
<1> QED
  BY <1>4, <1>5, <1>7, <1>8 DEF u, f, W

LEMMA CreditedFields ==
    ASSUME NEW T \in SolidState, NEW s \in Source, NEW V
    PROVE  LET u == Credited(T, s, V) IN
           /\ u \in SolidState
           /\ u.mode = T.mode /\ u.sound = T.sound /\ u.started = T.started
           /\ u.due = T.due /\ u.finished = T.finished /\ u.pending = T.pending
           /\ u.ended = T.ended /\ u.live = T.live /\ u.verified = T.verified
           /\ u.lane[s].queue = T.lane[s].queue /\ u.lane[s].retired = T.lane[s].retired
           /\ u.lane[s].flight = T.lane[s].flight
           /\ \A x \in Source \ {s} : u.lane[x] = T.lane[x]
<1> DEFINE u == Credited(T, s, V)
           a == T.lane[s]
           m == a.measured \/ s # Origin
           l == [a EXCEPT !.measured = m]
           L == [T.lane EXCEPT ![s] = l]
           P == IF V = {} THEN T.probes ELSE T.probes \ {s}
           Q == IF V = {} THEN T.spare ELSE T.spare \ {s}
<1>1. a \in SolidLane /\ T.lane \in [Source -> SolidLane]
  BY DEF SolidState
<1>2. m \in BOOLEAN
  OBVIOUS
<1>3. u = [T EXCEPT !.lane = L, !.probes = P, !.spare = Q]
  BY <1>1 DEF Credited, SolidState, SolidLane
<1> HIDE DEF m
<1>4. l \in SolidLane /\ l.queue = a.queue /\ l.retired = a.retired /\ l.flight = a.flight
  <2> HIDE DEF a
  <2> QED
    BY <1>1, <1>2 DEF SolidLane
<1> HIDE DEF l
<1>5. L \in [Source -> SolidLane] /\ L[s] = l /\ \A x \in Source \ {s} : L[x] = T.lane[x]
  BY <1>1, <1>4
<1>6. P \in SUBSET Peer /\ Q \in SUBSET Peer
  BY DEF SolidState
<1> HIDE DEF L, u, P, Q
<1>7. u \in SolidState /\ u.lane = L
  BY <1>3, <1>5, <1>6 DEF SolidState
<1>8. /\ u.mode = T.mode /\ u.sound = T.sound /\ u.started = T.started
      /\ u.due = T.due /\ u.finished = T.finished /\ u.pending = T.pending
      /\ u.ended = T.ended /\ u.live = T.live /\ u.verified = T.verified
  BY <1>3 DEF SolidState
<1> QED
  BY <1>4, <1>5, <1>7, <1>8 DEF u

\* The core as it stands when source s has answered, before it looks at what
\* the answer brings: one request less is under way.
Base(T, s) ==
    IF s = Origin
    THEN [T EXCEPT !.lane[Origin].flight = IF @ = <<>> THEN @ ELSE Tail(@)]
    ELSE Cancelled(T, s)

LEMMA BaseFields ==
    ASSUME NEW T \in SolidState, NEW s \in Source
    PROVE  LET b == Base(T, s) IN
           /\ b \in SolidState
           /\ b.mode = T.mode /\ b.sound = T.sound /\ b.started = T.started
           /\ b.finished = T.finished /\ b.ended = T.ended
           /\ \A p \in Peer : b.lane[p] = T.lane[p]
           /\ b.live = T.live \ {s}
           /\ s # Origin => b.lane = T.lane
           /\ s = Origin /\ T.lane[Origin].flight # <<>> =>
                Len(b.lane[Origin].flight) = Len(T.lane[Origin].flight) - 1
           /\ Len(b.lane[Origin].flight) <= Len(T.lane[Origin].flight)
<1> DEFINE b == Base(T, s)
<1>1. T.lane \in [Source -> SolidLane] /\ T.live \in SUBSET Peer
  BY DEF SolidState
<1>2. CASE s # Origin
  <2>1. /\ b \in SolidState
        /\ b.mode = T.mode /\ b.sound = T.sound /\ b.started = T.started
        /\ b.finished = T.finished /\ b.ended = T.ended
        /\ b.lane = T.lane /\ b.live = T.live \ {s}
    BY <1>2 DEF Base, Cancelled, SolidState
  <2>2. Len(T.lane[Origin].flight) \in Nat
    BY <1>1, SourceFacts DEF SolidLane
  <2> QED
    BY <1>2, <2>1, <2>2
<1>3. CASE s = Origin
  <2> DEFINE a == T.lane[Origin]
             f == IF a.flight = <<>> THEN a.flight ELSE Tail(a.flight)
             l == [a EXCEPT !.flight = f]
             L == [T.lane EXCEPT ![Origin] = l]
  <2>1. a \in SolidLane
    BY <1>1, SourceFacts
  <2>2. /\ f \in Seq(Solid) /\ Len(f) <= Len(a.flight)
        /\ a.flight # <<>> => Len(f) = Len(a.flight) - 1
    BY <2>1 DEF SolidLane
  <2>3. b = [T EXCEPT !.lane = L]
    BY <1>1, <1>3, <2>1, SourceFacts DEF Base, SolidState, SolidLane
  <2> HIDE DEF f
  <2>4. l \in SolidLane /\ l.flight = f
    <3> HIDE DEF a
    <3> QED
      BY <2>1, <2>2 DEF SolidLane
  <2> HIDE DEF l
  <2>5. L \in [Source -> SolidLane] /\ L[Origin] = l
        /\ \A p \in Peer : L[p] = T.lane[p]
    BY <1>1, <2>4, SourceFacts
  <2> HIDE DEF L, b
  <2>6. b \in SolidState /\ b.lane = L
    BY <2>3, <2>5 DEF SolidState
  <2>7. /\ b.mode = T.mode /\ b.sound = T.sound /\ b.started = T.started
        /\ b.finished = T.finished /\ b.ended = T.ended /\ b.live = T.live
    BY <2>3 DEF SolidState
  <2>8. s \notin T.live
    BY <1>1, <1>3, SourceFacts
  <2> QED
    BY <1>3, <2>2, <2>4, <2>5, <2>6, <2>7, <2>8 DEF b
<1> QED
  BY <1>2, <1>3

LEMMA LedBase ==
    ASSUME NEW T \in SolidState, NEW u \in SolidState, NEW s \in Source, Led(T, u)
    PROVE  Led(Base(T, s), u) /\ (Calm(T, u) => Calm(Base(T, s), u))
<1> DEFINE b == Base(T, s)
<1>1. /\ b \in SolidState
      /\ b.mode = T.mode /\ b.sound = T.sound /\ b.started = T.started
      /\ b.finished = T.finished /\ b.ended = T.ended
      /\ \A p \in Peer : b.lane[p] = T.lane[p]
      /\ b.live = T.live \ {s}
      /\ Len(b.lane[Origin].flight) <= Len(T.lane[Origin].flight)
  BY BaseFields
<1> HIDE DEF b
<1>2. \A x \in SolidState : Len(x.lane[Origin].flight) \in Nat
  BY SourceFacts DEF SolidState, SolidLane
<1>3. Led(b, u)
  <2> DEFINE m == Len(b.lane[Origin].flight)
             n == Len(T.lane[Origin].flight)
             k == Len(u.lane[Origin].flight)
  <2>1. m \in Nat /\ n \in Nat /\ k \in Nat /\ m <= n
    BY <1>1, <1>2
  <2>2. T.finished \/ ~u.finished => u.ended = T.ended /\ k >= n
    BY DEF Led
  <2> HIDE DEF m, n, k
  <2>3. T.finished \/ ~u.finished => u.ended = T.ended /\ k >= m
    BY <2>1, <2>2
  <2> QED
    BY <1>1, <2>3 DEF Led, m, k
<1> QED
  BY <1>1, <1>3 DEF Calm, b

\* What an answer leaves, T being the state in which the request was still
\* under way.
After(T, s, u) ==
    /\ Fit(u, {}) /\ NoneLost(u) /\ Led(Base(T, s), u)
    /\ s # Origin => Calm(Base(T, s), u)
    /\ u.finished \/ Unverified(u) # {} \/ u.verified = T.verified

\* A range of which each piece is verified or good is taken and credited.
LEMMA GoodSound ==
    ASSUME NEW T, Fit(T, {}), NoneLost(T), ~T.finished, NEW s \in Source,
           NEW i \in DOMAIN T.lane[s].flight, NEW V \in SUBSET Piece,
           Span(T.lane[s].flight[i]) \subseteq T.verified \cup V,
           NEW v \in SolidState, v.lane = T.lane, v.live = T.live \ {s},
           v.mode = T.mode, v.sound = T.sound, v.started = T.started, v.due = T.due,
           v.finished = T.finished, v.pending = T.pending, v.ended = T.ended,
           v.verified = T.verified
    PROVE  LET C == Credited(Took(v, s, i, V), s, V) IN
           /\ Fit(C, {s}) /\ NoneLost(C) /\ Led(Base(T, s), C) /\ Calm(Base(T, s), C)
           /\ ~C.finished /\ C.mode = T.mode /\ C.due = T.due
           /\ s \in Peer => s \in LivePeers(C)
<1> DEFINE K == Took(v, s, i, V)
           C == Credited(K, s, V)
           B == Base(T, s)
           f == T.lane[s].flight
           g == Without(f, i)
<1>1. T \in SolidState /\ Lanes(T) /\ Behind(T, {}) /\ Single(T) /\ T.started
  BY DEF Fit
<1>2. i \in DOMAIN v.lane[s].flight
  OBVIOUS
<1>3. /\ K \in SolidState
      /\ K.mode = v.mode /\ K.sound = v.sound /\ K.started = v.started
      /\ K.due = v.due /\ K.finished = v.finished /\ K.pending = v.pending
      /\ K.ended = v.ended /\ K.live = v.live /\ K.verified = v.verified \cup V
      /\ K.lane[s].queue = v.lane[s].queue /\ K.lane[s].retired = v.lane[s].retired
      /\ K.lane[s].flight = Without(v.lane[s].flight, i)
      /\ \A x \in Source \ {s} : K.lane[x] = v.lane[x]
  BY <1>2, TookFields
<1> HIDE DEF K
<1>4. /\ C \in SolidState
      /\ C.mode = K.mode /\ C.sound = K.sound /\ C.started = K.started
      /\ C.due = K.due /\ C.finished = K.finished /\ C.pending = K.pending
      /\ C.ended = K.ended /\ C.live = K.live /\ C.verified = K.verified
      /\ C.lane[s].queue = K.lane[s].queue /\ C.lane[s].retired = K.lane[s].retired
      /\ C.lane[s].flight = K.lane[s].flight
      /\ \A x \in Source \ {s} : C.lane[x] = K.lane[x]
  BY <1>3, CreditedFields
<1> HIDE DEF C
<1>5. f \in Seq(Solid) /\ f # <<>> /\ i \in DOMAIN f /\ T.lane[s].queue \in Seq(Solid)
  BY <1>1 DEF SolidState, SolidLane
<1> HIDE DEF f
<1>6. g \in Seq(Solid) /\ Len(g) = Len(f) - 1 /\ In(g) \cup Span(f[i]) = In(f)
  BY <1>5, WithoutSound
<1>7. /\ C \in SolidState /\ C.mode = T.mode /\ C.sound = T.sound /\ C.started = T.started
      /\ C.due = T.due /\ C.finished = T.finished /\ C.pending = T.pending
      /\ C.ended = T.ended /\ C.live = T.live \ {s} /\ C.verified = T.verified \cup V
      /\ C.lane[s].queue = T.lane[s].queue /\ C.lane[s].retired = T.lane[s].retired
      /\ C.lane[s].flight = g
      /\ \A x \in Source \ {s} : C.lane[x] = T.lane[x]
  BY <1>3, <1>4 DEF f
<1>8. Span(f[i]) \subseteq T.verified \cup V
  BY DEF f
<1>9. ~T.lane[s].retired /\ T.lane[s].flight = f /\ (s = Origin => T.mode # "peer_only")
  BY <1>1, <1>5 DEF Lanes, Idle, f
<1> HIDE DEF g
<1>10. s \in Peer => g = <<>>
  <2>1. s \in Peer => Len(f) <= 1 /\ Len(f) \in Nat
    BY <1>1, <1>5 DEF Lanes, f
  <2>2. Len(g) \in Nat /\ (Len(g) = 0 => g = <<>>)
    <3>1. \A q \in Seq(Solid) : Len(q) \in Nat /\ (Len(q) = 0 => q = <<>>)
      OBVIOUS
    <3> QED
      BY <1>6, <3>1
  <2> QED
    BY <1>6, <2>1, <2>2
<1>11. /\ \A x \in Source \ {s} : Held(C, x) = Held(T, x)
       /\ Held(C, s) \subseteq Held(T, s) /\ Held(T, s) \subseteq Held(C, s) \cup Span(f[i])
  BY <1>6, <1>7, <1>9 DEF Held
<1>12. Lanes(C)
  <2>1. ~C.lane[Origin].retired
    BY <1>1, <1>7, SourceFacts DEF Lanes
  <2>2. \A x \in Source : C.lane[x].retired \/ C.finished => Idle(C, x)
    BY <1>1, <1>7, <1>9 DEF Lanes, Idle
  <2>3. \A p \in Peer : Len(C.lane[p].flight) <= 1
    <3>1. Len(<<>>) <= 1
      OBVIOUS
    <3> QED
      BY <1>1, <1>7, <1>10, <3>1, SourceFacts DEF Lanes
  <2>4. C.mode = "peer_only" => Idle(C, Origin)
    BY <1>1, <1>7, <1>9, SourceFacts DEF Lanes, Idle
  <2>5. C.finished \/ C.mode # "peer_only" => C.pending = {}
    BY <1>1, <1>7 DEF Lanes
  <2>6. C.live = {p \in Peer : C.lane[p].flight # <<>>}
    <3>1. T.live = {p \in Peer : T.lane[p].flight # <<>>}
      BY <1>1 DEF Lanes
    <3>2. \A p \in Peer : /\ p = s => C.lane[p].flight = <<>>
                          /\ p # s => C.lane[p].flight = T.lane[p].flight
      BY <1>7, <1>10, SourceFacts
    <3> QED
      BY <1>7, <3>1, <3>2
  <2> QED
    BY <2>1, <2>2, <2>3, <2>4, <2>5, <2>6 DEF Lanes
<1>13. Behind(C, {s})
  BY <1>1, <1>7 DEF Behind
<1>14. Single(C)
  <2> SUFFICES ASSUME C.mode = "exclusive"
               PROVE  /\ \A x, r \in Source : x # r => Held(C, x) \cap Held(C, r) = {}
                      /\ Apart(C.lane[Origin].queue)
                      /\ In(C.lane[Origin].queue) \cap In(C.lane[Origin].flight) = {}
    BY DEF Single
  <2>1. T.mode = "exclusive"
    BY <1>7
  <2>2. ASSUME NEW x \in Source, NEW r \in Source, x # r PROVE Held(C, x) \cap Held(C, r) = {}
    <3>1. Held(T, x) \cap Held(T, r) = {}
      BY <1>1, <2>1, <2>2 DEF Single
    <3>2. Held(C, x) \subseteq Held(T, x) /\ Held(C, r) \subseteq Held(T, r)
      BY <1>11
    <3> QED
      BY <3>1, <3>2
  <2>3. Apart(T.lane[Origin].queue)
        /\ In(T.lane[Origin].queue) \cap In(T.lane[Origin].flight) = {}
    BY <1>1, <2>1 DEF Single
  <2>4. C.lane[Origin].queue = T.lane[Origin].queue
        /\ In(C.lane[Origin].flight) \subseteq In(T.lane[Origin].flight)
    BY <1>6, <1>7, <1>9, SourceFacts
  <2> QED
    BY <2>2, <2>3, <2>4
<1>15. Fit(C, {s})
  BY <1>1, <1>7, <1>12, <1>13, <1>14 DEF Fit
<1>16. NoneLost(C)
  <2>1. Covered(T) \subseteq Covered(C)
    <3>1. \A x \in Source : Held(T, x) \subseteq Held(C, x) \cup C.verified
      BY <1>7, <1>8, <1>11
    <3> QED
      BY <1>7, <3>1 DEF Covered
  <2> QED
    BY <1>7, <2>1 DEF NoneLost
<1>17. Led(B, C)
  <2>1. /\ B \in SolidState
        /\ B.mode = T.mode /\ B.sound = T.sound /\ B.started = T.started
        /\ B.finished = T.finished /\ B.ended = T.ended
        /\ \A p \in Peer : B.lane[p] = T.lane[p]
        /\ B.live = T.live \ {s}
        /\ s # Origin => B.lane = T.lane
        /\ s = Origin /\ T.lane[Origin].flight # <<>> =>
             Len(B.lane[Origin].flight) = Len(T.lane[Origin].flight) - 1
    BY <1>1, BaseFields
  <2> HIDE DEF B
  <2>2. Len(C.lane[Origin].flight) >= Len(B.lane[Origin].flight)
    <3>1. CASE s = Origin
      <4>1. C.lane[Origin].flight = g /\ Len(B.lane[Origin].flight) = Len(f) - 1
        BY <1>5, <1>7, <1>9, <2>1, <3>1
      <4>2. Len(f) \in Nat
        BY <1>5
      <4> QED
        BY <1>6, <4>1, <4>2
    <3>2. CASE s # Origin
      <4>1. C.lane[Origin].flight = B.lane[Origin].flight
        BY <1>7, <2>1, <3>2, SourceFacts
      <4>2. Len(B.lane[Origin].flight) \in Nat
        BY <2>1, SourceFacts DEF SolidState, SolidLane
      <4> QED
        BY <4>1, <4>2
    <3> QED
      BY <3>1, <3>2
  <2>3. \A p \in Peer : B.lane[p].retired => C.lane[p].retired
    BY <1>7, <2>1, SourceFacts
  <2> QED
    BY <1>7, <2>1, <2>2, <2>3 DEF Led
<1>18. Calm(B, C)
  BY <1>7, <1>17 DEF Calm, Led
<1>19. s \in Peer => s \in LivePeers(C)
  BY <1>7, <1>9 DEF LivePeers
<1> QED
  BY <1>7, <1>15, <1>16, <1>17, <1>18, <1>19 DEF C, K

\* A range with a bad piece: origin fails the transfer, a peer is banned.
LEMMA BadSound ==
    ASSUME NEW T, Fit(T, {}), NoneLost(T), ~T.finished, NEW s \in Source,
           NEW i \in DOMAIN T.lane[s].flight, NEW V \in SUBSET Piece,
           NEW x \in Piece, x \notin T.verified \cup V,
           NEW v \in SolidState, v.lane = T.lane, v.live = T.live \ {s},
           v.mode = T.mode, v.sound = T.sound, v.started = T.started, v.due = T.due,
           v.finished = T.finished, v.pending = T.pending, v.ended = T.ended,
           v.verified = T.verified,
           NEW u \in BadPiece(Took(v, s, i, V), s)
    PROVE  After(T, s, u)
<1> DEFINE K == Took(v, s, i, V)
           B == Base(T, s)
           f == T.lane[s].flight
           g == Without(f, i)
<1>1. T \in SolidState /\ Lanes(T) /\ T.started
  BY DEF Fit
<1>2. i \in DOMAIN v.lane[s].flight
  OBVIOUS
<1>3. /\ K \in SolidState
      /\ K.mode = v.mode /\ K.sound = v.sound /\ K.started = v.started
      /\ K.due = v.due /\ K.finished = v.finished /\ K.pending = v.pending
      /\ K.ended = v.ended /\ K.live = v.live /\ K.verified = v.verified \cup V
      /\ K.lane[s].queue = v.lane[s].queue /\ K.lane[s].retired = v.lane[s].retired
      /\ K.lane[s].flight = Without(v.lane[s].flight, i)
      /\ \A y \in Source \ {s} : K.lane[y] = v.lane[y]
  BY <1>2, TookFields
<1>4. u \in BadPiece(K, s)
  OBVIOUS
<1> HIDE DEF K
<1>5. f \in Seq(Solid) /\ f # <<>> /\ i \in DOMAIN f
  BY <1>1 DEF SolidState, SolidLane
<1>6. g \in Seq(Solid) /\ Len(g) = Len(f) - 1 /\ Len(f) \in Nat
  <2> HIDE DEF f
  <2>1. g \in Seq(Solid) /\ Len(g) = Len(f) - 1
    BY <1>5, WithoutSound
  <2>2. \A q \in Seq(Solid) : Len(q) \in Nat
    OBVIOUS
  <2> QED
    BY <1>5, <2>1, <2>2
<1>7. /\ K.mode = T.mode /\ K.sound = T.sound /\ K.started = T.started
      /\ K.due = T.due /\ K.finished = T.finished /\ K.pending = T.pending
      /\ K.ended = T.ended /\ K.live = T.live \ {s} /\ K.verified = T.verified \cup V
      /\ K.lane[s].flight = g
      /\ \A y \in Source \ {s} : K.lane[y] = T.lane[y]
  BY <1>3
<1>8. ~T.lane[s].retired
  BY <1>1, <1>5 DEF Lanes, Idle
<1> HIDE DEF g
<1>9. CASE s = Origin
  <2>1. u = Fail(K)
    BY <1>4, <1>9 DEF BadPiece
  <2>2. \A p \in K.live : K.lane[p].flight # <<>>
    BY <1>1, <1>7, <1>9, SourceFacts DEF Lanes
  <2>3. ~K.lane[Origin].retired
    BY <1>3, <1>8, <1>9
  <2>4. /\ Fit(Fail(K), {}) /\ NoneLost(Fail(K)) /\ Led(K, Fail(K)) /\ Fail(K).finished
    BY <1>1, <1>3, <1>7, <2>2, <2>3, FailSound
  <2>5. Led(B, K)
    <3>1. /\ B \in SolidState
          /\ B.mode = T.mode /\ B.sound = T.sound /\ B.started = T.started
          /\ B.finished = T.finished /\ B.ended = T.ended
          /\ \A p \in Peer : B.lane[p] = T.lane[p]
          /\ B.live = T.live \ {s}
          /\ s # Origin => B.lane = T.lane
          /\ s = Origin /\ T.lane[Origin].flight # <<>> =>
               Len(B.lane[Origin].flight) = Len(T.lane[Origin].flight) - 1
      <4> HIDE DEF f
      <4>1. T \in SolidState
        BY <1>1
      <4> QED
        BY <4>1, BaseFields
    <3> HIDE DEF B
    <3>2. Len(K.lane[Origin].flight) >= Len(B.lane[Origin].flight)
      BY <1>5, <1>6, <1>7, <1>9, <3>1
    <3>3. \A p \in Peer : B.lane[p].retired => K.lane[p].retired
      BY <1>7, <1>9, <3>1, SourceFacts
    <3> QED
      BY <1>7, <3>1, <3>2, <3>3 DEF Led
  <2>6. Led(B, u)
    <3>1. B \in SolidState /\ u \in SolidState
      BY <1>1, <2>1, <2>4, BaseFields DEF Fit
    <3> HIDE DEF B
    <3> QED
      BY <1>3, <2>1, <2>4, <2>5, <3>1, LedOn
  <2> QED
    BY <1>9, <2>1, <2>4, <2>6 DEF After
<1>10. CASE s # Origin
  <2> DEFINE R == Retired(K, s)
             P == Piece \ Covered(R)
  <2>1. s \in Peer
    BY <1>10, SourceFacts
  <2>2. u \in Assign(R, P)
    BY <1>4, <1>10 DEF BadPiece
  <2>3. /\ R \in SolidState
        /\ R.mode = K.mode /\ R.sound = K.sound /\ R.started = K.started
        /\ R.due = K.due /\ R.finished = K.finished /\ R.pending = K.pending
        /\ R.ended = K.ended /\ R.live = K.live /\ R.verified = K.verified
        /\ R.lane[s].retired /\ Idle(R, s)
        /\ \A y \in Source \ {s} : R.lane[y] = K.lane[y]
    BY <1>3, RetiredFields
  <2> HIDE DEF R
  <2>4. TakenOut(T, R, {s}, V)
    BY <1>7, <2>3 DEF TakenOut
  <2>5. Fit(R, {}) /\ Led(T, R) /\ Calm(T, R)
    <3> DEFINE G == {s}
    <3>1. G \in SUBSET Peer /\ TakenOut(T, R, G, V)
      BY <2>1, <2>4
    <3> HIDE DEF G
    <3> QED
      BY <3>1, TakenOutSound
  <2>6. ~R.finished
    BY <1>7, <2>3
  <2>7. Post(R, u, {})
    <3>1. P \in SUBSET Piece /\ P \cap Covered(R) = {}
          /\ Piece \subseteq Covered(R) \cup R.pending \cup P
      OBVIOUS
    <3> HIDE DEF P
    <3> QED
      BY <2>2, <2>5, <2>6, <3>1, AssignSound
  <2>8. u \in SolidState
    BY <2>7 DEF Post, Fit
  <2>9. Led(T, u) /\ Calm(T, u)
    BY <1>1, <2>3, <2>5, <2>7, <2>8, LedOn, CalmOn DEF Post
  <2>10. Led(B, u) /\ Calm(B, u)
    BY <1>1, <2>8, <2>9, LedBase
  <2>11. x \in Unverified(u)
    BY <1>7, <2>3, <2>7 DEF Post, Unverified
  <2> QED
    BY <2>7, <2>10, <2>11 DEF After, Post
<1> QED
  BY <1>9, <1>10

LEMMA AfterStep ==
    ASSUME NEW T \in SolidState, NEW s \in Source, NEW u, Step(T, u)
    PROVE  After(T, s, u)
<1>1. u \in SolidState
  BY DEF Step, Fit
<1>2. Led(Base(T, s), u) /\ Calm(Base(T, s), u)
  BY <1>1, LedBase DEF Step
<1> QED
  BY <1>2 DEF After, Step

LEMMA DeliveredSound ==
    ASSUME NEW T, Fit(T, {}), NoneLost(T), NEW s \in Source, NEW r, NEW good \in SUBSET Span(r),
           s \in T.live => \E i \in DOMAIN T.lane[s].flight : T.lane[s].flight[i] = r,
           NEW u \in Delivered(IF s = Origin THEN T ELSE Cancelled(T, s), s, r, good)
    PROVE  After(T, s, u)
<1> DEFINE v == IF s = Origin THEN T ELSE Cancelled(T, s)
           Meant(i) == i \in DOMAIN v.lane[s].flight /\ v.lane[s].flight[i] = r
           at == CHOOSE i \in DOMAIN v.lane[s].flight : v.lane[s].flight[i] = r
           bad == Span(r) \ (v.verified \cup good)
           V == (Span(r) \cap good) \ v.verified
           K == Took(v, s, at, V)
           C == Credited(K, s, V)
           B == Base(T, s)
           NextOf(y) == IF Unverified(y) = {} THEN {Finish(y)}
                        ELSE IF y.mode = "peer_only" THEN Refill(Issue(y, s))
                        ELSE Rebalance(Issue(y, s))
<1>1. T \in SolidState /\ Lanes(T) /\ T.started
  BY DEF Fit
<1>2. /\ v \in SolidState /\ v.lane = T.lane /\ v.live = T.live \ {s}
      /\ v.mode = T.mode /\ v.sound = T.sound /\ v.started = T.started /\ v.due = T.due
      /\ v.finished = T.finished /\ v.pending = T.pending /\ v.ended = T.ended
      /\ v.verified = T.verified
  <2>1. Origin \notin T.live
    BY <1>1, SourceFacts DEF SolidState
  <2>2. CASE s = Origin
    BY <1>1, <2>1, <2>2
  <2>3. CASE s # Origin
    BY <1>1, <2>3 DEF Cancelled, SolidState
  <2> QED
    BY <2>2, <2>3
<1>3. s = Origin \/ s \notin T.live => v = T
  BY <1>1 DEF Cancelled, SolidState
<1>4. u \in Delivered(v, s, r, good)
  OBVIOUS
<1>5. \/ v.mode = "peer_only" /\ v.due /\ u \in Tick(v)
      \/ (v.finished \/ \A i \in DOMAIN v.lane[s].flight : v.lane[s].flight[i] # r) /\ u = v
      \/ /\ ~(v.mode = "peer_only" /\ v.due) /\ ~v.finished
         /\ \E i \in DOMAIN v.lane[s].flight : v.lane[s].flight[i] = r
         /\ \/ bad # {} /\ u \in BadPiece(K, s)
            \/ bad = {} /\ u \in Then(DropRedundant(C, s), NextOf)
  <2> HIDE DEF v
  <2> QED
    BY <1>4 DEF Delivered, Took, Credited
<1> HIDE DEF v, at, bad, V, K, C
<1>6. CASE v.mode = "peer_only" /\ v.due /\ u \in Tick(v)
  <2>1. CASE s = Origin \/ s \notin T.live
    <3>1. Step(T, u)
      BY <1>3, <1>6, <2>1, TickSound
    <3> QED
      BY <1>1, <3>1, AfterStep
  <2>2. CASE s # Origin /\ s \in T.live
    <3> DEFINE w == [v EXCEPT !.floor = TRUE]
    <3>1. ~T.finished
      BY <1>1, <2>2, SourceFacts DEF Lanes, Idle
    <3>2. u = Fail(w)
      BY <1>2, <1>6, <3>1 DEF Tick
    <3>3. w \in SolidState
      BY <1>2 DEF SolidState
    <3>4. /\ w.mode = v.mode /\ w.finished = v.finished /\ w.verified = v.verified
          /\ w.lane = v.lane /\ w.live = v.live /\ w.ended = v.ended
          /\ w.sound = v.sound /\ w.started = v.started /\ w.due = v.due
      BY <1>2 DEF SolidState
    <3> HIDE DEF w
    <3>5. \A p \in w.live : w.lane[p].flight # <<>>
      BY <1>1, <1>2, <3>4 DEF Lanes
    <3>6. ~w.lane[Origin].retired
      BY <1>1, <1>2, <3>4 DEF Lanes
    <3>7. /\ Fit(u, {}) /\ NoneLost(u) /\ Led(w, u) /\ u.finished
      BY <1>1, <1>2, <3>1, <3>2, <3>3, <3>4, <3>5, <3>6, FailSound
    <3>8. Led(B, w)
      <4>1. /\ B \in SolidState
            /\ B.mode = T.mode /\ B.sound = T.sound /\ B.started = T.started
            /\ B.finished = T.finished /\ B.ended = T.ended
            /\ B.live = T.live \ {s} /\ B.lane = T.lane
        BY <1>1, <2>2, BaseFields
      <4> HIDE DEF B
      <4>2. Len(w.lane[Origin].flight) >= Len(B.lane[Origin].flight)
        <5>1. Len(B.lane[Origin].flight) \in Nat
          BY <4>1, SourceFacts DEF SolidState, SolidLane
        <5>2. w.lane[Origin].flight = B.lane[Origin].flight
          BY <1>2, <3>4, <4>1
        <5> QED
          BY <5>1, <5>2
      <4> QED
        BY <1>2, <3>4, <4>1, <4>2 DEF Led
    <3>9. Led(B, u)
      <4>1. B \in SolidState /\ u \in SolidState
        BY <1>1, <3>7, BaseFields DEF Fit
      <4> HIDE DEF B
      <4> QED
        BY <3>3, <3>7, <3>8, <4>1, LedOn
    <3>10. Calm(B, u)
      <4>1. B.mode = "peer_only" /\ B.finished = T.finished
        BY <1>1, <1>2, <1>6, BaseFields
      <4> QED
        BY <3>1, <3>9, <4>1 DEF Calm, Led
    <3> QED
      BY <3>7, <3>9, <3>10 DEF After
  <2> QED
    BY <2>1, <2>2
<1>7. CASE (v.finished \/ \A i \in DOMAIN v.lane[s].flight : v.lane[s].flight[i] # r) /\ u = v
  <2>1. s \notin T.live
    <3>1. T.finished => T.live = {}
      BY <1>1, SourceFacts DEF Lanes, Idle
    <3> QED
      BY <1>2, <1>7, <3>1
  <2>2. Step(T, u)
    BY <1>3, <1>7, <2>1, StepSame
  <2> QED
    BY <1>1, <2>2, AfterStep
<1>8. CASE /\ ~(v.mode = "peer_only" /\ v.due) /\ ~v.finished
           /\ \E i \in DOMAIN v.lane[s].flight : v.lane[s].flight[i] = r
           /\ \/ bad # {} /\ u \in BadPiece(K, s)
              \/ bad = {} /\ u \in Then(DropRedundant(C, s), NextOf)
  <2>1. at \in DOMAIN T.lane[s].flight /\ T.lane[s].flight[at] = r
    BY <1>2, <1>8 DEF at
  <2>2. r \in Solid /\ Span(r) \in SUBSET Piece
    <3>1. T.lane[s].flight \in Seq(Solid)
      BY <1>1 DEF SolidState, SolidLane
    <3>2. r \in Solid
      BY <2>1, <3>1
    <3> QED
      BY <3>2, PieceFacts
  <2>3. V \in SUBSET Piece
    BY <2>2 DEF V
  <2>4. ~T.finished /\ ~(T.mode = "peer_only" /\ T.due)
    BY <1>2, <1>8
  <2>5. CASE bad # {} /\ u \in BadPiece(K, s)
    <3>1. PICK x \in Piece : x \notin T.verified \cup V
      BY <1>2, <2>2, <2>5 DEF bad, V
    <3>2. u \in BadPiece(Took(v, s, at, V), s)
      BY <2>5 DEF K
    <3> QED
      BY <1>2, <2>1, <2>3, <2>4, <3>1, <3>2, BadSound
  <2>6. CASE bad = {} /\ u \in Then(DropRedundant(C, s), NextOf)
    <3>1. Span(T.lane[s].flight[at]) \subseteq T.verified \cup V
      BY <1>2, <2>1, <2>6 DEF bad, V
    <3>2. /\ Fit(C, {s}) /\ NoneLost(C) /\ Led(B, C) /\ Calm(B, C)
          /\ ~C.finished /\ C.mode = T.mode /\ C.due = T.due
          /\ s \in Peer => s \in LivePeers(C)
      BY <1>2, <2>1, <2>3, <2>4, <3>1, GoodSound DEF C, K
    <3>3. B \in SolidState /\ C \in SolidState
      BY <1>1, <3>2, BaseFields DEF Fit
    <3> HIDE DEF B
    <3>4. PICK y \in DropRedundant(C, s) : u \in NextOf(y)
      BY <2>6 DEF Then
    <3>5. Kept(C, y, s)
      BY <3>2, DropRedundantSound
    <3>6. Fit(y, {s}) /\ NoneLost(y) /\ y \in SolidState /\ Led(C, y) /\ Calm(C, y)
      BY <3>5 DEF Kept, Fit
    <3>7. ~y.finished
      <4>1. T.mode = "peer_only" => s \in Peer
        <5>1. T.lane[s].flight # <<>>
          BY <2>1
        <5> QED
          BY <1>1, <5>1, SourceFacts DEF Lanes, Idle
      <4> QED
        BY <2>4, <3>2, <3>5, <4>1 DEF Kept
    <3>8. Led(B, y) /\ Calm(B, y)
      BY <3>2, <3>3, <3>6, LedOn, CalmOn
    <3>9. CASE Unverified(y) = {}
      <4>1. u = Finish(y)
        BY <3>4, <3>9
      <4>2. y.started /\ ~y.lane[Origin].retired /\ \A p \in y.live : y.lane[p].flight # <<>>
        BY <3>6 DEF Fit, Lanes
      <4>3. Fit(u, {}) /\ NoneLost(u) /\ Led(y, u) /\ Calm(y, u) /\ u.finished
        BY <3>6, <3>7, <4>1, <4>2, FinishSound
      <4>4. u \in SolidState
        BY <4>3 DEF Fit
      <4>5. Led(B, u) /\ Calm(B, u)
        BY <3>3, <3>6, <3>8, <4>3, <4>4, LedOn, CalmOn
      <4> QED
        BY <4>3, <4>5 DEF After, B
    <3>10. CASE Unverified(y) # {}
      <4> DEFINE z == Issue(y, s)
      <4>1. Step(y, z)
        BY <3>6, IssueFit
      <4>2. (u \in Refill(z) /\ z.mode = "peer_only") \/ u \in Rebalance(z)
        BY <3>4, <3>10, <4>1 DEF Step, Led
      <4> HIDE DEF z
      <4>3. Fit(z, {}) /\ NoneLost(z)
        BY <4>1 DEF Step
      <4>4. Step(z, u)
        BY <4>2, <4>3, RefillSound, PostStep, RebalanceStep
      <4>5. Step(y, u)
        BY <3>6, <4>1, <4>4, StepOn
      <4>6. u \in SolidState /\ Unverified(u) # {}
        BY <3>10, <4>5 DEF Step, Fit, Unverified
      <4>7. Led(B, u) /\ Calm(B, u)
        BY <3>3, <3>6, <3>8, <4>5, <4>6, LedOn, CalmOn DEF Step
      <4> QED
        BY <4>5, <4>6, <4>7 DEF After, Step, B
    <3> QED
      BY <3>9, <3>10
  <2> QED
    BY <1>8, <2>5, <2>6
<1> QED
  BY <1>5, <1>6, <1>7, <1>8

-----------------------------------------------------------------------------
\* The fetches that a worker's replies are still to begin.
Marks(q) == UNION {{i} \X (1 .. q[i].fetches) : i \in DOMAIN q}

LEMMA ColumnSound ==
    ASSUME NEW i, NEW n \in Nat
    PROVE  IsFiniteSet({i} \X (1 .. n)) /\ Cardinality({i} \X (1 .. n)) = n
<1>1. IsFiniteSet({i}) /\ Cardinality({i}) = 1
  BY FS_Singleton
<1>2. IsFiniteSet(1 .. n) /\ Cardinality(1 .. n) = n
  <2>1. /\ IsFiniteSet(1 .. n)
        /\ Cardinality(1 .. n) = IF 1 > n THEN 0 ELSE n - 1 + 1
    BY FS_Interval
  <2> QED
    BY <2>1
<1>3. /\ IsFiniteSet({i} \X (1 .. n))
      /\ Cardinality({i} \X (1 .. n)) = Cardinality({i}) * Cardinality(1 .. n)
  BY <1>1, <1>2, FS_Product
<1> QED
  BY <1>1, <1>2, <1>3

LEMMA MarksFinite ==
    ASSUME NEW q \in Seq(Commands)
    PROVE  IsFiniteSet(Marks(q)) /\ Cardinality(Marks(q)) \in Nat
<1> DEFINE Col(i) == {i} \X (1 .. q[i].fetches)
           f == [i \in 1 .. Len(q) |-> Col(i)]
           C == {f[i] : i \in 1 .. Len(q)}
<1>1. Len(q) \in Nat /\ DOMAIN q = 1 .. Len(q) /\ \A i \in 1 .. Len(q) : q[i] \in Commands
  OBVIOUS
<1>2. \A i \in 1 .. Len(q) : q[i].fetches \in Nat
  BY <1>1 DEF Commands
<1>3. \A i \in 1 .. Len(q) : IsFiniteSet(f[i])
  <2> SUFFICES ASSUME NEW i \in 1 .. Len(q) PROVE IsFiniteSet(f[i])
    OBVIOUS
  <2>1. IsFiniteSet({i} \X (1 .. q[i].fetches))
    BY <1>2, ColumnSound
  <2> QED
    BY <2>1
<1>4. IsFiniteSet(1 .. Len(q))
  <2>1. 1 \in Int /\ Len(q) \in Int
    BY <1>1
  <2> QED
    BY <2>1, FS_Interval
<1>5. UNION C = Marks(q)
  BY <1>1 DEF Marks
<1>6. f \in [1 .. Len(q) -> C]
  OBVIOUS
<1> HIDE DEF f
<1>7. f \in Surjection(1 .. Len(q), C)
  BY <1>6 DEF Surjection
<1>8. IsFiniteSet(C)
  BY <1>4, <1>7, FS_Surjection
<1>9. \A x \in C : IsFiniteSet(x)
  BY <1>3
<1>10. IsFiniteSet(UNION C)
  <2> HIDE DEF C
  <2> QED
    BY <1>8, <1>9, FS_UNION
<1> QED
  BY <1>5, <1>10, FS_CardinalityType

LEMMA MarksAppend ==
    ASSUME NEW q \in Seq(Commands), NEW c \in Commands
    PROVE  Cardinality(Marks(Append(q, c))) = Cardinality(Marks(q)) + c.fetches
<1> DEFINE n == Len(q) + 1
           new == {n} \X (1 .. c.fetches)
           r == Append(q, c)
<1>1. Len(q) \in Nat /\ DOMAIN q = 1 .. Len(q) /\ n \notin DOMAIN q
  OBVIOUS
<1>2. DOMAIN r = DOMAIN q \cup {n} /\ r[n] = c /\ \A i \in DOMAIN q : r[i] = q[i]
  OBVIOUS
<1>3. c.fetches \in Nat
  BY DEF Commands
<1>4. IsFiniteSet(Marks(q)) /\ Cardinality(Marks(q)) \in Nat
  BY MarksFinite
<1> HIDE DEF r, n
<1>5. IsFiniteSet(new) /\ Cardinality(new) = c.fetches
  BY <1>3, ColumnSound
<1>6. Marks(r) = Marks(q) \cup new
  BY <1>2 DEF Marks
<1>7. Marks(q) \cap new = {}
  BY <1>1 DEF Marks
<1> HIDE DEF new
<1>8. Cardinality(Marks(q) \cup new)
        = Cardinality(Marks(q)) + Cardinality(new) - Cardinality(Marks(q) \cap new)
  BY <1>4, <1>5, FS_Union
<1>9. Cardinality(Marks(q) \cap new) = 0
  BY <1>7, FS_EmptySet
<1> QED
  BY <1>3, <1>4, <1>5, <1>6, <1>8, <1>9 DEF r

LEMMA MarksTail ==
    ASSUME NEW q \in Seq(Commands), q # <<>>
    PROVE  Cardinality(Marks(q)) = Head(q).fetches + Cardinality(Marks(Tail(q)))
<1> DEFINE r == Tail(q)
           n == Len(q)
           first == {1} \X (1 .. q[1].fetches)
           D == Marks(r)
           E == UNION {{i} \X (1 .. q[i].fetches) : i \in 2 .. n}
           f == [m \in D |-> <<m[1] + 1, m[2]>>]
<1>1. n \in Nat /\ n >= 1 /\ DOMAIN q = 1 .. n /\ Head(q) = q[1] /\ q[1] \in Commands
  OBVIOUS
<1>2. r \in Seq(Commands) /\ DOMAIN r = 1 .. n - 1 /\ \A i \in 1 .. n - 1 : r[i] = q[i + 1]
  OBVIOUS
<1>3. q[1].fetches \in Nat
  BY <1>1 DEF Commands
<1> HIDE DEF r, n
<1>4. IsFiniteSet(D) /\ Cardinality(D) \in Nat
  BY <1>2, MarksFinite
<1>5. IsFiniteSet(first) /\ Cardinality(first) = q[1].fetches
  BY <1>3, ColumnSound
<1>6. Marks(q) = first \cup E
  <2>1. 1 .. n = {1} \cup (2 .. n)
    BY <1>1
  <2> QED
    BY <1>1, <2>1 DEF Marks
<1>7. first \cap E = {}
  <2>1. 1 \notin 2 .. n
    OBVIOUS
  <2> QED
    BY <2>1
<1>8. \A m \in D : m[1] \in 1 .. n - 1 /\ m[2] \in 1 .. q[m[1] + 1].fetches
                   /\ m = <<m[1], m[2]>>
  BY <1>2 DEF Marks
<1>9. \A i \in 1 .. n - 1 : \A k \in 1 .. q[i + 1].fetches : <<i, k>> \in D
  BY <1>2 DEF Marks
<1> HIDE DEF D
<1>10. f \in [D -> E]
  <2> SUFFICES ASSUME NEW m \in D PROVE <<m[1] + 1, m[2]>> \in E
    OBVIOUS
  <2>1. m[1] + 1 \in 2 .. n
    BY <1>1, <1>8
  <2> QED
    BY <1>8, <2>1
<1>11. \A a, b \in D : f[a] = f[b] => a = b
  <2> SUFFICES ASSUME NEW a \in D, NEW b \in D, f[a] = f[b] PROVE a = b
    OBVIOUS
  <2>1. a[1] + 1 = b[1] + 1 /\ a[2] = b[2]
    OBVIOUS
  <2>2. a[1] \in Int /\ b[1] \in Int
    BY <1>1, <1>8
  <2>3. a[1] = b[1]
    BY <2>1, <2>2
  <2> QED
    BY <1>8, <2>1, <2>3
<1>12. \A e \in E : \E m \in D : f[m] = e
  <2> SUFFICES ASSUME NEW e \in E PROVE \E m \in D : f[m] = e
    OBVIOUS
  <2>1. PICK i \in 2 .. n : e \in {i} \X (1 .. q[i].fetches)
    OBVIOUS
  <2>2. e = <<i, e[2]>> /\ e[2] \in 1 .. q[i].fetches
    BY <2>1
  <2>3. i - 1 \in 1 .. n - 1 /\ (i - 1) + 1 = i
    BY <1>1
  <2>4. <<i - 1, e[2]>> \in D
    BY <1>9, <2>2, <2>3
  <2> QED
    BY <2>2, <2>3, <2>4
<1> HIDE DEF f, E
<1>13. f \in Bijection(D, E)
  BY <1>10, <1>11, <1>12 DEF Bijection, Injection, Surjection, IsInjective
<1>14. IsFiniteSet(E) /\ Cardinality(E) = Cardinality(D)
  BY <1>4, <1>13, FS_Bijection DEF ExistsBijection
<1> HIDE DEF first
<1>15. Cardinality(first \cup E)
        = Cardinality(first) + Cardinality(E) - Cardinality(first \cap E)
  BY <1>5, <1>14, FS_Union
<1>16. Cardinality(first \cap E) = 0
  BY <1>7, FS_EmptySet
<1> QED
  BY <1>1, <1>3, <1>4, <1>5, <1>6, <1>14, <1>15, <1>16 DEF D, r

-----------------------------------------------------------------------------
\* The page against the core.  Asks(P, 0) are the peers with a request under
\* way on page P, Asks(P, i) those that its i-th reply will ask.
Asks(P, i) == IF i = 0 THEN P.open ELSE P.replies[i].requests

Opens(P) ==
    UNION {{p \in Asks(P, i) : \A j \in i .. Len(P.replies) : j > 0 =>
              p \notin P.replies[j].cancels} : i \in 0 .. Len(P.replies)}

\* The fetches under way, or still to be begun by a reply; and whether the
\* transfer has ended, or will with a reply.
Fetches(P) == P.fetching + Cardinality(Marks(P.replies))
Ending(P) == P.over \/ \E i \in DOMAIN P.replies : P.replies[i].ends

\* No peer is asked twice.
Once(P) == \A i, j \in 0 .. Len(P.replies) : i # j => Asks(P, i) \cap Asks(P, j) = {}

\* A peer that was asked still has its request, or is never asked again.
Known(P, T) == \A i \in 0 .. Len(P.replies) : \A p \in Asks(P, i) :
                  p \in T.live \/ T.lane[p].retired

\* The page's requests and fetches are those the core has in flight.
InStep(P, T) == /\ Once(P) /\ Known(P, T)
                /\ Opens(P) = T.live /\ Fetches(P) = Len(T.lane[Origin].flight)

\* PageState with the replies known to be a sequence of commands.
PageType == [worker : BOOLEAN, open : SUBSET Peer, fetching : Nat,
             replies : Seq(Commands), over : BOOLEAN]

\* The page and the core agree until the transfer ends.
Tuned(P, T) ==
    /\ P \in PageType
    /\ ~P.worker => P.replies = <<>>
    /\ T.finished => Ending(P)
    /\ Ending(P) \/ InStep(P, T)

\* The page when a call is answered by the commands c.
Posted(P, c) == [P EXCEPT !.replies = Append(@, c)]

LEMMA PostedFields ==
    ASSUME NEW P \in PageType, NEW c \in Commands
    PROVE  LET Q == Posted(P, c)
               n == Len(P.replies) IN
           /\ Q \in PageType /\ n \in Nat
           /\ Q.worker = P.worker /\ Q.open = P.open /\ Q.fetching = P.fetching
           /\ Q.over = P.over /\ Q.replies = Append(P.replies, c)
           /\ Len(Q.replies) = n + 1 /\ Q.replies[n + 1] = c
           /\ \A i \in 1 .. n : Q.replies[i] = P.replies[i]
           /\ DOMAIN Q.replies = 1 .. n + 1 /\ DOMAIN P.replies = 1 .. n
           /\ \A i \in 0 .. n : Asks(Q, i) = Asks(P, i)
           /\ Asks(Q, n + 1) = c.requests
<1> DEFINE Q == Posted(P, c)
           n == Len(P.replies)
           q == P.replies
           r == Append(q, c)
<1>1. q \in Seq(Commands)
  BY DEF PageType
<1>2. /\ n \in Nat /\ r \in Seq(Commands) /\ Len(r) = n + 1 /\ r[n + 1] = c
      /\ \A i \in 1 .. n : r[i] = q[i]
      /\ DOMAIN r = 1 .. n + 1 /\ DOMAIN q = 1 .. n
  BY <1>1
<1>3. Q = [P EXCEPT !.replies = r]
  BY DEF Posted
<1> HIDE DEF Q, r, n
<1>4. /\ Q \in PageType /\ Q.worker = P.worker /\ Q.open = P.open
      /\ Q.fetching = P.fetching /\ Q.over = P.over /\ Q.replies = r
  BY <1>2, <1>3 DEF PageType
<1>5. /\ \A i \in 0 .. n : i # 0 => i \in 1 .. n
      /\ n + 1 # 0
  BY <1>2
<1>6. (\A i \in 0 .. n : Asks(Q, i) = Asks(P, i)) /\ Asks(Q, n + 1) = c.requests
  BY <1>2, <1>4, <1>5 DEF Asks
<1> QED
  BY <1>2, <1>4, <1>6 DEF Q, r, n

LEMMA PostedOpens ==
    ASSUME NEW P \in PageType, NEW c \in Commands, c.requests \cap c.cancels = {}
    PROVE  Opens(Posted(P, c)) = (Opens(P) \ c.cancels) \cup c.requests
<1> DEFINE Q == Posted(P, c)
           n == Len(P.replies)
           Free(i, p) == \A j \in i .. n : j > 0 => p \notin P.replies[j].cancels
           FreeQ(i, p) == \A j \in i .. n + 1 : j > 0 => p \notin Q.replies[j].cancels
<1>1. /\ n \in Nat /\ Len(Q.replies) = n + 1 /\ Q.replies[n + 1] = c
      /\ \A i \in 1 .. n : Q.replies[i] = P.replies[i]
      /\ \A i \in 0 .. n : Asks(Q, i) = Asks(P, i)
      /\ Asks(Q, n + 1) = c.requests
  BY PostedFields
<1> HIDE DEF Q, n
<1>2. ASSUME NEW i \in 0 .. n, NEW p
      PROVE  FreeQ(i, p) <=> Free(i, p) /\ p \notin c.cancels
  <2>1. ASSUME FreeQ(i, p) PROVE Free(i, p) /\ p \notin c.cancels
    <3>1. \A j \in i .. n : j \in i .. n + 1 /\ (j > 0 => j \in 1 .. n)
      BY <1>1
    <3>2. n + 1 \in i .. n + 1 /\ n + 1 > 0
      BY <1>1
    <3> QED
      BY <1>1, <2>1, <3>1, <3>2
  <2>2. ASSUME Free(i, p), p \notin c.cancels PROVE FreeQ(i, p)
    <3>1. \A j \in i .. n + 1 : j > 0 => j = n + 1 \/ (j \in 1 .. n /\ j \in i .. n)
      BY <1>1
    <3> QED
      BY <1>1, <2>2, <3>1
  <2> QED
    BY <2>1, <2>2
<1>3. ASSUME NEW p PROVE FreeQ(n + 1, p) <=> p \notin c.cancels
  <2>1. \A j : j \in n + 1 .. n + 1 <=> j = n + 1
    BY <1>1
  <2>2. n + 1 > 0
    BY <1>1
  <2> QED
    BY <1>1, <2>1, <2>2
<1>4. Opens(P) = UNION {{p \in Asks(P, i) : Free(i, p)} : i \in 0 .. n}
  BY DEF Opens, n
<1>5. Opens(Q) = UNION {{p \in Asks(Q, i) : FreeQ(i, p)} : i \in 0 .. n + 1}
  BY <1>1 DEF Opens
<1> HIDE DEF Free, FreeQ
<1>6. \A i : i \in 0 .. n + 1 <=> i \in 0 .. n \/ i = n + 1
  BY <1>1
<1>7. ASSUME NEW p PROVE p \in Opens(Q) <=> p \in (Opens(P) \ c.cancels) \cup c.requests
  <2>1. p \in Opens(Q) <=> \E i \in 0 .. n + 1 : p \in Asks(Q, i) /\ FreeQ(i, p)
    BY <1>5
  <2>2. p \in Opens(P) <=> \E i \in 0 .. n : p \in Asks(P, i) /\ Free(i, p)
    BY <1>4
  <2>3. p \in Asks(Q, n + 1) /\ FreeQ(n + 1, p) <=> p \in c.requests
    BY <1>1, <1>3
  <2> QED
    BY <1>1, <1>2, <1>6, <2>1, <2>2, <2>3
<1> QED
  BY <1>7 DEF Q

LEMMA MadeSound ==
    ASSUME NEW T \in SolidState, NEW u \in SolidState, Led(T, u)
    PROVE  LET c == Made(T, u) IN
           /\ c \in Commands
           /\ c.requests = u.live \ T.live /\ c.cancels = T.live \ u.live
           /\ c.requests \cap c.cancels = {}
           /\ T.finished \/ ~u.finished =>
                /\ ~c.ends
                /\ c.fetches = Len(u.lane[Origin].flight) - Len(T.lane[Origin].flight)
           /\ ~T.finished /\ u.finished => c.ends
<1> DEFINE c == Made(T, u)
           m == Len(T.lane[Origin].flight)
           k == Len(u.lane[Origin].flight)
<1>1. m \in Nat /\ k \in Nat
  <2>1. \A q \in Seq(Solid) : Len(q) \in Nat
    OBVIOUS
  <2> QED
    BY <2>1, SourceFacts DEF SolidState, SolidLane
<1>2. T.live \in SUBSET Peer /\ u.live \in SUBSET Peer
  BY DEF SolidState
<1>3. /\ T.finished \/ ~u.finished => u.ended = T.ended /\ k >= m
      /\ ~T.finished /\ u.finished => u.ended # T.ended
  <2>1. T.finished \/ ~u.finished => u.ended = T.ended /\ k >= m
    BY DEF Led
  <2>2. ASSUME ~T.finished, u.finished PROVE u.ended # T.ended
    <3>1. PICK how \in {"deliver", "fail"} : u.ended = Append(T.ended, how)
      BY <2>2 DEF Led
    <3>2. T.ended \in Seq({"deliver", "fail"})
      BY DEF SolidState
    <3>3. \A q \in Seq({"deliver", "fail"}) : Append(q, how) # q
      OBVIOUS
    <3> QED
      BY <3>1, <3>2, <3>3
  <2> QED
    BY <2>1, <2>2
<1>4. /\ c.requests = u.live \ T.live /\ c.cancels = T.live \ u.live
      /\ c.fetches = Less(k, m) /\ c.ends = (u.ended # T.ended)
      /\ c = [requests |-> u.live \ T.live, cancels |-> T.live \ u.live,
              fetches |-> Less(k, m), ends |-> u.ended # T.ended]
  BY DEF Made
<1> HIDE DEF m, k, c
<1>5. Less(k, m) \in Nat /\ (k >= m => Less(k, m) = k - m)
  BY <1>1 DEF Less
<1>6. c \in Commands
  BY <1>2, <1>4, <1>5 DEF Commands
<1> QED
  BY <1>3, <1>4, <1>5, <1>6 DEF c, m, k

LEMMA PostSound ==
    ASSUME NEW P, NEW T \in SolidState, NEW u \in SolidState, Tuned(P, T), Led(T, u), Lanes(u),
           P.worker
    PROVE  Tuned(Posted(P, Made(T, u)), u)
<1> DEFINE c == Made(T, u)
           Q == Posted(P, c)
           n == Len(P.replies)
<1>1. /\ c \in Commands
      /\ c.requests = u.live \ T.live /\ c.cancels = T.live \ u.live
      /\ c.requests \cap c.cancels = {}
      /\ T.finished \/ ~u.finished =>
           /\ ~c.ends
           /\ c.fetches = Len(u.lane[Origin].flight) - Len(T.lane[Origin].flight)
      /\ ~T.finished /\ u.finished => c.ends
  BY MadeSound
<1> HIDE DEF c
<1>2. P \in PageType
  BY DEF Tuned
<1>3. /\ Q \in PageType /\ n \in Nat
      /\ Q.worker = P.worker /\ Q.open = P.open /\ Q.fetching = P.fetching
      /\ Q.over = P.over /\ Q.replies = Append(P.replies, c)
      /\ Len(Q.replies) = n + 1 /\ Q.replies[n + 1] = c
      /\ \A i \in 1 .. n : Q.replies[i] = P.replies[i]
      /\ DOMAIN Q.replies = 1 .. n + 1 /\ DOMAIN P.replies = 1 .. n
      /\ \A i \in 0 .. n : Asks(Q, i) = Asks(P, i)
      /\ Asks(Q, n + 1) = c.requests
  BY <1>1, <1>2, PostedFields
<1>4. Opens(Q) = (Opens(P) \ c.cancels) \cup c.requests
  BY <1>1, <1>2, PostedOpens
<1>5. Fetches(Q) = Fetches(P) + c.fetches
  <2>1. P.replies \in Seq(Commands) /\ P.fetching \in Nat
    BY <1>2 DEF PageType
  <2>2. Cardinality(Marks(Q.replies)) = Cardinality(Marks(P.replies)) + c.fetches
    BY <1>1, <1>3, <2>1, MarksAppend
  <2>3. Cardinality(Marks(P.replies)) \in Nat /\ c.fetches \in Nat
    BY <1>1, <2>1, MarksFinite DEF Commands
  <2> QED
    BY <1>3, <2>1, <2>2, <2>3 DEF Fetches
<1> HIDE DEF Q, n
<1>6. Ending(P) => Ending(Q)
  <2>1. \A i \in DOMAIN P.replies : i \in DOMAIN Q.replies /\ Q.replies[i] = P.replies[i]
    BY <1>3
  <2> QED
    BY <1>3, <2>1 DEF Ending
<1>7. ~T.finished /\ u.finished => Ending(Q)
  <2>1. n + 1 \in DOMAIN Q.replies
    BY <1>3
  <2> QED
    BY <1>1, <1>3, <2>1 DEF Ending
<1>8. u.finished => Ending(Q)
  BY <1>6, <1>7 DEF Tuned
<1>9. ASSUME ~Ending(Q) PROVE InStep(Q, u)
  <2>1. ~T.finished /\ ~u.finished /\ InStep(P, T)
    BY <1>6, <1>8, <1>9 DEF Tuned
  <2>2. T.live \in SUBSET Peer /\ u.live = {p \in Peer : u.lane[p].flight # <<>>}
    BY DEF SolidState, Lanes
  <2>3. \A i \in 0 .. n : Asks(P, i) \in SUBSET Peer
    <3>1. ASSUME NEW i \in 0 .. n, i # 0 PROVE P.replies[i].requests \in SUBSET Peer
      <4>1. i \in DOMAIN P.replies /\ P.replies \in Seq(Commands)
        BY <1>2, <1>3, <3>1 DEF PageType
      <4>2. P.replies[i] \in Commands
        BY <4>1
      <4> QED
        BY <4>2 DEF Commands
    <3> QED
      BY <1>2, <3>1 DEF Asks, PageType
  <2>4. ASSUME NEW i \in 0 .. n, NEW p \in Asks(P, i)
        PROVE  (p \in u.live \/ u.lane[p].retired) /\ p \notin c.requests
    <3>1. p \in Peer /\ (p \in T.live \/ T.lane[p].retired)
      BY <2>1, <2>3, <2>4, <1>3 DEF InStep, Known, n
    <3>2. T.lane[p].retired => u.lane[p].retired
      BY <3>1 DEF Led
    <3>3. u.lane[p].retired => p \notin u.live
      BY <2>2, <3>1, SourceFacts DEF Lanes, Idle
    <3>4. p \in T.live \ u.live => u.lane[p].retired
      BY <2>1 DEF Led
    <3> QED
      BY <1>1, <3>1, <3>2, <3>3, <3>4
  <2>5. \A i : i \in 0 .. n + 1 <=> i \in 0 .. n \/ i = n + 1
    BY <1>3
  <2>6. Known(Q, u)
    <3>1. ASSUME NEW i \in 0 .. n + 1, NEW p \in Asks(Q, i)
          PROVE  p \in u.live \/ u.lane[p].retired
      <4>1. CASE i \in 0 .. n
        BY <1>3, <2>4, <3>1, <4>1
      <4>2. CASE i = n + 1
        BY <1>1, <1>3, <3>1, <4>2
      <4> QED
        BY <2>5, <3>1, <4>1, <4>2
    <3> QED
      BY <1>3, <3>1 DEF Known
  <2>7. Once(Q)
    <3>1. ASSUME NEW i \in 0 .. n + 1, NEW j \in 0 .. n + 1, i # j
          PROVE  Asks(Q, i) \cap Asks(Q, j) = {}
      <4>1. CASE i \in 0 .. n /\ j \in 0 .. n
        BY <1>3, <2>1, <3>1, <4>1 DEF InStep, Once, n
      <4>2. CASE i \in 0 .. n /\ j = n + 1
        BY <1>3, <2>4, <4>2
      <4>3. CASE i = n + 1 /\ j \in 0 .. n
        BY <1>3, <2>4, <4>3
      <4> QED
        BY <2>5, <3>1, <4>1, <4>2, <4>3
    <3> QED
      BY <1>3, <3>1 DEF Once
  <2>8. Opens(Q) = u.live
    BY <1>1, <1>4, <2>1 DEF InStep
  <2>9. Fetches(Q) = Len(u.lane[Origin].flight)
    <3>1. Len(u.lane[Origin].flight) \in Nat /\ Len(T.lane[Origin].flight) \in Nat
      <4>1. \A q \in Seq(Solid) : Len(q) \in Nat
        OBVIOUS
      <4> QED
        BY <4>1, SourceFacts DEF SolidState, SolidLane
    <3> DEFINE k == Len(u.lane[Origin].flight)
               m == Len(T.lane[Origin].flight)
               a == Fetches(Q)
               b == Fetches(P)
               d == c.fetches
    <3>2. k \in Nat /\ m \in Nat /\ d = k - m /\ a = b + d /\ b = m
      BY <1>1, <1>5, <2>1, <3>1 DEF InStep
    <3> HIDE DEF k, m, a, b, d
    <3>3. a = k
      BY <3>2
    <3> QED
      BY <3>3 DEF a, k
  <2> QED
    BY <2>6, <2>7, <2>8, <2>9 DEF InStep
<1> QED
  BY <1>3, <1>8, <1>9 DEF Tuned, Q, c

\* Without a worker the commands are run at once.
LEMMA ApplySound ==
    ASSUME NEW P, NEW T \in SolidState, NEW u \in SolidState, Tuned(P, T), Led(T, u), Lanes(u),
           ~P.worker
    PROVE  Tuned(Apply(P, Made(T, u)), u)
<1> DEFINE c == Made(T, u)
           Q == Apply(P, c)
<1>1. /\ c \in Commands
      /\ c.requests = u.live \ T.live /\ c.cancels = T.live \ u.live
      /\ c.requests \cap c.cancels = {}
      /\ T.finished \/ ~u.finished =>
           /\ ~c.ends
           /\ c.fetches = Len(u.lane[Origin].flight) - Len(T.lane[Origin].flight)
      /\ ~T.finished /\ u.finished => c.ends
  BY MadeSound
<1> HIDE DEF c
<1>2. P \in PageType /\ P.replies = <<>>
  BY DEF Tuned
<1>3. \A X : X.replies = <<>> => /\ Len(X.replies) = 0 /\ DOMAIN X.replies = {}
  OBVIOUS
<1>4. CASE c.ends
  <2>1. Q = Over(P)
    BY <1>4 DEF Apply
  <2>2. Q \in PageType /\ Q.over /\ Q.replies = <<>>
    <3> DEFINE e == <<>>
    <3>1. e \in Seq(Commands) /\ e = P.replies
      BY <1>2
    <3>2. Q = [P EXCEPT !.open = {}, !.fetching = 0, !.replies = e, !.over = TRUE]
      BY <2>1 DEF Over
    <3> HIDE DEF e, Q
    <3> QED
      BY <1>2, <3>1, <3>2 DEF PageType
  <2> QED
    BY <2>2 DEF Tuned, Ending, c
<1>5. CASE ~c.ends
  <2> DEFINE O == (P.open \cup c.requests) \ c.cancels
             F == P.fetching + c.fetches
  <2>1. Q = [P EXCEPT !.open = O, !.fetching = F]
    BY <1>5 DEF Apply
  <2>2. O \in SUBSET Peer /\ F \in Nat
    BY <1>1, <1>2 DEF PageType, Commands
  <2> HIDE DEF O, F
  <2>3. /\ Q \in PageType /\ Q.worker = P.worker /\ Q.open = O /\ Q.fetching = F
        /\ Q.over = P.over /\ Q.replies = <<>>
    BY <1>2, <2>1, <2>2 DEF PageType
  <2> HIDE DEF Q
  <2>4. Ending(P) <=> P.over
    BY <1>2, <1>3 DEF Ending
  <2>5. Ending(Q) <=> P.over
    BY <1>3, <2>3 DEF Ending
  <2>6. u.finished => P.over
    BY <1>1, <1>5, <2>4 DEF Tuned
  <2>7. ASSUME ~P.over PROVE InStep(Q, u)
    <3>1. ~T.finished /\ ~u.finished /\ InStep(P, T)
      BY <2>4, <2>6, <2>7 DEF Tuned
    <3>2. \A X : X.replies = <<>> =>
            /\ Opens(X) = X.open /\ Fetches(X) = X.fetching + 0
            /\ Once(X) /\ \A i \in 0 .. Len(X.replies) : i = 0
      <4> SUFFICES ASSUME NEW X, X.replies = <<>>
                   PROVE  /\ Opens(X) = X.open /\ Fetches(X) = X.fetching + 0
                          /\ Once(X) /\ \A i \in 0 .. Len(X.replies) : i = 0
        OBVIOUS
      <4>1. Len(X.replies) = 0 /\ DOMAIN X.replies = {}
        BY <1>3
      <4>2. \A i : i \in 0 .. Len(X.replies) <=> i = 0
        BY <4>1
      <4>3. Marks(X.replies) = {}
        BY <4>1 DEF Marks
      <4>4. Cardinality(Marks(X.replies)) = 0
        BY <4>3, FS_EmptySet
      <4>5. \A j \in 0 .. 0 : ~(j > 0)
        OBVIOUS
      <4>6. Opens(X) = X.open
        BY <4>1, <4>2, <4>5 DEF Opens, Asks
      <4> QED
        BY <4>2, <4>4, <4>6 DEF Once, Fetches
    <3>3. P.open = T.live /\ P.fetching = Len(T.lane[Origin].flight)
      BY <1>2, <3>1, <3>2 DEF InStep, PageType
    <3>4. Q.open = u.live
      BY <1>1, <2>3, <3>3 DEF O
    <3>5. Q.fetching = Len(u.lane[Origin].flight)
      <4>1. Len(u.lane[Origin].flight) \in Nat /\ Len(T.lane[Origin].flight) \in Nat
        <5>1. \A q \in Seq(Solid) : Len(q) \in Nat
          OBVIOUS
        <5> QED
          BY <5>1, SourceFacts DEF SolidState, SolidLane
      <4> DEFINE k == Len(u.lane[Origin].flight)
                 m == Len(T.lane[Origin].flight)
                 d == c.fetches
      <4>2. k \in Nat /\ m \in Nat /\ d = k - m /\ Q.fetching = m + d
        BY <1>1, <2>3, <3>1, <3>3, <4>1 DEF F
      <4> HIDE DEF k, m, d
      <4>3. Q.fetching = k
        BY <4>2
      <4> QED
        BY <4>3 DEF k
    <3>6. Known(Q, u)
      BY <2>3, <3>2, <3>4 DEF Known, Asks
    <3> QED
      BY <2>3, <3>2, <3>4, <3>5, <3>6 DEF InStep, PageType
  <2> QED
    BY <2>3, <2>5, <2>6, <2>7 DEF Tuned, Q, c
<1> QED
  BY <1>4, <1>5

LEMMA SubmitSound ==
    ASSUME NEW P, NEW T \in SolidState, NEW u \in SolidState, Tuned(P, T), Led(T, u), Lanes(u),
           Submit(P, T, u)
    PROVE  t' = u /\ Tuned(page', u)
<1>1. CASE ~P.worker
  BY <1>1, ApplySound DEF Submit
<1>2. CASE P.worker /\ Made(T, u) = Nothing
  <2>1. page' = P /\ t' = u
    BY <1>2 DEF Submit
  <2> DEFINE k == Len(u.lane[Origin].flight)
             m == Len(T.lane[Origin].flight)
             c == Made(T, u)
  <2>2. k \in Nat /\ m \in Nat
    <3>1. \A q \in Seq(Solid) : Len(q) \in Nat
      OBVIOUS
    <3> QED
      BY <3>1, SourceFacts DEF SolidState, SolidLane
  <2>3. /\ c.requests = u.live \ T.live /\ c.cancels = T.live \ u.live
        /\ T.finished \/ ~u.finished => c.fetches = k - m
        /\ ~T.finished /\ u.finished => c.ends
    BY MadeSound
  <2>4. c.requests = {} /\ c.cancels = {} /\ c.fetches = 0 /\ ~c.ends
    BY <1>2 DEF Nothing
  <2> HIDE DEF k, m, c
  <2>5. u.live = T.live /\ (u.finished => T.finished) /\ (~u.finished => k = m)
    BY <2>2, <2>3, <2>4
  <2>6. ASSUME InStep(P, T), ~T.finished PROVE InStep(P, u)
    <3>1. ~u.finished
      BY <2>5, <2>6
    <3>2. ASSUME NEW i \in 0 .. Len(P.replies), NEW p \in Asks(P, i)
          PROVE  p \in u.live \/ u.lane[p].retired
      <4>1. p \in Peer
        <5>1. P \in PageType
          BY DEF Tuned
        <5>2. CASE i = 0
          BY <3>2, <5>1, <5>2 DEF Asks, PageType
        <5>3. CASE i # 0
          <6>1. P.replies \in Seq(Commands)
            BY <5>1 DEF PageType
          <6>2. i \in DOMAIN P.replies
            BY <5>3, <6>1
          <6>3. P.replies[i] \in Commands
            BY <6>1, <6>2
          <6> QED
            BY <3>2, <5>3, <6>3 DEF Asks, Commands
        <5> QED
          BY <5>2, <5>3
      <4>2. p \in T.live \/ T.lane[p].retired
        BY <2>6 DEF InStep, Known
      <4> QED
        BY <2>5, <4>1, <4>2 DEF Led
    <3> QED
      BY <2>5, <2>6, <3>1, <3>2 DEF InStep, Known, k, m
  <2> QED
    BY <2>1, <2>5, <2>6 DEF Tuned
<1>3. CASE P.worker /\ Made(T, u) # Nothing
  <2>1. page' = Posted(P, Made(T, u)) /\ t' = u
    BY <1>3 DEF Submit, Posted
  <2> QED
    BY <1>3, <2>1, PostSound
<1> QED
  BY <1>1, <1>2, <1>3

\* A peer's request is over on the page and in the core.
LEMMA ClosedSound ==
    ASSUME NEW P, NEW T \in SolidState, Tuned(P, T), NEW p \in P.open
    PROVE  Tuned([P EXCEPT !.open = @ \ {p}], Cancelled(T, p))
<1> DEFINE Q == [P EXCEPT !.open = @ \ {p}]
           c == Cancelled(T, p)
           n == Len(P.replies)
           Free(i, x) == \A j \in i .. n : j > 0 => x \notin P.replies[j].cancels
<1>1. P \in PageType
  BY DEF Tuned
<1>2. /\ Q \in PageType /\ Q.worker = P.worker /\ Q.open = P.open \ {p}
      /\ Q.fetching = P.fetching /\ Q.over = P.over /\ Q.replies = P.replies
  BY <1>1 DEF PageType
<1>3. /\ c.lane = T.lane /\ c.live = T.live \ {p} /\ c.finished = T.finished
  BY DEF Cancelled, SolidState
<1> HIDE DEF Q, c
<1>4. Ending(Q) <=> Ending(P)
  BY <1>2 DEF Ending
<1>5. ASSUME InStep(P, T) PROVE InStep(Q, c)
  <2>1. Asks(Q, 0) = Asks(P, 0) \ {p} /\ p \in Asks(P, 0)
    BY <1>2 DEF Asks
  <2>2. \A i \in 0 .. n : i # 0 => Asks(Q, i) = Asks(P, i)
    BY <1>2 DEF Asks
  <2>3. \A i \in 0 .. n : Asks(Q, i) = Asks(P, i) \ {p}
    <3> SUFFICES ASSUME NEW i \in 0 .. n, i # 0 PROVE p \notin Asks(P, i)
      BY <2>1, <2>2
    <3>1. 0 \in 0 .. n
      OBVIOUS
    <3>2. Asks(P, i) \cap Asks(P, 0) = {}
      BY <1>5, <3>1 DEF InStep, Once
    <3> QED
      BY <2>1, <3>2
  <2>4. Once(Q)
    BY <1>2, <1>5, <2>3 DEF InStep, Once
  <2>5. Known(Q, c)
    BY <1>2, <1>3, <1>5, <2>3 DEF InStep, Known
  <2>6. Opens(Q) = c.live
    <3>1. Opens(P) = UNION {{x \in Asks(P, i) : Free(i, x)} : i \in 0 .. n}
      BY DEF Opens
    <3>2. Opens(Q) = UNION {{x \in Asks(Q, i) : Free(i, x)} : i \in 0 .. n}
      BY <1>2 DEF Opens
    <3> HIDE DEF Free, n
    <3>3. ASSUME NEW x PROVE x \in Opens(Q) <=> x \in Opens(P) /\ x # p
      <4>1. x \in Opens(Q) <=> \E i \in 0 .. n : x \in Asks(Q, i) /\ Free(i, x)
        BY <3>2
      <4>2. x \in Opens(P) <=> \E i \in 0 .. n : x \in Asks(P, i) /\ Free(i, x)
        BY <3>1
      <4> QED
        BY <2>3, <4>1, <4>2
    <3> QED
      BY <1>3, <1>5, <3>3 DEF InStep
  <2>7. Fetches(Q) = Len(c.lane[Origin].flight)
    BY <1>2, <1>3, <1>5 DEF InStep, Fetches
  <2> QED
    BY <2>4, <2>5, <2>6, <2>7 DEF InStep
<1> QED
  BY <1>2, <1>3, <1>4, <1>5 DEF Tuned, Q, c

\* A fetch from origin is over on the page and in the core.
LEMMA FetchedSound ==
    ASSUME NEW P, NEW T \in SolidState, Tuned(P, T), P.fetching > 0
    PROVE  LET Q == [P EXCEPT !.fetching = @ - 1] IN
           Tuned(Q, Base(T, Origin)) /\ (T.finished => Tuned(Q, T))
<1> DEFINE Q == [P EXCEPT !.fetching = @ - 1]
           b == Base(T, Origin)
           m == Len(T.lane[Origin].flight)
<1>1. P \in PageType
  BY DEF Tuned
<1>2. /\ Q \in PageType /\ Q.worker = P.worker /\ Q.open = P.open
      /\ Q.fetching = P.fetching - 1 /\ Q.over = P.over /\ Q.replies = P.replies
  <2>1. P.fetching - 1 \in Nat
    BY <1>1 DEF PageType
  <2> QED
    BY <1>1, <2>1 DEF PageType
<1>3. /\ b.finished = T.finished /\ b.live = T.live \ {Origin}
      /\ \A p \in Peer : b.lane[p] = T.lane[p]
      /\ T.lane[Origin].flight # <<>> => Len(b.lane[Origin].flight) = m - 1
  BY SourceFacts, BaseFields
<1>4. b.live = T.live
  BY <1>3, SourceFacts DEF SolidState
<1> HIDE DEF Q, b
<1>5. Ending(Q) <=> Ending(P)
  BY <1>2 DEF Ending
<1>6. ASSUME InStep(P, T) PROVE InStep(Q, b)
  <2>1. \A i \in 0 .. Len(P.replies) : Asks(Q, i) = Asks(P, i)
    BY <1>2 DEF Asks
  <2>2. Once(Q)
    BY <1>2, <1>6, <2>1 DEF InStep, Once
  <2>3. Known(Q, b)
    <3>1. \A i \in 0 .. Len(P.replies) : \A p \in Asks(P, i) : p \in Peer
      <4> SUFFICES ASSUME NEW i \in 0 .. Len(P.replies), NEW p \in Asks(P, i) PROVE p \in Peer
        OBVIOUS
      <4>1. CASE i = 0
        BY <1>1, <4>1 DEF Asks, PageType
      <4>2. CASE i # 0
        <5>1. P.replies \in Seq(Commands)
          BY <1>1 DEF PageType
        <5>2. i \in DOMAIN P.replies
          BY <4>2, <5>1
        <5>3. P.replies[i] \in Commands
          BY <5>1, <5>2
        <5> QED
          BY <4>2, <5>3 DEF Asks, Commands
      <4> QED
        BY <4>1, <4>2
    <3>2. \A i \in 0 .. Len(P.replies) : \A p \in Asks(P, i) :
             p \in b.live \/ b.lane[p].retired
      BY <1>3, <1>4, <1>6, <3>1 DEF InStep, Known
    <3> QED
      BY <1>2, <2>1, <3>2 DEF Known
  <2>4. Opens(Q) = b.live
    BY <1>2, <1>4, <1>6, <2>1 DEF InStep, Opens
  <2>5. Fetches(Q) = Len(b.lane[Origin].flight)
    <3> DEFINE a == Cardinality(Marks(P.replies))
               f == P.fetching
    <3>1. a \in Nat /\ f \in Nat /\ f > 0
      BY <1>1, MarksFinite DEF PageType
    <3>2. m = f + a /\ Fetches(Q) = (f - 1) + a
      BY <1>2, <1>6 DEF InStep, Fetches
    <3>3. T.lane[Origin].flight # <<>>
      <4>1. Len(<<>>) = 0
        OBVIOUS
      <4> HIDE DEF a, f
      <4>2. m # 0
        BY <3>1, <3>2
      <4> QED
        BY <4>1, <4>2
    <3>4. Len(b.lane[Origin].flight) = m - 1
      BY <1>3, <3>3
    <3> HIDE DEF a, f, m
    <3>5. Fetches(Q) = m - 1
      BY <3>1, <3>2
    <3> QED
      BY <3>4, <3>5
  <2> QED
    BY <2>2, <2>3, <2>4, <2>5 DEF InStep
<1>7. Tuned(Q, b)
  BY <1>2, <1>3, <1>5, <1>6 DEF Tuned
<1>8. T.finished => Tuned(Q, T)
  BY <1>2, <1>5 DEF Tuned
<1> QED
  BY <1>7, <1>8 DEF Q, b

\* A worker's reply arrives.
LEMMA ArrivesSound ==
    ASSUME NEW P, NEW T \in SolidState, Tuned(P, T), P.replies # <<>>
    PROVE  Tuned(Apply([P EXCEPT !.replies = Tail(@)], Head(P.replies)), T)
<1> DEFINE q == P.replies
           n == Len(P.replies)
           c == Head(P.replies)
           r == Tail(P.replies)
           R == [P EXCEPT !.replies = Tail(@)]
           Q == Apply(R, c)
           Free(i, x) == \A j \in i .. n : j > 0 => x \notin q[j].cancels
           FreeQ(i, x) == \A j \in i .. n - 1 : j > 0 => x \notin r[j].cancels
<1>1. P \in PageType
  BY DEF Tuned
<1>2. q \in Seq(Commands)
  BY <1>1 DEF PageType
<1>3. /\ n \in Nat /\ n >= 1 /\ c \in Commands /\ c = q[1]
      /\ r \in Seq(Commands) /\ Len(r) = n - 1 /\ DOMAIN r = 1 .. n - 1 /\ DOMAIN q = 1 .. n
      /\ \A j \in 1 .. n - 1 : r[j] = q[j + 1]
  BY <1>2
<1>4. /\ R \in PageType /\ R.worker = P.worker /\ R.open = P.open /\ R.fetching = P.fetching
      /\ R.over = P.over /\ R.replies = r
  <2>1. R = [P EXCEPT !.replies = r]
    OBVIOUS
  <2> HIDE DEF r, R
  <2> QED
    BY <1>1, <1>3, <2>1 DEF PageType
<1>5. P.worker
  BY DEF Tuned
<1> HIDE DEF R, r, n, q, c
<1>6. CASE c.ends
  <2> DEFINE e == <<>>
  <2>1. e \in Seq(Commands)
    OBVIOUS
  <2>2. Q = [R EXCEPT !.open = {}, !.fetching = 0, !.replies = e, !.over = TRUE]
    BY <1>6 DEF Apply, Over
  <2> HIDE DEF e, Q
  <2>3. Q \in PageType /\ Q.over /\ Q.worker
    BY <1>4, <1>5, <2>1, <2>2 DEF PageType
  <2> QED
    BY <2>3 DEF Tuned, Ending, Q, R, c
<1>7. CASE ~c.ends
  <2> DEFINE O == (R.open \cup c.requests) \ c.cancels
             F == R.fetching + c.fetches
  <2>1. Q = [R EXCEPT !.open = O, !.fetching = F]
    BY <1>7 DEF Apply
  <2>2. O \in SUBSET Peer /\ F \in Nat
    BY <1>3, <1>4 DEF PageType, Commands
  <2> HIDE DEF O, F, Q
  <2>3. /\ Q \in PageType /\ Q.worker /\ Q.open = O /\ Q.fetching = F
        /\ Q.over = P.over /\ Q.replies = r
    BY <1>4, <1>5, <2>1, <2>2 DEF PageType
  <2>4. Ending(P) => Ending(Q)
    <3>1. ASSUME NEW i \in DOMAIN q, q[i].ends PROVE \E j \in DOMAIN r : r[j].ends
      <4>1. i # 1
        BY <1>3, <1>7, <3>1
      <4>2. i - 1 \in 1 .. n - 1 /\ (i - 1) + 1 = i
        BY <1>3, <4>1
      <4>3. r[i - 1] = q[i]
        BY <1>3, <4>2
      <4> QED
        BY <1>3, <3>1, <4>2, <4>3
    <3> QED
      BY <2>3, <3>1 DEF Ending, q
  <2>5. ASSUME InStep(P, T) PROVE InStep(Q, T)
    <3>1. Asks(Q, 0) = (Asks(P, 0) \cup Asks(P, 1)) \ c.cancels
      BY <1>3, <1>4, <2>3 DEF Asks, O, q
    <3>2. \A i \in 1 .. n - 1 : Asks(Q, i) = Asks(P, i + 1)
      <4> SUFFICES ASSUME NEW i \in 1 .. n - 1 PROVE Asks(Q, i) = Asks(P, i + 1)
        OBVIOUS
      <4>1. i # 0 /\ i + 1 # 0
        BY <1>3
      <4> QED
        BY <1>3, <2>3, <4>1 DEF Asks, q
    <3>3. \A i : i \in 0 .. n - 1 <=> i = 0 \/ i \in 1 .. n - 1
      BY <1>3
    <3>4. /\ 0 \in 0 .. n /\ 1 \in 0 .. n
          /\ \A i \in 1 .. n - 1 : i + 1 \in 0 .. n /\ i + 1 # 0 /\ i + 1 # 1
      BY <1>3
    <3>5. Once(P) /\ Known(P, T)
      BY <2>5 DEF InStep
    <3>6. Once(Q)
      <4>1. ASSUME NEW i \in 0 .. n - 1, NEW j \in 0 .. n - 1, i # j
            PROVE  Asks(Q, i) \cap Asks(Q, j) = {}
        <5>1. ASSUME NEW k \in 1 .. n - 1 PROVE Asks(Q, 0) \cap Asks(Q, k) = {}
          <6>1. Asks(P, 0) \cap Asks(P, k + 1) = {} /\ Asks(P, 1) \cap Asks(P, k + 1) = {}
            BY <3>4, <3>5 DEF Once, n
          <6> QED
            BY <3>1, <3>2, <6>1
        <5>2. ASSUME i \in 1 .. n - 1, j \in 1 .. n - 1 PROVE Asks(Q, i) \cap Asks(Q, j) = {}
          <6>1. i + 1 # j + 1
            BY <4>1, <5>2
          <6>2. Asks(P, i + 1) \cap Asks(P, j + 1) = {}
            BY <3>4, <3>5, <5>2, <6>1 DEF Once, n
          <6> QED
            BY <3>2, <5>2, <6>2
        <5> QED
          BY <3>3, <4>1, <5>1, <5>2
      <4> QED
        BY <1>3, <2>3, <4>1 DEF Once
    <3>7. Known(Q, T)
      <4>1. ASSUME NEW i \in 0 .. n - 1, NEW p \in Asks(Q, i)
            PROVE  p \in T.live \/ T.lane[p].retired
        <5>1. \E k \in 0 .. n : p \in Asks(P, k)
          BY <3>1, <3>2, <3>3, <3>4, <4>1
        <5> QED
          BY <3>5, <5>1 DEF Known, n
      <4> QED
        BY <1>3, <2>3, <4>1 DEF Known
    <3>8. Opens(Q) = T.live
      <4>1. Opens(P) = UNION {{x \in Asks(P, i) : Free(i, x)} : i \in 0 .. n}
        BY DEF Opens, n, q
      <4>2. Opens(Q) = UNION {{x \in Asks(Q, i) : FreeQ(i, x)} : i \in 0 .. n - 1}
        BY <1>3, <2>3 DEF Opens
      <4>3. ASSUME NEW i \in 1 .. n - 1, NEW x PROVE FreeQ(i, x) <=> Free(i + 1, x)
        <5>1. ASSUME FreeQ(i, x) PROVE Free(i + 1, x)
          <6>1. \A j \in i + 1 .. n : /\ j - 1 \in i .. n - 1 /\ j - 1 > 0
                                      /\ j - 1 \in 1 .. n - 1 /\ (j - 1) + 1 = j
            BY <1>3
          <6> QED
            BY <1>3, <5>1, <6>1
        <5>2. ASSUME Free(i + 1, x) PROVE FreeQ(i, x)
          <6>1. \A j \in i .. n - 1 : j + 1 \in i + 1 .. n /\ j + 1 > 0 /\ j \in 1 .. n - 1
            BY <1>3
          <6> QED
            BY <1>3, <5>2, <6>1
        <5> QED
          BY <5>1, <5>2
      <4>4. ASSUME NEW x PROVE /\ Free(0, x) <=> x \notin c.cancels /\ FreeQ(0, x)
                               /\ Free(1, x) <=> x \notin c.cancels /\ FreeQ(0, x)
        <5>1. ASSUME x \notin c.cancels, FreeQ(0, x) PROVE Free(0, x)
          <6>1. \A j \in 0 .. n : j > 0 => j = 1 \/ (/\ j - 1 \in 0 .. n - 1 /\ j - 1 > 0
                                                     /\ j - 1 \in 1 .. n - 1 /\ (j - 1) + 1 = j)
            BY <1>3
          <6> QED
            BY <1>3, <5>1, <6>1
        <5>2. Free(0, x) => Free(1, x)
          <6>1. \A j \in 1 .. n : j \in 0 .. n
            BY <1>3
          <6> QED
            BY <6>1
        <5>3. ASSUME Free(1, x) PROVE x \notin c.cancels /\ FreeQ(0, x)
          <6>1. /\ 1 \in 1 .. n /\ 1 > 0
                /\ \A j \in 0 .. n - 1 : j > 0 =>
                     j + 1 \in 1 .. n /\ j + 1 > 0 /\ j \in 1 .. n - 1
            BY <1>3
          <6> QED
            BY <1>3, <5>3, <6>1
        <5> QED
          BY <5>1, <5>2, <5>3
      <4> HIDE DEF Free, FreeQ
      <4>5. \A i : i \in 0 .. n => i = 0 \/ i = 1 \/ (i - 1 \in 1 .. n - 1 /\ (i - 1) + 1 = i)
        BY <1>3
      <4>6. ASSUME NEW x PROVE x \in Opens(Q) <=> x \in Opens(P)
        <5>1. x \in Opens(Q) <=> \E i \in 0 .. n - 1 : x \in Asks(Q, i) /\ FreeQ(i, x)
          BY <4>2
        <5>2. x \in Opens(P) <=> \E i \in 0 .. n : x \in Asks(P, i) /\ Free(i, x)
          BY <4>1
        <5>3. ASSUME x \in Opens(Q) PROVE x \in Opens(P)
          <6>1. PICK i \in 0 .. n - 1 : x \in Asks(Q, i) /\ FreeQ(i, x)
            BY <5>1, <5>3
          <6>2. CASE i = 0
            BY <3>1, <3>4, <4>4, <5>2, <6>1, <6>2
          <6>3. CASE i \in 1 .. n - 1
            BY <3>2, <3>4, <4>3, <5>2, <6>1, <6>3
          <6> QED
            BY <3>3, <6>2, <6>3
        <5>4. ASSUME x \in Opens(P) PROVE x \in Opens(Q)
          <6>1. PICK i \in 0 .. n : x \in Asks(P, i) /\ Free(i, x)
            BY <5>2, <5>4
          <6>2. CASE i = 0 \/ i = 1
            <7>1. 0 \in 0 .. n - 1
              BY <3>3
            <7> QED
              BY <3>1, <4>4, <5>1, <6>1, <6>2, <7>1
          <6>3. CASE i - 1 \in 1 .. n - 1 /\ (i - 1) + 1 = i
            <7>1. Asks(Q, i - 1) = Asks(P, i) /\ (FreeQ(i - 1, x) <=> Free(i, x))
              BY <3>2, <4>3, <6>3
            <7> QED
              BY <3>3, <5>1, <6>1, <6>3, <7>1
          <6> QED
            BY <4>5, <6>2, <6>3
        <5> QED
          BY <5>3, <5>4
      <4> QED
        BY <2>5, <4>6 DEF InStep
    <3>9. Fetches(Q) = Len(T.lane[Origin].flight)
      <4>1. Cardinality(Marks(q)) = c.fetches + Cardinality(Marks(r))
        BY <1>2, MarksTail DEF q, c, r
      <4> DEFINE a == Cardinality(Marks(r))
                 b == Cardinality(Marks(q))
                 d == c.fetches
                 f == P.fetching
      <4>2. a \in Nat /\ d \in Nat /\ f \in Nat /\ b = d + a
        BY <1>1, <1>3, <4>1, MarksFinite DEF PageType, Commands
      <4>3. Fetches(Q) = (f + d) + a /\ f + b = Len(T.lane[Origin].flight)
        BY <1>4, <2>3, <2>5 DEF Fetches, InStep, F, q
      <4> HIDE DEF a, b, d, f
      <4>4. (f + d) + a = f + b
        BY <4>2
      <4> QED
        BY <4>3, <4>4
    <3> QED
      BY <3>6, <3>7, <3>8, <3>9 DEF InStep
  <2> QED
    BY <2>3, <2>4, <2>5 DEF Tuned, Q, R, c
<1> QED
  BY <1>6, <1>7

-----------------------------------------------------------------------------
\* A transfer that runs, one that has not begun, and the inductive invariant.
Sound(T) ==
    /\ Fit(T, {}) /\ NoneLost(T)
    /\ T.finished \/ Unverified(T) # {}

New(T) ==
    /\ ~T.started /\ ~T.finished /\ T.verified = {} /\ T.pending = {} /\ T.live = {}
    /\ T.ended = <<>>
    /\ \A s \in Source : T.lane[s] = EmptyLane(FALSE)

IInv ==
    /\ t \in SolidState /\ Tuned(page, t)
    /\ t.started => Sound(t)
    /\ ~t.started => /\ New(t) /\ page.open = {} /\ page.fetching = 0
                     /\ page.replies = <<>>

LEMMA NewFields ==
    ASSUME NEW m \in {"mixed", "exclusive", "peer_only"}, NEW so \in BOOLEAN
    PROVE  LET T == NewTransfer(m, so) IN
           /\ T \in SolidState /\ T.mode = m /\ T.sound = so /\ New(T)
<1> DEFINE L == [s \in Source |-> EmptyLane(FALSE)]
           e == <<>>
           N == [mode |-> m, sound |-> so, started |-> FALSE, due |-> FALSE,
                 floor |-> FALSE, finished |-> FALSE, verified |-> {},
                 lane |-> L, probes |-> {}, spare |-> {},
                 pending |-> {}, duplicated |-> {}, begun |-> FALSE, live |-> {},
                 ended |-> e]
<1>1. N = NewTransfer(m, so)
  BY DEF NewTransfer
<1>2. L \in [Source -> SolidLane] /\ \A s \in Source : L[s] = EmptyLane(FALSE)
  BY DEF SolidLane, EmptyLane
<1>3. e \in Seq({"deliver", "fail"})
  OBVIOUS
<1> HIDE DEF L, e
<1>4. /\ N \in SolidState
      /\ N.mode = m /\ N.sound = so /\ ~N.started /\ ~N.finished
      /\ N.verified = {} /\ N.pending = {} /\ N.live = {} /\ N.ended = e /\ N.lane = L
  BY <1>2, <1>3 DEF SolidState
<1> HIDE DEF N
<1> QED
  BY <1>1, <1>2, <1>4 DEF e, New

LEMMA NoReplies ==
    ASSUME NEW P, P.replies = <<>>
    PROVE  /\ Opens(P) = P.open /\ Fetches(P) = P.fetching + 0
           /\ Once(P) /\ \A i \in 0 .. Len(P.replies) : i = 0
<1>1. Len(P.replies) = 0 /\ DOMAIN P.replies = {}
  OBVIOUS
<1>2. \A i : i \in 0 .. Len(P.replies) <=> i = 0
  BY <1>1
<1>3. Cardinality(Marks(P.replies)) = 0
  <2>1. Marks(P.replies) = {}
    BY <1>1 DEF Marks
  <2> QED
    BY <2>1, FS_EmptySet
<1>4. \A j \in 0 .. 0 : ~(j > 0)
  OBVIOUS
<1>5. Opens(P) = P.open
  BY <1>1, <1>2, <1>4 DEF Opens, Asks
<1> QED
  BY <1>2, <1>3, <1>5 DEF Once, Fetches

LEMMA TunedNew ==
    ASSUME NEW P \in PageType, P.open = {}, P.fetching = 0, P.replies = <<>>,
           NEW T, ~T.finished, T.live = {}, T.lane[Origin].flight = <<>>
    PROVE  Tuned(P, T)
<1>1. /\ Opens(P) = P.open /\ Fetches(P) = P.fetching + 0
      /\ Once(P) /\ \A i \in 0 .. Len(P.replies) : i = 0
  BY NoReplies
<1>2. Known(P, T)
  BY <1>1 DEF Known, Asks
<1>3. Fetches(P) = Len(T.lane[Origin].flight)
  <2>1. Len(<<>>) = 0
    OBVIOUS
  <2> QED
    BY <1>1, <2>1
<1> QED
  BY <1>1, <1>2, <1>3 DEF Tuned, InStep

LEMMA InitSound == Init => IInv
<1> SUFFICES ASSUME Init PROVE IInv
  OBVIOUS
<1>1. PICK c \in Case :
         /\ t = NewTransfer(c.mode, c.sound)
         /\ page = [worker |-> c.worker, open |-> {}, fetching |-> 0,
                    replies |-> <<>>, over |-> FALSE]
  BY DEF Init
<1>2. c.mode \in {"mixed", "exclusive", "peer_only"} /\ c.sound \in BOOLEAN
      /\ c.worker \in BOOLEAN
  BY CaseAssumption
<1> DEFINE m == c.mode
           so == c.sound
           T == NewTransfer(m, so)
<1>3. T \in SolidState /\ T.mode = m /\ T.sound = so /\ New(T)
  <2>1. m \in {"mixed", "exclusive", "peer_only"} /\ so \in BOOLEAN
    BY <1>2
  <2> HIDE DEF m, so
  <2> QED
    BY <2>1, NewFields
<1>5. t = T
  BY <1>1
<1> HIDE DEF T
<1>6. page \in PageType /\ page.open = {} /\ page.fetching = 0 /\ page.replies = <<>>
  <2> DEFINE e == <<>>
  <2>1. e \in Seq(Commands)
    OBVIOUS
  <2>2. page = [worker |-> c.worker, open |-> {}, fetching |-> 0, replies |-> e, over |-> FALSE]
    BY <1>1
  <2> HIDE DEF e
  <2>3. page \in PageType /\ page.open = {} /\ page.fetching = 0 /\ page.replies = e
    BY <1>2, <2>1, <2>2 DEF PageType
  <2> QED
    BY <2>3 DEF e
<1>7. Tuned(page, t)
  <2>1. t.lane[Origin].flight = <<>>
    BY <1>3, <1>5, SourceFacts DEF EmptyLane, New
  <2> QED
    BY <1>3, <1>5, <1>6, <2>1, TunedNew DEF New
<1> QED
  BY <1>3, <1>5, <1>6, <1>7 DEF IInv, New

\* A call that leaves a sound core leaves the invariant.
LEMMA CallSound ==
    ASSUME NEW P, NEW T \in SolidState, NEW u, Tuned(P, T), Led(T, u), Sound(u), u.started,
           Submit(P, T, u)
    PROVE  IInv'
<1>1. u \in SolidState /\ Lanes(u)
  BY DEF Sound, Fit
<1>2. t' = u /\ Tuned(page', u)
  BY <1>1, SubmitSound
<1>3. (Sound(t))'
  BY <1>2 DEF Sound, Fit, Lanes, Behind, Single, NoneLost, Held, Idle, Covered, Unverified
<1>4. (Tuned(page, t))'
  BY <1>2 DEF Tuned, Ending, InStep, Once, Known, Opens, Fetches, Asks, Marks
<1> QED
  BY <1>1, <1>2, <1>3, <1>4 DEF IInv

LEMMA NotFailed ==
    ASSUME NEW T, NEW u, Led(T, u), Calm(T, u), T.ended = <<>>, T.sound, T.mode # "peer_only"
    PROVE  u.ended # <<"fail">>
<1>1. /\ Append(<<>>, "deliver") = <<"deliver">> /\ <<"deliver">> # <<"fail">>
      /\ <<>> # <<"fail">>
  OBVIOUS
<1>2. CASE u.finished /\ ~T.finished
  BY <1>1, <1>2 DEF Calm
<1>3. CASE ~(u.finished /\ ~T.finished)
  BY <1>1, <1>3 DEF Led
<1> QED
  BY <1>2, <1>3

LEMMA StartSound ==
    ASSUME IInv, Start
    PROVE  IInv' /\ (t.sound /\ t.mode # "peer_only" => t'.ended # <<"fail">>)
<1>1. /\ ~t.started /\ t \in SolidState /\ Tuned(page, t)
      /\ New(t)
      /\ page.open = {} /\ page.fetching = 0 /\ page.replies = <<>>
  BY DEF IInv, Start
<1>2. PICK measured \in SUBSET Peer :
         \E probes \in SUBSET Peer :
         LET tried == IF t.mode = "peer_only" THEN probes \cup (Peer \ measured) ELSE probes
             begun == [t EXCEPT !.started = TRUE, !.probes = tried, !.spare = tried,
                                !.lane = [s \in Source |-> EmptyLane(s \in measured)]]
         IN  \E u \in Assign(begun, Piece) : Submit(page, begun, u)
  BY DEF Start
<1>3. PICK probes \in SUBSET Peer :
         LET tried == IF t.mode = "peer_only" THEN probes \cup (Peer \ measured) ELSE probes
             begun == [t EXCEPT !.started = TRUE, !.probes = tried, !.spare = tried,
                                !.lane = [s \in Source |-> EmptyLane(s \in measured)]]
         IN  \E u \in Assign(begun, Piece) : Submit(page, begun, u)
  BY <1>2
<1> DEFINE tried == IF t.mode = "peer_only" THEN probes \cup (Peer \ measured) ELSE probes
           L == [s \in Source |-> EmptyLane(s \in measured)]
           begun == [t EXCEPT !.started = TRUE, !.probes = tried, !.spare = tried, !.lane = L]
<1>4. PICK u \in Assign(begun, Piece) : Submit(page, begun, u)
  BY <1>3
<1>5. /\ ~t.finished /\ t.verified = {} /\ t.pending = {} /\ t.live = {} /\ t.ended = <<>>
  BY <1>1 DEF New
<1>6. tried \in SUBSET Peer
  OBVIOUS
<1>7. /\ L \in [Source -> SolidLane]
      /\ \A s \in Source : L[s].queue = <<>> /\ L[s].flight = <<>> /\ ~L[s].retired
  BY DEF SolidLane, EmptyLane
<1> HIDE DEF tried, L
<1>8. /\ begun \in SolidState /\ begun.started /\ begun.lane = L /\ ~begun.finished
      /\ begun.mode = t.mode /\ begun.sound = t.sound /\ begun.due = t.due
      /\ begun.verified = {} /\ begun.pending = {} /\ begun.live = {} /\ begun.ended = <<>>
  BY <1>1, <1>5, <1>6, <1>7 DEF SolidState
<1> HIDE DEF begun
<1>9. In(<<>>) = {} /\ Apart(<<>>) /\ Len(<<>>) <= 1
  BY DEF In, Apart
<1>10. \A s \in Source : Held(begun, s) = {} /\ Idle(begun, s)
  BY <1>7, <1>8, <1>9 DEF Held, Idle
<1>11. Lanes(begun)
  BY <1>7, <1>8, <1>9, <1>10, SourceFacts DEF Lanes
<1>12. Fit(begun, {})
  BY <1>7, <1>8, <1>9, <1>10, <1>11, SourceFacts DEF Fit, Behind, Single
<1>13. Post(begun, u, {})
  <2>1. Covered(begun) = {}
    BY <1>8, <1>10 DEF Covered
  <2> DEFINE P == Piece
  <2>2. P \in SUBSET Piece /\ Piece \subseteq Covered(begun) \cup begun.pending \cup P
        /\ P \cap Covered(begun) = {} /\ u \in Assign(begun, P)
    BY <1>4, <2>1
  <2> HIDE DEF P
  <2> QED
    BY <1>8, <1>12, <2>2, AssignSound
<1>14. Sound(u) /\ u.started
  <2>1. Unverified(u) # {}
    <3>1. 0 \in Piece
      BY CountAssumption DEF Piece
    <3> QED
      BY <1>8, <1>13, <3>1 DEF Post, Unverified
  <2> QED
    BY <1>13, <2>1 DEF Sound, Post, Fit
<1>15. Tuned(page, begun)
  <2>1. page \in PageType
    BY <1>1 DEF Tuned
  <2>2. begun.lane[Origin].flight = <<>>
    BY <1>7, <1>8, SourceFacts
  <2> QED
    BY <1>1, <1>8, <2>1, <2>2, TunedNew
<1>16. IInv' /\ t' = u
  <2>1. IInv'
    BY <1>4, <1>8, <1>13, <1>14, <1>15, CallSound DEF Post
  <2>2. t' = u
    BY <1>4 DEF Submit
  <2> QED
    BY <2>1, <2>2
<1>17. t.sound /\ t.mode # "peer_only" => u.ended # <<"fail">>
  BY <1>8, <1>13, NotFailed DEF Post
<1> QED
  BY <1>16, <1>17

\* Of an answer, or of any other call.
LEMMA AnsweredSound ==
    ASSUME NEW P, NEW T, Sound(T), T.started, NEW s \in Source, NEW u, After(T, s, u),
           Tuned(P, Base(T, s)), Submit(P, Base(T, s), u)
    PROVE  IInv' /\ (s # Origin /\ T.sound /\ T.mode # "peer_only" /\ T.ended = <<>>
                     => t'.ended # <<"fail">>)
<1> DEFINE B == Base(T, s)
<1>1. T \in SolidState
  BY DEF Sound, Fit
<1>2. /\ B \in SolidState /\ B.mode = T.mode /\ B.sound = T.sound
      /\ B.finished = T.finished /\ B.ended = T.ended
  BY <1>1, BaseFields
<1>3. Led(B, u) /\ (s # Origin => Calm(B, u))
  BY DEF After
<1>4. Tuned(P, B) /\ Submit(P, B, u)
  OBVIOUS
<1> HIDE DEF B
<1>5. Sound(u) /\ u.started
  <2>1. Fit(u, {}) /\ NoneLost(u) /\ (u.finished \/ Unverified(u) # {} \/ u.verified = T.verified)
    BY DEF After
  <2>2. T.finished => u.finished
    BY <1>2, <1>3 DEF Led
  <2> QED
    BY <2>1, <2>2 DEF Sound, Unverified, Fit
<1>6. IInv'
  BY <1>2, <1>3, <1>4, <1>5, CallSound
<1>7. t' = u
  BY <1>4 DEF Submit
<1> QED
  BY <1>2, <1>3, <1>6, <1>7, NotFailed

LEMMA CalledSound ==
    ASSUME NEW T, Sound(T), T.started, NEW P, Tuned(P, T), NEW u, Step(T, u), Submit(P, T, u)
    PROVE  IInv' /\ (T.sound /\ T.mode # "peer_only" /\ T.ended = <<>> => t'.ended # <<"fail">>)
<1>1. T \in SolidState
  BY DEF Sound, Fit
<1>2. Sound(u) /\ u.started
  BY DEF Sound, Step, Led, Unverified, Fit
<1>3. IInv'
  BY <1>1, <1>2, CallSound DEF Step
<1>4. t' = u
  BY DEF Submit
<1> QED
  BY <1>3, <1>4, NotFailed DEF Step

\* The transfer runs, and its page is in step.
Asking == t.started /\ Sound(t) /\ Tuned(page, t) /\ t \in SolidState

LEMMA AskingSound ==
    ASSUME IInv
    PROVE  /\ page.open # {} => Asking
           /\ page.fetching > 0 => Asking
           /\ page.replies # <<>> => Asking
           /\ t.started => Asking
<1>1. ~(0 > 0)
  OBVIOUS
<1> QED
  BY <1>1 DEF IInv, Asking

LEMMA PeerSound ==
    ASSUME IInv, NEW p \in Peer, PeerDelivers(p) \/ PeerFails(p) \/ PeerFlows(p)
    PROVE  IInv' /\ (t.sound /\ t.mode # "peer_only" /\ t.ended = <<>> => t'.ended # <<"fail">>)
<1>1. p \in page.open /\ Asking
  BY AskingSound DEF PeerDelivers, PeerFails, PeerFlows
<1>2. /\ p \in Source /\ p # Origin /\ Answered(p) = Base(t, p) /\ Base(t, p) = Cancelled(t, p)
  BY SourceFacts DEF Answered, Base, Cancelled
<1>3. Tuned(Closed(p), Base(t, p))
  BY <1>1, <1>2, ClosedSound DEF Asking, Closed
<1>4. Fit(t, {}) /\ NoneLost(t) /\ t \in SolidState
  BY <1>1 DEF Asking, Sound
<1>5. CASE PeerDelivers(p)
  <2>1. PICK r \in Asked(p) : \E good \in SUBSET Span(r) :
           \E u \in Delivered(Answered(p), p, r, good) : Submit(Closed(p), Answered(p), u)
    BY <1>5 DEF PeerDelivers
  <2>2. PICK good \in SUBSET Span(r) :
           \E u \in Delivered(Answered(p), p, r, good) : Submit(Closed(p), Answered(p), u)
    BY <2>1
  <2>3. PICK u \in Delivered(Answered(p), p, r, good) : Submit(Closed(p), Answered(p), u)
    BY <2>2
  <2>4. p \in t.live => \E i \in DOMAIN t.lane[p].flight : t.lane[p].flight[i] = r
    BY <2>1 DEF Asked
  <2>5. u \in Delivered(IF p = Origin THEN t ELSE Cancelled(t, p), p, r, good)
    BY <1>2, <2>3
  <2>6. After(t, p, u)
    BY <1>2, <1>4, <2>4, <2>5, DeliveredSound
  <2> QED
    BY <1>1, <1>2, <1>3, <2>3, <2>6, AnsweredSound DEF Asking
<1>6. CASE PeerFails(p)
  <2>1. PICK u \in Failed(Answered(p), p) : Submit(Closed(p), Answered(p), u)
    BY <1>6 DEF PeerFails
  <2>2. Step(t, u)
    BY <1>2, <1>4, <2>1, FailedSound
  <2>3. After(t, p, u)
    BY <1>2, <1>4, <2>2, AfterStep
  <2> QED
    BY <1>1, <1>2, <1>3, <2>1, <2>3, AnsweredSound DEF Asking
<1>7. CASE PeerFlows(p)
  <2>1. PICK u \in Progress(t, p) : Submit(page, t, u)
    BY <1>7 DEF PeerFlows
  <2>2. Step(t, u)
    BY <1>4, <2>1, ProgressSound
  <2> QED
    BY <1>1, <2>1, <2>2, CalledSound DEF Asking
<1> QED
  BY <1>5, <1>6, <1>7

LEMMA OriginSound ==
    ASSUME IInv, OriginDelivers \/ OriginFails
    PROVE  IInv'
<1>1. page.fetching > 0 /\ Asking
  BY AskingSound DEF OriginDelivers, OriginFails
<1>2. Origin \in Source /\ OneFetchLess = Base(t, Origin)
  BY SourceFacts DEF OneFetchLess, Base
<1>3. Tuned(Fetched, Base(t, Origin)) /\ (t.finished => Tuned(Fetched, t))
  BY <1>1, FetchedSound DEF Asking, Fetched
<1>4. Fit(t, {}) /\ NoneLost(t) /\ t \in SolidState
  BY <1>1 DEF Asking, Sound
<1>5. Step(t, t)
  BY <1>4, StepSame
<1>6. CASE t.finished /\ Submit(Fetched, t, t)
  BY <1>1, <1>3, <1>5, <1>6, CalledSound DEF Asking
<1>7. ASSUME NEW u, After(t, Origin, u), Submit(Fetched, OneFetchLess, u) PROVE IInv'
  BY <1>1, <1>2, <1>3, <1>7, AnsweredSound DEF Asking
<1>8. CASE OriginDelivers
  <2>1. CASE ~t.finished
    <3>1. PICK i \in 1 .. page.fetching :
             LET r == t.lane[Origin].flight[i] IN
             \E good \in SUBSET Span(r) : \E u \in Delivered(t, Origin, r, good) :
                Submit(Fetched, OneFetchLess, u)
      BY <1>8, <2>1 DEF OriginDelivers
    <3> DEFINE r == t.lane[Origin].flight[i]
    <3>2. PICK good \in SUBSET Span(r) : \E u \in Delivered(t, Origin, r, good) :
                Submit(Fetched, OneFetchLess, u)
      BY <3>1
    <3>3. PICK u \in Delivered(t, Origin, r, good) : Submit(Fetched, OneFetchLess, u)
      BY <3>2
    <3>4. Origin \notin t.live
      BY <1>4, SourceFacts DEF SolidState
    <3> HIDE DEF r
    <3>5. u \in Delivered(IF Origin = Origin THEN t ELSE Cancelled(t, Origin), Origin, r, good)
      BY <3>3
    <3>6. After(t, Origin, u)
      BY <1>2, <1>4, <3>4, <3>5, DeliveredSound
    <3> QED
      BY <1>7, <3>3, <3>6
  <2>2. CASE t.finished
    BY <1>6, <1>8, <2>2 DEF OriginDelivers
  <2> QED
    BY <2>1, <2>2
<1>9. CASE OriginFails
  <2>1. PICK u \in Failed(t, Origin) : Submit(Fetched, OneFetchLess, u)
    BY <1>9 DEF OriginFails
  <2>2. CASE u = t
    BY <1>2, <1>4, <1>5, <1>7, <2>1, <2>2, AfterStep
  <2>3. CASE ~t.finished /\ u = Fail(t)
    <3>1. /\ ~t.lane[Origin].retired /\ \A p \in t.live : t.lane[p].flight # <<>>
      BY <1>4 DEF Fit, Lanes
    <3>2. Fit(u, {}) /\ NoneLost(u) /\ Led(t, u) /\ u.finished
      BY <1>1, <1>4, <2>3, <3>1, FailSound DEF Asking
    <3>3. u \in SolidState
      BY <3>2 DEF Fit
    <3>4. After(t, Origin, u)
      BY <1>2, <1>4, <3>2, <3>3, LedBase DEF After
    <3> QED
      BY <1>7, <2>1, <3>4
  <2>4. u = t \/ (~t.finished /\ u = Fail(t))
    BY <2>1 DEF Failed
  <2> QED
    BY <2>2, <2>3, <2>4
<1> QED
  BY <1>8, <1>9

LEMMA RestSound ==
    ASSUME IInv, TickNow \/ ReplyArrives \/ PageEnds \/ TimePasses \/ UNCHANGED vars
    PROVE  IInv' /\ (t.sound /\ t.mode # "peer_only" /\ t.ended = <<>> => t'.ended # <<"fail">>)
<1>0. t \in SolidState /\ Tuned(page, t) /\ <<>> # <<"fail">>
  BY DEF IInv
<1>1. CASE TickNow
  <2>1. Asking
    BY <1>1, AskingSound DEF TickNow
  <2>2. PICK u \in Tick(t) : Submit(page, t, u)
    BY <1>1 DEF TickNow
  <2>3. Step(t, u)
    BY <2>1, <2>2, TickSound DEF Asking, Sound
  <2> QED
    BY <2>1, <2>2, <2>3, CalledSound DEF Asking
<1>2. CASE ReplyArrives
  <2>1. Asking /\ page.replies # <<>>
    BY <1>2, AskingSound DEF ReplyArrives
  <2>2. t' = t /\ page' = Apply([page EXCEPT !.replies = Tail(@)], Head(page.replies))
    BY <1>2 DEF ReplyArrives
  <2>3. Tuned(page', t)
    BY <1>0, <2>1, <2>2, ArrivesSound
  <2>4. (Tuned(page, t))'
    BY <2>2, <2>3 DEF Tuned, Ending, InStep, Once, Known, Opens, Fetches, Asks, Marks
  <2>5. (Sound(t))'
    BY <2>1, <2>2 DEF Asking, Sound, Fit, Lanes, Behind, Single, NoneLost, Held, Idle, Covered,
                      Unverified
  <2> QED
    BY <1>0, <2>1, <2>2, <2>4, <2>5 DEF IInv, Asking
<1>3. CASE PageEnds
  <2> DEFINE m == t.mode
             so == t.sound
             N == NewTransfer(m, so)
             u == [N EXCEPT !.started = TRUE, !.finished = TRUE]
  <2>1. m \in {"mixed", "exclusive", "peer_only"} /\ so \in BOOLEAN
    BY <1>0 DEF SolidState
  <2>2. t' = u /\ page' = Over(page)
    BY <1>3 DEF PageEnds
  <2> HIDE DEF m, so
  <2>3. N \in SolidState /\ New(N)
    BY <2>1, NewFields
  <2> HIDE DEF N
  <2>4. /\ u \in SolidState /\ u.started /\ u.finished /\ u.ended = <<>> /\ u.live = {}
        /\ u.pending = {} /\ \A s \in Source : u.lane[s] = EmptyLane(FALSE)
    BY <2>3 DEF New, SolidState
  <2> HIDE DEF u
  <2>5. In(<<>>) = {} /\ Apart(<<>>) /\ Len(<<>>) <= 1
    BY DEF In, Apart
  <2>6. \A s \in Source : /\ u.lane[s].queue = <<>> /\ u.lane[s].flight = <<>>
                          /\ ~u.lane[s].retired /\ Held(u, s) = {} /\ Idle(u, s)
    BY <2>4, <2>5 DEF EmptyLane, Held, Idle
  <2>7. Sound(u)
    BY <2>4, <2>5, <2>6, SourceFacts DEF Sound, Fit, Lanes, Behind, Single, NoneLost
  <2>8. page' \in PageType /\ page'.over /\ page'.replies = <<>>
    <3> DEFINE e == <<>>
    <3>1. e \in Seq(Commands)
      OBVIOUS
    <3>2. page' = [page EXCEPT !.open = {}, !.fetching = 0, !.replies = e, !.over = TRUE]
      BY <2>2 DEF Over
    <3> HIDE DEF e
    <3>3. page \in PageType
      BY <1>0 DEF Tuned
    <3>4. page' \in PageType /\ page'.over /\ page'.replies = e
      BY <3>1, <3>2, <3>3 DEF PageType
    <3> QED
      BY <3>4 DEF e
  <2>9. (Tuned(page, t))'
    BY <2>8 DEF Tuned, Ending
  <2>10. (Sound(t))'
    BY <2>2, <2>7 DEF Sound, Fit, Lanes, Behind, Single, NoneLost, Held, Idle, Covered,
                      Unverified
  <2>11. (t \in SolidState)' /\ (t.started)' /\ t'.ended = <<>>
    BY <2>2, <2>4
  <2>12. IInv'
    BY <2>9, <2>10, <2>11 DEF IInv
  <2> QED
    BY <1>0, <2>11, <2>12
<1>4. CASE TimePasses
  <2>1. t' = [t EXCEPT !.due = TRUE] /\ page' = page
    BY <1>4 DEF TimePasses
  <2>2. /\ t' \in SolidState
        /\ t'.mode = t.mode /\ t'.finished = t.finished /\ t'.verified = t.verified
        /\ t'.lane = t.lane /\ t'.live = t.live /\ t'.pending = t.pending
        /\ t'.started = t.started /\ t'.ended = t.ended
    BY <1>0, <2>1 DEF SolidState
  <2>3. (Tuned(page, t))'
    BY <1>0, <2>1, <2>2 DEF Tuned, Ending, InStep, Once, Known, Opens, Fetches, Asks, Marks
  <2>4. ASSUME t.started PROVE (Sound(t))'
    <3>1. Sound(t)
      BY <2>4 DEF IInv
    <3> QED
      BY <2>2, <3>1 DEF Sound, Fit, Lanes, Behind, Single, NoneLost, Held, Idle, Covered,
                        Unverified
  <2>5. ~t.started => (New(t))'
    BY <2>2 DEF IInv, New
  <2> QED
    BY <1>0, <2>1, <2>2, <2>3, <2>4, <2>5 DEF IInv
<1>5. CASE UNCHANGED vars
  <2>1. t' = t /\ page' = page
    BY <1>5 DEF vars
  <2>2. (Tuned(page, t))'
    BY <1>0, <2>1 DEF Tuned, Ending, InStep, Once, Known, Opens, Fetches, Asks, Marks
  <2>3. ASSUME t.started PROVE (Sound(t))'
    <3>1. Sound(t)
      BY <2>3 DEF IInv
    <3> QED
      BY <2>1, <3>1 DEF Sound, Fit, Lanes, Behind, Single, NoneLost, Held, Idle, Covered,
                        Unverified
  <2>4. ~t.started => (New(t))'
    BY <2>1 DEF IInv, New
  <2> QED
    BY <1>0, <2>1, <2>2, <2>3, <2>4 DEF IInv
<1> QED
  BY <1>1, <1>2, <1>3, <1>4, <1>5

LEMMA NextSound ==
    ASSUME IInv, [Next]_vars
    PROVE  /\ IInv'
           /\ t.sound /\ t.mode # "peer_only" /\ t.ended = <<>> /\ t'.ended = <<"fail">>
                => OriginDelivers \/ OriginFails
<1>1. CASE Start
  BY <1>1, StartSound
<1>2. CASE \E p \in Peer : PeerDelivers(p) \/ PeerFails(p) \/ PeerFlows(p)
  <2>1. PICK p \in Peer : PeerDelivers(p) \/ PeerFails(p) \/ PeerFlows(p)
    BY <1>2
  <2> QED
    BY <2>1, PeerSound
<1>3. CASE OriginDelivers \/ OriginFails
  BY <1>3, OriginSound
<1>4. CASE TickNow \/ ReplyArrives \/ PageEnds \/ TimePasses \/ UNCHANGED vars
  BY <1>4, RestSound
<1> QED
  BY <1>1, <1>2, <1>3, <1>4 DEF Next

\* Every call of the page (start, an answer, a failure, progress, a tick) leaves
\* the core fit, with no piece lost, and the page and the worker's replies in
\* step with it: the invariant that all that follows rests on.
THEOREM InvariantHolds == Spec => []IInv
<1>1. IInv /\ [Next]_vars => IInv'
  BY NextSound
<1> QED
  BY <1>1, InitSound, PTL DEF Spec

\* The scheduler's lanes hold ranges of the object's pieces, its books are sets
\* of peers and pieces, and the page counts its fetches from zero.
THEOREM TypesHold == Spec => [](t \in TransferState /\ page \in PageState)
<1>1. IInv => t \in TransferState /\ page \in PageState
  <2> SUFFICES ASSUME IInv PROVE t \in TransferState /\ page \in PageState
    OBVIOUS
  <2>1. t \in SolidState /\ page \in PageType
    BY DEF IInv, Tuned
  <2>2. Seq(Solid) \subseteq Seq(PieceRange)
    BY SolidPieces
  <2>3. SolidLane \subseteq Lane
    BY <2>2 DEF SolidLane, Lane
  <2>4. t.lane \in [Source -> Lane]
    BY <2>1, <2>3 DEF SolidState
  <2> QED
    BY <2>1, <2>4 DEF SolidState, TransferState, PageType, PageState
<1> QED
  BY <1>1, InvariantHolds, PTL

\* Whatever fails, is retired or is split, assign and retire put a piece that
\* lost its source with another one, or among those that wait for the floor of
\* a peer-only transfer: no piece is forgotten, and none is invented.
THEOREM PiecesAreKept == Spec => []NothingForgotten
<1>1. IInv => NothingForgotten
  <2> SUFFICES ASSUME IInv, Running PROVE Piece = Covered(t) \cup t.pending
    BY DEF NothingForgotten
  <2>1. t \in SolidState /\ ~t.finished /\ NoneLost(t)
    BY DEF IInv, Running, Sound
  <2>2. \A s \in Source : Held(t, s) \in SUBSET Piece
    <3> SUFFICES ASSUME NEW s \in Source PROVE Held(t, s) \in SUBSET Piece
      OBVIOUS
    <3>1. t.lane[s].queue \in Seq(Solid) /\ t.lane[s].flight \in Seq(Solid)
      BY <2>1 DEF SolidState, SolidLane
    <3> QED
      BY <3>1, SolidPieces DEF Held
  <2>3. Covered(t) \cup t.pending \subseteq Piece
    BY <2>1, <2>2 DEF Covered, SolidState
  <2> QED
    BY <2>1, <2>3 DEF NoneLost
<1> QED
  BY <1>1, InvariantHolds, PTL

\* After each call of the scheduler no source has work queued and nothing in
\* flight, and a transfer with an origin that is not done has a request under
\* way: assign, retire and bad_piece issue whatever they queue.
THEOREM WorkIsUnderWay == Spec => []WorkMoves
<1>1. IInv => WorkMoves
  <2> SUFFICES ASSUME IInv, Running
               PROVE  /\ \A s \in Source : t.lane[s].queue # <<>> => t.lane[s].flight # <<>>
                      /\ t.mode # "peer_only" => \E s \in Source : t.lane[s].flight # <<>>
    BY DEF WorkMoves
  <2>1. Fit(t, {}) /\ NoneLost(t) /\ ~t.finished /\ Unverified(t) # {}
    BY DEF IInv, Running, Sound
  <2>2. \A s \in Source : t.lane[s].queue # <<>> => t.lane[s].flight # <<>>
    BY <2>1 DEF Fit, Behind
  <2>3. ASSUME t.mode # "peer_only" PROVE \E s \in Source : t.lane[s].flight # <<>>
    <3>1. t.pending = {}
      BY <2>1, <2>3 DEF Fit, Lanes
    <3> QED
      BY <2>1, <3>1, OrdinaryMoves
  <2> QED
    BY <2>2, <2>3
<1> QED
  BY <1>1, InvariantHolds, PTL

\* The commands the shell takes from the core, those that a worker is still to
\* post included, leave it with one open request for each peer the core has in
\* flight, and as many origin fetches: each cancel meets the request it is
\* meant for, and none is left open or withdrawn twice.
THEOREM CommandsMatch == Spec => []CancelsMatch
<1>1. IInv => CancelsMatch
  <2> SUFFICES ASSUME IInv PROVE CancelsMatch
    OBVIOUS
  <2>1. t.live = {p \in Peer : t.lane[p].flight # <<>>}
    <3>1. CASE t.started
      BY <3>1 DEF IInv, Sound, Fit, Lanes
    <3>2. CASE ~t.started
      <4>1. t.live = {} /\ \A s \in Source : t.lane[s] = EmptyLane(FALSE)
        BY <3>2 DEF IInv, New
      <4>2. \A p \in Peer : t.lane[p].flight = <<>>
        BY <4>1, SourceFacts DEF EmptyLane
      <4> QED
        BY <4>1, <4>2
    <3> QED
      BY <3>1, <3>2
  <2>2. Ending(page) \/ InStep(page, t)
    BY DEF IInv, Tuned
  <2>3. WillBeOpen = Opens(page)
    BY DEF WillBeOpen, Opens, Asks
  <2>4. WillFetch = Fetches(page)
    BY DEF WillFetch, Fetches, Marks
  <2> QED
    BY <2>1, <2>2, <2>3, <2>4 DEF CancelsMatch, Ending, InStep
<1> QED
  BY <1>1, InvariantHolds, PTL

\* With an exclusive origin a piece is with one source at a time, at the origin
\* too: a piece that a peer gives back is taken from it before assign hands it
\* on, and the repairs of the tail ask nobody twice.
THEOREM ExclusiveIsAlone == Spec => []OneFetchEach
<1>1. IInv => OneFetchEach
  <2> SUFFICES ASSUME IInv, t.mode = "exclusive", NEW s \in Source, NEW u \in Source, s # u
               PROVE  Held(t, s) \cap Held(t, u) = {}
    BY DEF OneFetchEach
  <2>1. CASE t.started
    BY <2>1 DEF IInv, Sound, Fit, Single
  <2>2. CASE ~t.started
    BY <2>2 DEF IInv, New, EmptyLane, Held, In
  <2> QED
    BY <2>1, <2>2
<1> QED
  BY <1>1, InvariantHolds, PTL

\* A transfer of a sound object that has an origin fails in the step in which
\* the origin answers or fails, and in no other: no bad piece, failure or
\* silence of a peer, no tick and no start of it ends it.
THEOREM PeersDoNotFailIt == Spec => OnlyOriginFailsIt
<1>1. IInv /\ [Next]_vars =>
        [t.sound /\ t.mode # "peer_only" /\ t.ended = <<>> /\ t'.ended = <<"fail">>
           => OriginDelivers \/ OriginFails]_vars
  BY NextSound
<1> QED
  BY <1>1, InvariantHolds, PTL DEF Spec, OnlyOriginFailsIt
=============================================================================
