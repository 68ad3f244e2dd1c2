-------------------------- MODULE SingleGameProofs --------------------------
(***************************************************************************)
(* What a single game guarantees on boards of every size, with any inputs  *)
(* and garbage in a tick: the server's board stays sound, and the client's *)
(* copy, rebuilt from packets only, is that board.                         *)
(***************************************************************************)
EXTENDS SingleGame, SequenceTheorems, WellFoundedInduction, TLAPS

Shape == {"I", "J", "L", "O", "S", "T", "Z"}

\* A piece that is dealt, anywhere, in a rotation that it has.
Placed == {p \in [type : Pieces, x : Int, y : Int, rot : Nat] : p.rot < Len(TETROMINOS[p.type])}

Board == [RowSet -> SUBSET ColSet]

----------------------------------------------------------------------------
(* The tables of shapes. *)

\* The cells of one rotation: in a square of four, one of them in the upper two rows, and
\* either in three columns or in one row.
Shaped(cells) ==
  /\ cells \subseteq (0..3) \X (0..3)
  /\ \E c \in cells : c[2] <= 1
  /\ (\A c \in cells : c[1] <= 2) \/ (\A c \in cells : c[2] = 1)

\* Four cells of that kind.
LEMMA FourCells ==
  ASSUME NEW c1 \in (0..3) \X (0..3), NEW c2 \in (0..3) \X (0..3),
         NEW c3 \in (0..3) \X (0..3), NEW c4 \in (0..3) \X (0..3),
         c1[2] <= 1 \/ c2[2] <= 1 \/ c3[2] <= 1 \/ c4[2] <= 1,
         \/ c1[1] <= 2 /\ c2[1] <= 2 /\ c3[1] <= 2 /\ c4[1] <= 2
         \/ c1[2] = 1 /\ c2[2] = 1 /\ c3[2] = 1 /\ c4[2] = 1
  PROVE  Shaped({c1, c2, c3, c4})
  BY DEF Shaped

\* Every rotation of every shape.
LEMMA ShapesShaped ==
  ASSUME NEW k \in Shape
  PROVE  /\ Len(TETROMINOS[k]) \in 1..4
         /\ \A i \in 1..Len(TETROMINOS[k]) : Shaped(TETROMINOS[k][i])
  <1> DEFINE tI == << {<<0,1>>,<<1,1>>,<<2,1>>,<<3,1>>}, {<<2,0>>,<<2,1>>,<<2,2>>,<<2,3>>} >>
             tJ == << {<<0,0>>,<<0,1>>,<<1,1>>,<<2,1>>}, {<<1,0>>,<<2,0>>,<<1,1>>,<<1,2>>},
                     {<<0,1>>,<<1,1>>,<<2,1>>,<<2,2>>}, {<<1,0>>,<<1,1>>,<<0,2>>,<<1,2>>} >>
             tL == << {<<2,0>>,<<0,1>>,<<1,1>>,<<2,1>>}, {<<1,0>>,<<1,1>>,<<1,2>>,<<2,2>>},
                     {<<0,1>>,<<1,1>>,<<2,1>>,<<0,2>>}, {<<0,0>>,<<1,0>>,<<1,1>>,<<1,2>>} >>
             tO == << {<<1,0>>,<<2,0>>,<<1,1>>,<<2,1>>} >>
             tS == << {<<1,1>>,<<2,1>>,<<0,2>>,<<1,2>>}, {<<1,0>>,<<1,1>>,<<2,1>>,<<2,2>>} >>
             tT == << {<<1,0>>,<<0,1>>,<<1,1>>,<<2,1>>}, {<<1,0>>,<<1,1>>,<<2,1>>,<<1,2>>},
                     {<<0,1>>,<<1,1>>,<<2,1>>,<<1,2>>}, {<<1,0>>,<<0,1>>,<<1,1>>,<<1,2>>} >>
             tZ == << {<<0,1>>,<<1,1>>,<<1,2>>,<<2,2>>}, {<<2,0>>,<<1,1>>,<<2,1>>,<<1,2>>} >>
  <1>0. TETROMINOS = [I |-> tI, J |-> tJ, L |-> tL, O |-> tO, S |-> tS, T |-> tT, Z |-> tZ]
    BY DEF TETROMINOS
  <1> HIDE DEF tI, tJ, tL, tO, tS, tT, tZ
  <1>1. CASE k = "I"
    <2> DEFINE s1 == {<<0,1>>,<<1,1>>,<<2,1>>,<<3,1>>}
               s2 == {<<2,0>>,<<2,1>>,<<2,2>>,<<2,3>>}
    <2>1. TETROMINOS[k] = tI
      BY <1>0, <1>1
    <2>2. Shaped(s1)
      <3> DEFINE c1 == <<0,1>>
                 c2 == <<1,1>>
                 c3 == <<2,1>>
                 c4 == <<3,1>>
      <3>1. /\ c1 \in (0..3) \X (0..3) /\ c2 \in (0..3) \X (0..3)
            /\ c3 \in (0..3) \X (0..3) /\ c4 \in (0..3) \X (0..3)
            /\ c1[2] <= 1 /\ c1[2] = 1 /\ c2[2] = 1 /\ c3[2] = 1 /\ c4[2] = 1
        OBVIOUS
      <3> HIDE DEF c1, c2, c3, c4
      <3>2. Shaped({c1, c2, c3, c4})
        BY <3>1, FourCells
      <3> QED
        BY <3>2 DEF c1, c2, c3, c4
    <2>3. Shaped(s2)
      <3> DEFINE c1 == <<2,0>>
                 c2 == <<2,1>>
                 c3 == <<2,2>>
                 c4 == <<2,3>>
      <3>1. /\ c1 \in (0..3) \X (0..3) /\ c2 \in (0..3) \X (0..3)
            /\ c3 \in (0..3) \X (0..3) /\ c4 \in (0..3) \X (0..3)
            /\ c1[2] <= 1 /\ c1[1] <= 2 /\ c2[1] <= 2 /\ c3[1] <= 2 /\ c4[1] <= 2
        OBVIOUS
      <3> HIDE DEF c1, c2, c3, c4
      <3>2. Shaped({c1, c2, c3, c4})
        BY <3>1, FourCells
      <3> QED
        BY <3>2 DEF c1, c2, c3, c4
    <2>4. tI = <<s1, s2>>
      BY DEF tI
    <2> HIDE DEF s1, s2
    <2> QED
      BY <2>1, <2>2, <2>3, <2>4
  <1>2. CASE k = "J"
    <2> DEFINE s1 == {<<0,0>>,<<0,1>>,<<1,1>>,<<2,1>>}
               s2 == {<<1,0>>,<<2,0>>,<<1,1>>,<<1,2>>}
               s3 == {<<0,1>>,<<1,1>>,<<2,1>>,<<2,2>>}
               s4 == {<<1,0>>,<<1,1>>,<<0,2>>,<<1,2>>}
    <2>1. TETROMINOS[k] = tJ
      BY <1>0, <1>2
    <2>2. Shaped(s1)
      <3> DEFINE c1 == <<0,0>>
                 c2 == <<0,1>>
                 c3 == <<1,1>>
                 c4 == <<2,1>>
      <3>1. /\ c1 \in (0..3) \X (0..3) /\ c2 \in (0..3) \X (0..3)
            /\ c3 \in (0..3) \X (0..3) /\ c4 \in (0..3) \X (0..3)
            /\ c1[2] <= 1 /\ c1[1] <= 2 /\ c2[1] <= 2 /\ c3[1] <= 2 /\ c4[1] <= 2
        OBVIOUS
      <3> HIDE DEF c1, c2, c3, c4
      <3>2. Shaped({c1, c2, c3, c4})
        BY <3>1, FourCells
      <3> QED
        BY <3>2 DEF c1, c2, c3, c4
    <2>3. Shaped(s2)
      <3> DEFINE c1 == <<1,0>>
                 c2 == <<2,0>>
                 c3 == <<1,1>>
                 c4 == <<1,2>>
      <3>1. /\ c1 \in (0..3) \X (0..3) /\ c2 \in (0..3) \X (0..3)
            /\ c3 \in (0..3) \X (0..3) /\ c4 \in (0..3) \X (0..3)
            /\ c1[2] <= 1 /\ c1[1] <= 2 /\ c2[1] <= 2 /\ c3[1] <= 2 /\ c4[1] <= 2
        OBVIOUS
      <3> HIDE DEF c1, c2, c3, c4
      <3>2. Shaped({c1, c2, c3, c4})
        BY <3>1, FourCells
      <3> QED
        BY <3>2 DEF c1, c2, c3, c4
    <2>4. Shaped(s3)
      <3> DEFINE c1 == <<0,1>>
                 c2 == <<1,1>>
                 c3 == <<2,1>>
                 c4 == <<2,2>>
      <3>1. /\ c1 \in (0..3) \X (0..3) /\ c2 \in (0..3) \X (0..3)
            /\ c3 \in (0..3) \X (0..3) /\ c4 \in (0..3) \X (0..3)
            /\ c1[2] <= 1 /\ c1[1] <= 2 /\ c2[1] <= 2 /\ c3[1] <= 2 /\ c4[1] <= 2
        OBVIOUS
      <3> HIDE DEF c1, c2, c3, c4
      <3>2. Shaped({c1, c2, c3, c4})
        BY <3>1, FourCells
      <3> QED
        BY <3>2 DEF c1, c2, c3, c4
    <2>5. Shaped(s4)
      <3> DEFINE c1 == <<1,0>>
                 c2 == <<1,1>>
                 c3 == <<0,2>>
                 c4 == <<1,2>>
      <3>1. /\ c1 \in (0..3) \X (0..3) /\ c2 \in (0..3) \X (0..3)
            /\ c3 \in (0..3) \X (0..3) /\ c4 \in (0..3) \X (0..3)
            /\ c1[2] <= 1 /\ c1[1] <= 2 /\ c2[1] <= 2 /\ c3[1] <= 2 /\ c4[1] <= 2
        OBVIOUS
      <3> HIDE DEF c1, c2, c3, c4
      <3>2. Shaped({c1, c2, c3, c4})
        BY <3>1, FourCells
      <3> QED
        BY <3>2 DEF c1, c2, c3, c4
    <2>6. tJ = <<s1, s2, s3, s4>>
      BY DEF tJ
    <2> HIDE DEF s1, s2, s3, s4
    <2> QED
      BY <2>1, <2>2, <2>3, <2>4, <2>5, <2>6
  <1>3. CASE k = "L"
    <2> DEFINE s1 == {<<2,0>>,<<0,1>>,<<1,1>>,<<2,1>>}
               s2 == {<<1,0>>,<<1,1>>,<<1,2>>,<<2,2>>}
               s3 == {<<0,1>>,<<1,1>>,<<2,1>>,<<0,2>>}
               s4 == {<<0,0>>,<<1,0>>,<<1,1>>,<<1,2>>}
    <2>1. TETROMINOS[k] = tL
      BY <1>0, <1>3
    <2>2. Shaped(s1)
      <3> DEFINE c1 == <<2,0>>
                 c2 == <<0,1>>
                 c3 == <<1,1>>
                 c4 == <<2,1>>
      <3>1. /\ c1 \in (0..3) \X (0..3) /\ c2 \in (0..3) \X (0..3)
            /\ c3 \in (0..3) \X (0..3) /\ c4 \in (0..3) \X (0..3)
            /\ c1[2] <= 1 /\ c1[1] <= 2 /\ c2[1] <= 2 /\ c3[1] <= 2 /\ c4[1] <= 2
        OBVIOUS
      <3> HIDE DEF c1, c2, c3, c4
      <3>2. Shaped({c1, c2, c3, c4})
        BY <3>1, FourCells
      <3> QED
        BY <3>2 DEF c1, c2, c3, c4
    <2>3. Shaped(s2)
      <3> DEFINE c1 == <<1,0>>
                 c2 == <<1,1>>
                 c3 == <<1,2>>
                 c4 == <<2,2>>
      <3>1. /\ c1 \in (0..3) \X (0..3) /\ c2 \in (0..3) \X (0..3)
            /\ c3 \in (0..3) \X (0..3) /\ c4 \in (0..3) \X (0..3)
            /\ c1[2] <= 1 /\ c1[1] <= 2 /\ c2[1] <= 2 /\ c3[1] <= 2 /\ c4[1] <= 2
        OBVIOUS
      <3> HIDE DEF c1, c2, c3, c4
      <3>2. Shaped({c1, c2, c3, c4})
        BY <3>1, FourCells
      <3> QED
        BY <3>2 DEF c1, c2, c3, c4
    <2>4. Shaped(s3)
      <3> DEFINE c1 == <<0,1>>
                 c2 == <<1,1>>
                 c3 == <<2,1>>
                 c4 == <<0,2>>
      <3>1. /\ c1 \in (0..3) \X (0..3) /\ c2 \in (0..3) \X (0..3)
            /\ c3 \in (0..3) \X (0..3) /\ c4 \in (0..3) \X (0..3)
            /\ c1[2] <= 1 /\ c1[1] <= 2 /\ c2[1] <= 2 /\ c3[1] <= 2 /\ c4[1] <= 2
        OBVIOUS
      <3> HIDE DEF c1, c2, c3, c4
      <3>2. Shaped({c1, c2, c3, c4})
        BY <3>1, FourCells
      <3> QED
        BY <3>2 DEF c1, c2, c3, c4
    <2>5. Shaped(s4)
      <3> DEFINE c1 == <<0,0>>
                 c2 == <<1,0>>
                 c3 == <<1,1>>
                 c4 == <<1,2>>
      <3>1. /\ c1 \in (0..3) \X (0..3) /\ c2 \in (0..3) \X (0..3)
            /\ c3 \in (0..3) \X (0..3) /\ c4 \in (0..3) \X (0..3)
            /\ c1[2] <= 1 /\ c1[1] <= 2 /\ c2[1] <= 2 /\ c3[1] <= 2 /\ c4[1] <= 2
        OBVIOUS
      <3> HIDE DEF c1, c2, c3, c4
      <3>2. Shaped({c1, c2, c3, c4})
        BY <3>1, FourCells
      <3> QED
        BY <3>2 DEF c1, c2, c3, c4
    <2>6. tL = <<s1, s2, s3, s4>>
      BY DEF tL
    <2> HIDE DEF s1, s2, s3, s4
    <2> QED
      BY <2>1, <2>2, <2>3, <2>4, <2>5, <2>6
  <1>4. CASE k = "O"
    <2> DEFINE s1 == {<<1,0>>,<<2,0>>,<<1,1>>,<<2,1>>}
    <2>1. TETROMINOS[k] = tO
      BY <1>0, <1>4
    <2>2. Shaped(s1)
      <3> DEFINE c1 == <<1,0>>
                 c2 == <<2,0>>
                 c3 == <<1,1>>
                 c4 == <<2,1>>
      <3>1. /\ c1 \in (0..3) \X (0..3) /\ c2 \in (0..3) \X (0..3)
            /\ c3 \in (0..3) \X (0..3) /\ c4 \in (0..3) \X (0..3)
            /\ c1[2] <= 1 /\ c1[1] <= 2 /\ c2[1] <= 2 /\ c3[1] <= 2 /\ c4[1] <= 2
        OBVIOUS
      <3> HIDE DEF c1, c2, c3, c4
      <3>2. Shaped({c1, c2, c3, c4})
        BY <3>1, FourCells
      <3> QED
        BY <3>2 DEF c1, c2, c3, c4
    <2>3. tO = <<s1>>
      BY DEF tO
    <2> HIDE DEF s1
    <2> QED
      BY <2>1, <2>2, <2>3
  <1>5. CASE k = "S"
    <2> DEFINE s1 == {<<1,1>>,<<2,1>>,<<0,2>>,<<1,2>>}
               s2 == {<<1,0>>,<<1,1>>,<<2,1>>,<<2,2>>}
    <2>1. TETROMINOS[k] = tS
      BY <1>0, <1>5
    <2>2. Shaped(s1)
      <3> DEFINE c1 == <<1,1>>
                 c2 == <<2,1>>
                 c3 == <<0,2>>
                 c4 == <<1,2>>
      <3>1. /\ c1 \in (0..3) \X (0..3) /\ c2 \in (0..3) \X (0..3)
            /\ c3 \in (0..3) \X (0..3) /\ c4 \in (0..3) \X (0..3)
            /\ c1[2] <= 1 /\ c1[1] <= 2 /\ c2[1] <= 2 /\ c3[1] <= 2 /\ c4[1] <= 2
        OBVIOUS
      <3> HIDE DEF c1, c2, c3, c4
      <3>2. Shaped({c1, c2, c3, c4})
        BY <3>1, FourCells
      <3> QED
        BY <3>2 DEF c1, c2, c3, c4
    <2>3. Shaped(s2)
      <3> DEFINE c1 == <<1,0>>
                 c2 == <<1,1>>
                 c3 == <<2,1>>
                 c4 == <<2,2>>
      <3>1. /\ c1 \in (0..3) \X (0..3) /\ c2 \in (0..3) \X (0..3)
            /\ c3 \in (0..3) \X (0..3) /\ c4 \in (0..3) \X (0..3)
            /\ c1[2] <= 1 /\ c1[1] <= 2 /\ c2[1] <= 2 /\ c3[1] <= 2 /\ c4[1] <= 2
        OBVIOUS
      <3> HIDE DEF c1, c2, c3, c4
      <3>2. Shaped({c1, c2, c3, c4})
        BY <3>1, FourCells
      <3> QED
        BY <3>2 DEF c1, c2, c3, c4
    <2>4. tS = <<s1, s2>>
      BY DEF tS
    <2> HIDE DEF s1, s2
    <2> QED
      BY <2>1, <2>2, <2>3, <2>4
  <1>6. CASE k = "T"
    <2> DEFINE s1 == {<<1,0>>,<<0,1>>,<<1,1>>,<<2,1>>}
               s2 == {<<1,0>>,<<1,1>>,<<2,1>>,<<1,2>>}
               s3 == {<<0,1>>,<<1,1>>,<<2,1>>,<<1,2>>}
               s4 == {<<1,0>>,<<0,1>>,<<1,1>>,<<1,2>>}
    <2>1. TETROMINOS[k] = tT
      BY <1>0, <1>6
    <2>2. Shaped(s1)
      <3> DEFINE c1 == <<1,0>>
                 c2 == <<0,1>>
                 c3 == <<1,1>>
                 c4 == <<2,1>>
      <3>1. /\ c1 \in (0..3) \X (0..3) /\ c2 \in (0..3) \X (0..3)
            /\ c3 \in (0..3) \X (0..3) /\ c4 \in (0..3) \X (0..3)
            /\ c1[2] <= 1 /\ c1[1] <= 2 /\ c2[1] <= 2 /\ c3[1] <= 2 /\ c4[1] <= 2
        OBVIOUS
      <3> HIDE DEF c1, c2, c3, c4
      <3>2. Shaped({c1, c2, c3, c4})
        BY <3>1, FourCells
      <3> QED
        BY <3>2 DEF c1, c2, c3, c4
    <2>3. Shaped(s2)
      <3> DEFINE c1 == <<1,0>>
                 c2 == <<1,1>>
                 c3 == <<2,1>>
                 c4 == <<1,2>>
      <3>1. /\ c1 \in (0..3) \X (0..3) /\ c2 \in (0..3) \X (0..3)
            /\ c3 \in (0..3) \X (0..3) /\ c4 \in (0..3) \X (0..3)
            /\ c1[2] <= 1 /\ c1[1] <= 2 /\ c2[1] <= 2 /\ c3[1] <= 2 /\ c4[1] <= 2
        OBVIOUS
      <3> HIDE DEF c1, c2, c3, c4
      <3>2. Shaped({c1, c2, c3, c4})
        BY <3>1, FourCells
      <3> QED
        BY <3>2 DEF c1, c2, c3, c4
    <2>4. Shaped(s3)
      <3> DEFINE c1 == <<0,1>>
                 c2 == <<1,1>>
                 c3 == <<2,1>>
                 c4 == <<1,2>>
      <3>1. /\ c1 \in (0..3) \X (0..3) /\ c2 \in (0..3) \X (0..3)
            /\ c3 \in (0..3) \X (0..3) /\ c4 \in (0..3) \X (0..3)
            /\ c1[2] <= 1 /\ c1[1] <= 2 /\ c2[1] <= 2 /\ c3[1] <= 2 /\ c4[1] <= 2
        OBVIOUS
      <3> HIDE DEF c1, c2, c3, c4
      <3>2. Shaped({c1, c2, c3, c4})
        BY <3>1, FourCells
      <3> QED
        BY <3>2 DEF c1, c2, c3, c4
    <2>5. Shaped(s4)
      <3> DEFINE c1 == <<1,0>>
                 c2 == <<0,1>>
                 c3 == <<1,1>>
                 c4 == <<1,2>>
      <3>1. /\ c1 \in (0..3) \X (0..3) /\ c2 \in (0..3) \X (0..3)
            /\ c3 \in (0..3) \X (0..3) /\ c4 \in (0..3) \X (0..3)
            /\ c1[2] <= 1 /\ c1[1] <= 2 /\ c2[1] <= 2 /\ c3[1] <= 2 /\ c4[1] <= 2
        OBVIOUS
      <3> HIDE DEF c1, c2, c3, c4
      <3>2. Shaped({c1, c2, c3, c4})
        BY <3>1, FourCells
      <3> QED
        BY <3>2 DEF c1, c2, c3, c4
    <2>6. tT = <<s1, s2, s3, s4>>
      BY DEF tT
    <2> HIDE DEF s1, s2, s3, s4
    <2> QED
      BY <2>1, <2>2, <2>3, <2>4, <2>5, <2>6
  <1>7. CASE k = "Z"
    <2> DEFINE s1 == {<<0,1>>,<<1,1>>,<<1,2>>,<<2,2>>}
               s2 == {<<2,0>>,<<1,1>>,<<2,1>>,<<1,2>>}
    <2>1. TETROMINOS[k] = tZ
      BY <1>0, <1>7
    <2>2. Shaped(s1)
      <3> DEFINE c1 == <<0,1>>
                 c2 == <<1,1>>
                 c3 == <<1,2>>
                 c4 == <<2,2>>
      <3>1. /\ c1 \in (0..3) \X (0..3) /\ c2 \in (0..3) \X (0..3)
            /\ c3 \in (0..3) \X (0..3) /\ c4 \in (0..3) \X (0..3)
            /\ c1[2] <= 1 /\ c1[1] <= 2 /\ c2[1] <= 2 /\ c3[1] <= 2 /\ c4[1] <= 2
        OBVIOUS
      <3> HIDE DEF c1, c2, c3, c4
      <3>2. Shaped({c1, c2, c3, c4})
        BY <3>1, FourCells
      <3> QED
        BY <3>2 DEF c1, c2, c3, c4
    <2>3. Shaped(s2)
      <3> DEFINE c1 == <<2,0>>
                 c2 == <<1,1>>
                 c3 == <<2,1>>
                 c4 == <<1,2>>
      <3>1. /\ c1 \in (0..3) \X (0..3) /\ c2 \in (0..3) \X (0..3)
            /\ c3 \in (0..3) \X (0..3) /\ c4 \in (0..3) \X (0..3)
            /\ c1[2] <= 1 /\ c1[1] <= 2 /\ c2[1] <= 2 /\ c3[1] <= 2 /\ c4[1] <= 2
        OBVIOUS
      <3> HIDE DEF c1, c2, c3, c4
      <3>2. Shaped({c1, c2, c3, c4})
        BY <3>1, FourCells
      <3> QED
        BY <3>2 DEF c1, c2, c3, c4
    <2>4. tZ = <<s1, s2>>
      BY DEF tZ
    <2> HIDE DEF s1, s2
    <2> QED
      BY <2>1, <2>2, <2>3, <2>4
  <1> QED
    BY <1>1, <1>2, <1>3, <1>4, <1>5, <1>6, <1>7 DEF Shape

\* Server and client use the same table.
LEMMA TablesAgree == SHAPES = TETROMINOS
  BY DEF SHAPES, TETROMINOS

----------------------------------------------------------------------------
(* Sizes and pieces. *)

\* The sizes, and the rows and columns they make.
LEMMA SizeFacts ==
  /\ Cols \in Nat /\ Cols >= 4 /\ Visible \in Nat /\ Visible >= 1 /\ Hidden \in Nat /\ Hidden >= 5
  /\ Rows \in Nat /\ Rows = Hidden + Visible /\ SpawnX \in Nat /\ SpawnX + 4 <= Cols
  /\ RowSet = 0..(Rows - 1) /\ ColSet = 0..(Cols - 1) /\ HoleCols \subseteq ColSet
  BY GameAssumption DEF Rows, RowSet, ColSet

\* The fields of a placed piece and the shape of its cells.
LEMMA PieceFacts ==
  ASSUME NEW p \in Placed
  PROVE  /\ p.type \in Shape /\ p.type \in Pieces /\ p.x \in Int /\ p.y \in Int /\ p.rot \in 0..3
         /\ p = [type |-> p.type, x |-> p.x, y |-> p.y, rot |-> p.rot]
         /\ p.rot + 1 \in 1..Len(TETROMINOS[p.type])
         /\ Shaped(TETROMINOS[p.type][p.rot + 1])
         /\ p # NoPiece
  <1>1. p.type \in Pieces /\ p.x \in Int /\ p.y \in Int /\ p.rot \in Nat /\ p.rot < Len(TETROMINOS[p.type])
    BY DEF Placed
  <1>2. p = [type |-> p.type, x |-> p.x, y |-> p.y, rot |-> p.rot]
    BY DEF Placed
  <1>3. p.type \in Shape
    BY <1>1, GameAssumption DEF Pieces, Shape
  <1>4. Len(TETROMINOS[p.type]) \in 1..4
    BY <1>3, ShapesShaped
  <1>5. p.rot + 1 \in 1..Len(TETROMINOS[p.type]) /\ p.rot \in 0..3
    <2> DEFINE n == Len(TETROMINOS[p.type])
    <2>1. n \in 1..4 /\ p.rot < n
      BY <1>1, <1>4
    <2> HIDE DEF n
    <2>2. p.rot + 1 \in 1..n /\ p.rot \in 0..3
      BY <1>1, <2>1
    <2> QED
      BY <2>2 DEF n
  <1>6. Shaped(TETROMINOS[p.type][p.rot + 1])
    BY <1>3, <1>5, ShapesShaped
  <1>7. p.type # "none"
    BY <1>3 DEF Shape
  <1>8. p # NoPiece
    BY <1>7 DEF NoPiece
  <1> QED
    BY <1>1, <1>2, <1>3, <1>5, <1>6, <1>8

\* A piece may be moved anywhere, rotated, and dealt.
LEMMA PieceMoves ==
  ASSUME NEW p \in Placed
  PROVE  /\ \A x, y \in Int : [p EXCEPT !.x = x, !.y = y] \in Placed
         /\ \A y \in Int : [p EXCEPT !.y = y] \in Placed
         /\ \A m \in {"RIGHT", "LEFT", "DOWN", "UP"} : Shifted(p, m) \in Placed
         /\ Rotated(TETROMINOS, p) \in Placed
  <1>1. /\ p.type \in Shape /\ p.type \in Pieces /\ p.x \in Int /\ p.y \in Int /\ p.rot \in Nat
        /\ p = [type |-> p.type, x |-> p.x, y |-> p.y, rot |-> p.rot]
        /\ p.rot < Len(TETROMINOS[p.type]) /\ Len(TETROMINOS[p.type]) \in 1..4
    BY PieceFacts, ShapesShaped DEF Placed
  <1>2. \A x, y \in Int : [p EXCEPT !.x = x, !.y = y] \in Placed
    BY <1>1 DEF Placed
  <1>3. \A y \in Int : [p EXCEPT !.y = y] \in Placed
    BY <1>1 DEF Placed
  <1>4. \A x \in Int : [p EXCEPT !.x = x] \in Placed
    BY <1>1 DEF Placed
  <1>5. \A m \in {"RIGHT", "LEFT", "DOWN", "UP"} : Shifted(p, m) \in Placed
    <2>1. p.x + 1 \in Int /\ p.x - 1 \in Int /\ p.y + 1 \in Int /\ p.y - 1 \in Int
      BY <1>1
    <2>2. Shifted(p, "RIGHT") \in Placed
      BY <1>4, <2>1 DEF Shifted
    <2>3. Shifted(p, "LEFT") \in Placed
      BY <1>4, <2>1 DEF Shifted
    <2>4. Shifted(p, "DOWN") \in Placed
      BY <1>3, <2>1 DEF Shifted
    <2>5. Shifted(p, "UP") \in Placed
      BY <1>3, <2>1 DEF Shifted
    <2> QED
      BY <2>2, <2>3, <2>4, <2>5
  <1>6. Rotated(TETROMINOS, p) \in Placed
    <2> DEFINE n == Len(TETROMINOS[p.type])
               r == (p.rot + 1) % n
    <2>1. n \in Nat /\ n >= 1
      BY <1>1
    <2> HIDE DEF n
    <2>2. r \in Nat /\ r < n
      BY <1>1, <2>1
    <2> HIDE DEF r
    <2>3. [p EXCEPT !.rot = r] \in Placed
      BY <1>1, <2>2 DEF Placed, n
    <2> QED
      BY <2>3 DEF Rotated, r, n
  <1> QED
    BY <1>2, <1>3, <1>5, <1>6

\* A piece that is dealt is a placed one.
LEMMA SpawnedIs ==
  ASSUME NEW k \in Pieces
  PROVE  Spawned(k) \in Placed
  <1>1. k \in Shape
    BY GameAssumption DEF Pieces, Shape
  <1>2. Len(TETROMINOS[k]) \in 1..4
    BY <1>1, ShapesShaped
  <1> DEFINE n == Len(TETROMINOS[k])
  <1>3. 0 < n /\ SpawnX \in Int
    BY <1>2, SizeFacts
  <1>4. Spawned(k) \in [type : Pieces, x : Int, y : Int, rot : Nat] /\ Spawned(k).rot = 0 /\ Spawned(k).type = k
    BY <1>3 DEF Spawned
  <1> QED
    BY <1>3, <1>4 DEF Placed

\* The cells of a piece lie in the square of four at its place.
LEMMA CellFacts ==
  ASSUME NEW p \in Placed
  PROVE  /\ \A c \in CellsOf(TETROMINOS, p) :
              /\ c = <<c[1], c[2]>> /\ c[1] \in p.x..(p.x + 3) /\ c[2] \in p.y..(p.y + 3)
         /\ \E c \in CellsOf(TETROMINOS, p) : c[2] <= p.y + 1
         /\ \/ \A c \in CellsOf(TETROMINOS, p) : c[1] <= p.x + 2
            \/ \A c \in CellsOf(TETROMINOS, p) : c[2] = p.y + 1
  <1> DEFINE S == TETROMINOS[p.type][p.rot + 1]
  <1>1. p.x \in Int /\ p.y \in Int /\ Shaped(S)
    BY PieceFacts
  <1>2. CellsOf(TETROMINOS, p) = {<<p.x + c[1], p.y + c[2]>> : c \in S}
    BY DEF CellsOf
  <1> HIDE DEF S
  <1>3. \A c \in S : c[1] \in 0..3 /\ c[2] \in 0..3
    BY <1>1 DEF Shaped
  <1>4. \A c \in CellsOf(TETROMINOS, p) : \E d \in S : c = <<p.x + d[1], p.y + d[2]>>
    BY <1>2
  <1>5. \A d \in S : <<p.x + d[1], p.y + d[2]>> \in CellsOf(TETROMINOS, p)
    BY <1>2
  <1>6. \A c \in CellsOf(TETROMINOS, p) :
              /\ c = <<c[1], c[2]>> /\ c[1] \in p.x..(p.x + 3) /\ c[2] \in p.y..(p.y + 3)
    <2> SUFFICES ASSUME NEW c \in CellsOf(TETROMINOS, p)
                 PROVE  c = <<c[1], c[2]>> /\ c[1] \in p.x..(p.x + 3) /\ c[2] \in p.y..(p.y + 3)
      OBVIOUS
    <2>1. PICK d \in S : c = <<p.x + d[1], p.y + d[2]>>
      BY <1>4
    <2>2. c[1] = p.x + d[1] /\ c[2] = p.y + d[2] /\ d[1] \in 0..3 /\ d[2] \in 0..3
      BY <2>1, <1>3
    <2> QED
      BY <2>1, <2>2, <1>1
  <1>7. \E c \in CellsOf(TETROMINOS, p) : c[2] <= p.y + 1
    <2>1. PICK d \in S : d[2] <= 1
      BY <1>1 DEF Shaped
    <2> DEFINE c == <<p.x + d[1], p.y + d[2]>>
    <2>2. c \in CellsOf(TETROMINOS, p) /\ c[2] <= p.y + 1
      BY <1>1, <1>3, <1>5, <2>1
    <2> QED
      BY <2>2
  <1>8. \/ \A c \in CellsOf(TETROMINOS, p) : c[1] <= p.x + 2
        \/ \A c \in CellsOf(TETROMINOS, p) : c[2] = p.y + 1
    <2>1. CASE \A d \in S : d[1] <= 2
      <3> SUFFICES ASSUME NEW c \in CellsOf(TETROMINOS, p) PROVE c[1] <= p.x + 2
        OBVIOUS
      <3>1. PICK d \in S : c = <<p.x + d[1], p.y + d[2]>>
        BY <1>4
      <3> QED
        BY <3>1, <2>1, <1>1, <1>3
    <2>2. CASE \A d \in S : d[2] = 1
      <3> SUFFICES ASSUME NEW c \in CellsOf(TETROMINOS, p) PROVE c[2] = p.y + 1
        OBVIOUS
      <3>1. PICK d \in S : c = <<p.x + d[1], p.y + d[2]>>
        BY <1>4
      <3> QED
        BY <3>1, <2>2, <1>1, <1>3
    <2> QED
      BY <2>1, <2>2, <1>1 DEF Shaped
  <1> QED
    BY <1>6, <1>7, <1>8

\* A piece that is moved takes its cells along.
LEMMA CellsMove ==
  ASSUME NEW p \in Placed, NEW q \in Placed, p.type = q.type, p.rot = q.rot,
         NEW c \in CellsOf(TETROMINOS, q)
  PROVE  <<c[1] + (p.x - q.x), c[2] + (p.y - q.y)>> \in CellsOf(TETROMINOS, p)
  <1> DEFINE S == TETROMINOS[q.type][q.rot + 1]
  <1>1. p.x \in Int /\ p.y \in Int /\ q.x \in Int /\ q.y \in Int /\ Shaped(S)
    BY PieceFacts
  <1>2. /\ CellsOf(TETROMINOS, p) = {<<p.x + d[1], p.y + d[2]>> : d \in S}
        /\ CellsOf(TETROMINOS, q) = {<<q.x + d[1], q.y + d[2]>> : d \in S}
    BY DEF CellsOf
  <1> HIDE DEF S
  <1>3. PICK d \in S : c = <<q.x + d[1], q.y + d[2]>>
    BY <1>2
  <1>4. d[1] \in Int /\ d[2] \in Int
    BY <1>1 DEF Shaped
  <1>5. c[1] + (p.x - q.x) = p.x + d[1] /\ c[2] + (p.y - q.y) = p.y + d[2]
    BY <1>1, <1>3, <1>4
  <1>6. <<p.x + d[1], p.y + d[2]>> \in CellsOf(TETROMINOS, p)
    BY <1>2
  <1> QED
    BY <1>5, <1>6

----------------------------------------------------------------------------
(* Counting, greatest numbers and loops. *)

\* What holds at 0 and goes on from each number to the next holds everywhere.
LEMMA CountUp ==
  ASSUME NEW S, 0 \in S, \A n \in Nat : n \in S => n + 1 \in S
  PROVE  Nat \subseteq S
  <1> DEFINE T == Nat \ S
  <1>1. SUFFICES ASSUME T # {} PROVE FALSE
    OBVIOUS
  <1>2. T \subseteq Nat
    OBVIOUS
  <1>3. \E n \in T : \A m \in T : ~(<<m, n>> \in OpToRel(<, Nat))
    <2> HIDE DEF T
    <2> QED
      BY <1>1, <1>2, NatLessThanWellFounded, WFMin
  <1>4. \A m, n \in Nat : m < n => <<m, n>> \in OpToRel(<, Nat)
    BY Zenon DEF OpToRel
  <1>5. PICK n \in T : \A m \in T : ~(m < n)
    <2> HIDE DEF T
    <2> QED
      BY <1>2, <1>3, <1>4, Zenon
  <1>6. n \in Nat /\ n # 0
    BY <1>5
  <1>7. n - 1 \in Nat /\ n - 1 < n /\ (n - 1) + 1 = n
    BY <1>6
  <1>8. n - 1 \in S
    BY <1>5, <1>7
  <1> QED
    BY <1>5, <1>7, <1>8

\* A bounded set of integers that is not empty has a greatest element.
LEMMA MaxIs ==
  ASSUME NEW a \in Int, NEW b \in Int, NEW S \in SUBSET (a..b), S # {}
  PROVE  Max(S) \in S /\ \A y \in S : y <= Max(S)
  <1> DEFINE T == {n \in Nat : b - n \in S}
  <1>1. \A x \in S : x \in Int /\ b - x \in Nat /\ b - (b - x) = x
    OBVIOUS
  <1>2. T \subseteq Nat /\ T # {}
    BY <1>1
  <1>3. \E n \in T : \A m \in T : ~(<<m, n>> \in OpToRel(<, Nat))
    <2> HIDE DEF T
    <2> QED
      BY <1>2, NatLessThanWellFounded, WFMin
  <1>4. \A m, n \in Nat : m < n => <<m, n>> \in OpToRel(<, Nat)
    BY Zenon DEF OpToRel
  <1>5. PICK n \in T : \A m \in T : ~(m < n)
    <2> HIDE DEF T
    <2> QED
      BY <1>2, <1>3, <1>4, Zenon
  <1>6. \A y \in S : ~(b - y < n)
    BY <1>1, <1>5
  <1>7. b - n \in S /\ n \in Nat
    BY <1>5
  <1>8. \A y \in S : b - n >= y
    BY <1>1, <1>6, <1>7
  <1>9. \E x \in S : \A y \in S : x >= y
    BY <1>7, <1>8
  <1>10. Max(S) \in S /\ \A y \in S : Max(S) >= y
    BY <1>9 DEF Max
  <1> QED
    BY <1>1, <1>10

\* F has the steps of a loop over members of S, and a run of it begins with t.
Steps(S, N, F) == \A n \in 1..N : \A s \in S : F[n][s] \in S
HasRun(S, N, F, t) == \E f \in [0..N -> S] : f[0] = t /\ \A n \in 1..N : f[n] = F[n][f[n - 1]]

\* A loop of N steps has states before and after every step.
LEMMA LoopRuns ==
  ASSUME NEW S, NEW N \in Nat, NEW t \in S, NEW F, Steps(S, N, F)
  PROVE  HasRun(S, N, F, t)
  <1> DEFINE Run(k, f) == f[0] = t /\ \A n \in 1..k : f[n] = F[n][f[n - 1]]
             T == {k \in Nat : k <= N => \E f \in [0..k -> S] : Run(k, f)}
  <1>1. 0 \in T
    <2> DEFINE f == [n \in 0..0 |-> t]
    <2>1. f \in [0..0 -> S] /\ Run(0, f)
      OBVIOUS
    <2> QED
      BY <2>1
  <1>2. ASSUME NEW k \in Nat, k \in T PROVE k + 1 \in T
    <2>1. SUFFICES ASSUME k + 1 <= N PROVE \E g \in [0..(k + 1) -> S] : Run(k + 1, g)
      OBVIOUS
    <2>2. PICK f \in [0..k -> S] : Run(k, f)
      BY <1>2, <2>1
    <2> DEFINE g == [n \in 0..(k + 1) |-> IF n <= k THEN f[n] ELSE F[k + 1][f[k]]]
    <2>3. F[k + 1][f[k]] \in S
      <3>1. f[k] \in S /\ k + 1 \in 1..N
        BY <2>1, <1>2
      <3> QED
        BY <3>1 DEF Steps
    <2>4. g \in [0..(k + 1) -> S]
      BY <2>3, <1>2
    <2>5. g[0] = t
      BY <2>2, <1>2
    <2>6. ASSUME NEW n \in 1..(k + 1) PROVE g[n] = F[n][g[n - 1]]
      <3>1. n \in Int /\ n - 1 \in 0..(k + 1) /\ n - 1 <= k /\ n \in 0..(k + 1)
        BY <1>2
      <3>2. g[n - 1] = f[n - 1]
        BY <3>1
      <3>3. CASE n <= k
        <4>1. g[n] = f[n] /\ n \in 1..k
          BY <3>1, <3>3
        <4> QED
          BY <4>1, <3>2, <2>2
      <3>4. CASE n = k + 1
        <4>1. g[n] = F[k + 1][f[k]] /\ n - 1 = k
          BY <3>1, <3>4, <1>2
        <4> QED
          BY <4>1, <3>2, <3>4
      <3> QED
        BY <3>1, <3>3, <3>4, <1>2
    <2> HIDE DEF g
    <2> QED
      BY <2>4, <2>5, <2>6
  <1>3. Nat \subseteq T
    <2> HIDE DEF T
    <2> QED
      BY <1>1, <1>2, CountUp
  <1>4. N \in T
    BY <1>3
  <1> QED
    BY <1>4 DEF HasRun

----------------------------------------------------------------------------
(* Tasks and ticks. *)

\* What a tick sends, and the start of a game.
Task ==
  [type : {"MOVE"}, move : {"LEFT", "RIGHT", "ROTATE", "DOWN", "UP"}]
  \cup [type : {"FIX"}, x : Int, y : Int]
  \cup [type : {"CLEAR_LINE"}, y : RowSet] \cup [type : {"ADD_LINE"}, x : ColSet]
  \cup [type : {"SPAWN"}, shape : Pieces, next : Pieces]
  \cup [type : {"GAME_OVER", "SINGLE_START"}]

\* The Tetris object in the middle of a tick.
Tick == [board : Board, current : Placed, tasks : Seq(Task), over : BOOLEAN]

\* The rows of a board after a cleared line.
LEMMA RemovedIs ==
  ASSUME NEW board \in Board, NEW y \in RowSet
  PROVE  /\ RowRemoved(board, y) \in Board
         /\ RowRemoved(board, y)[0] = {}
         /\ \A r \in RowSet : RowRemoved(board, y)[r] = IF r = 0 THEN {} ELSE IF r <= y THEN board[r - 1] ELSE board[r]
  <1>1. \A r \in RowSet : r # 0 => r - 1 \in RowSet
    BY SizeFacts
  <1>2. 0 \in RowSet
    BY SizeFacts
  <1>3. \A r \in RowSet : (IF r = 0 THEN {} ELSE IF r <= y THEN board[r - 1] ELSE board[r]) \in SUBSET ColSet
    BY <1>1 DEF Board
  <1> QED
    BY <1>2, <1>3 DEF RowRemoved, Board

\* What one turn of ClearLine's loop does.
LEMMA ClearedTick ==
  ASSUME NEW t \in Tick, NEW y \in RowSet
  PROVE  /\ LineCleared(t, y) \in Tick
         /\ t.board[y] # ColSet => LineCleared(t, y) = t
         /\ t.board[y] = ColSet =>
              /\ LineCleared(t, y).board = RowRemoved(t.board, y)
              /\ LineCleared(t, y).tasks = Append(t.tasks, [type |-> "CLEAR_LINE", y |-> y])
              /\ LineCleared(t, y).current = t.current /\ LineCleared(t, y).over = t.over
  <1> DEFINE x == [type |-> "CLEAR_LINE", y |-> y]
             u == [t EXCEPT !.board = RowRemoved(t.board, y), !.tasks = Append(t.tasks, x)]
  <1>1. x \in Task
    BY DEF Task
  <1> HIDE DEF x
  <1>2. t.board \in Board /\ t.tasks \in Seq(Task)
    BY DEF Tick
  <1>3. RowRemoved(t.board, y) \in Board /\ Append(t.tasks, x) \in Seq(Task)
    BY <1>1, <1>2, RemovedIs
  <1>4. u \in Tick /\ u.board = RowRemoved(t.board, y) /\ u.tasks = Append(t.tasks, x) /\ u.current = t.current /\ u.over = t.over
    BY <1>3 DEF Tick
  <1>5. LineCleared(t, y) = IF t.board[y] = ColSet THEN u ELSE t
    BY DEF LineCleared, x
  <1> HIDE DEF u
  <1> QED
    BY <1>4, <1>5 DEF x

\* ClearLine looks at the visible rows one after the other.
LEMMA ClearLineRuns ==
  ASSUME NEW t \in Tick
  PROVE  \E f \in [0..Visible -> Tick] :
           /\ f[0] = t /\ ClearLine(t) = f[Visible]
           /\ \A n \in 1..Visible : f[n] = LineCleared(f[n - 1], Hidden + n - 1)
  <1> DEFINE F == [n \in 1..Visible |-> [s \in Tick |-> LineCleared(s, Hidden + n - 1)]]
             G(f) == [n \in 0..Visible |-> IF n = 0 THEN t ELSE LineCleared(f[n - 1], Hidden + n - 1)]
  <1>1. Visible \in Nat /\ \A n \in 1..Visible : Hidden + n - 1 \in RowSet
    BY SizeFacts
  <1>2. \A n \in 1..Visible : \A s \in Tick : F[n][s] \in Tick
    BY <1>1, ClearedTick
  <1>3. \E f \in [0..Visible -> Tick] : f[0] = t /\ \A n \in 1..Visible : f[n] = F[n][f[n - 1]]
    <2>1. Visible \in Nat /\ t \in Tick
      BY <1>1
    <2> HIDE DEF F
    <2>2. Steps(Tick, Visible, F)
      BY <1>2 DEF Steps
    <2>3. HasRun(Tick, Visible, F, t)
      BY <2>1, <2>2, LoopRuns
    <2> QED
      BY <2>3 DEF HasRun
  <1>4. ASSUME NEW f \in [0..Visible -> Tick], f[0] = t, \A n \in 1..Visible : f[n] = F[n][f[n - 1]]
        PROVE  f = G(f)
    <2>1. \A n \in 1..Visible : n - 1 \in 0..Visible /\ f[n - 1] \in Tick
      BY <1>1
    <2>2. \A n \in 1..Visible : f[n] = LineCleared(f[n - 1], Hidden + n - 1)
      BY <1>4, <2>1
    <2>3. \A n \in 0..Visible : f[n] = IF n = 0 THEN t ELSE LineCleared(f[n - 1], Hidden + n - 1)
      BY <1>4, <2>2, <1>1
    <2> QED
      BY <2>3
  <1>5. \E f : f = G(f)
    BY <1>3, <1>4
  <1> DEFINE h == CHOOSE f : f = G(f)
  <1>6. h = G(h)
    BY <1>5, Zenon
  <1>7. ClearLine(t) = h[Visible]
    BY DEF ClearLine
  <1> HIDE DEF h
  <1>8. /\ h[0] = t
        /\ \A n \in 1..Visible : h[n] = LineCleared(h[n - 1], Hidden + n - 1)
        /\ h = [n \in 0..Visible |-> h[n]]
    <2>1. 0 \in 0..Visible /\ \A n \in 1..Visible : n \in 0..Visible /\ n # 0
      BY <1>1
    <2>2. h[0] = t
      BY <1>6, <2>1
    <2>3. \A n \in 1..Visible : h[n] = LineCleared(h[n - 1], Hidden + n - 1)
      BY <1>6, <2>1
    <2>4. h = [n \in 0..Visible |-> h[n]]
      BY <1>6, Zenon
    <2> QED
      BY <2>2, <2>3, <2>4
  <1> DEFINE T == {n \in Nat : n <= Visible => h[n] \in Tick}
  <1>9. 0 \in T
    BY <1>8
  <1>10. ASSUME NEW n \in Nat, n \in T PROVE n + 1 \in T
    <2>1. SUFFICES ASSUME n + 1 <= Visible PROVE h[n + 1] \in Tick
      OBVIOUS
    <2>2. h[n] \in Tick /\ n + 1 \in 1..Visible /\ (n + 1) - 1 = n
      BY <1>1, <1>10, <2>1
    <2>3. h[n + 1] = LineCleared(h[n], Hidden + (n + 1) - 1) /\ Hidden + (n + 1) - 1 \in RowSet
      BY <1>1, <1>8, <2>2
    <2> QED
      BY <2>2, <2>3, ClearedTick
  <1>11. Nat \subseteq T
    <2> HIDE DEF T
    <2> QED
      BY <1>9, <1>10, CountUp
  <1>12. h \in [0..Visible -> Tick]
    <2>1. \A n \in 0..Visible : h[n] \in Tick
      BY <1>1, <1>11
    <2> QED
      BY <2>1, <1>8
  <1> QED
    BY <1>7, <1>8, <1>12

----------------------------------------------------------------------------
(* What the client sees of a game, told by the packets under way. *)

\* A picture of the client: it waits for a game, or it shows one, or a game is over.
Picture == [kind : {"idle", "live", "dead"}, board : Board, cur : {NoPiece} \cup (Placed \cap Piece),
            next : Pieces \cup {"none"}]

Begun == [kind |-> "live", board |-> EmptyBoard, cur |-> NoPiece, next |-> "none"]

\* Packet x turns picture a into picture b.
Follows(x, a, b) ==
  \/ a.kind = "idle" /\ x.type = "SINGLE_START" /\ b = Begun
  \/ /\ a.kind = "live" /\ x.type = "MOVE"
     /\ b = [a EXCEPT !.cur = IF a.cur = NoPiece THEN NoPiece ELSE HandleMove(a.cur, x.move)]
  \/ /\ a.kind = "live" /\ x.type = "SPAWN"
     /\ b = [a EXCEPT !.cur = Spawned(x.shape), !.next = x.next]
  \/ /\ a.kind = "live" /\ x.type = "FIX" /\ a.cur # NoPiece
     /\ b = [a EXCEPT !.board = FixTetromino(a.board, FixPlace(a.cur, x.x, x.y)), !.cur = NoPiece]
  \/ /\ a.kind = "live" /\ x.type = "CLEAR_LINE"
     /\ b = [a EXCEPT !.board = RowRemoved(a.board, x.y)]
  \/ /\ a.kind = "live" /\ x.type = "ADD_LINE"
     /\ b = [a EXCEPT !.board = LineAdded(a.board, x.x)]
  \/ a.kind = "live" /\ x.type = "GAME_OVER" /\ b = [a EXCEPT !.kind = "dead"]
  \/ /\ a.kind = "dead" /\ x.type \in {"ADD_LINE", "GAME_OVER", "MOVE"}
     /\ x.type = "MOVE" => a.cur = NoPiece
     /\ b = a

\* The packets s turn picture a into picture b.
Plays(a, s, b) ==
  \E h \in [0..Len(s) -> Picture] :
    /\ h[0] = a /\ h[Len(s)] = b
    /\ \A i \in 1..Len(s) : Follows(s[i], h[i - 1], h[i])

\* No packet, no change.
LEMMA PlaysNothing ==
  ASSUME NEW a \in Picture
  PROVE  Plays(a, <<>>, a)
  <1> DEFINE h == [i \in 0..0 |-> a]
  <1>1. h \in [0..0 -> Picture] /\ h[0] = a
    OBVIOUS
  <1>2. Len(<<>>) = 0
    OBVIOUS
  <1>3. h \in [0..Len(<<>>) -> Picture] /\ h[Len(<<>>)] = a
    BY <1>1, <1>2
  <1>4. \A i \in 1..Len(<<>>) : FALSE
    BY <1>2
  <1> HIDE DEF h
  <1> QED
    BY <1>1, <1>3, <1>4 DEF Plays

\* One more packet at the end of the tale.
LEMMA PlaysOn ==
  ASSUME NEW a, NEW b, NEW c \in Picture, NEW s \in Seq(Task), NEW x \in Task, Plays(a, s, b), Follows(x, b, c)
  PROVE  Plays(a, Append(s, x), c)
  <1>1. PICK h \in [0..Len(s) -> Picture] :
          /\ h[0] = a /\ h[Len(s)] = b
          /\ \A i \in 1..Len(s) : Follows(s[i], h[i - 1], h[i])
    BY DEF Plays
  <1> DEFINE n == Len(s)
             u == Append(s, x)
             g == [i \in 0..(n + 1) |-> IF i <= n THEN h[i] ELSE c]
  <1>2. n \in Nat /\ Len(u) = n + 1 /\ u[n + 1] = x /\ \A i \in 1..n : u[i] = s[i]
    OBVIOUS
  <1> HIDE DEF u
  <1>3. g \in [0..(n + 1) -> Picture] /\ g[0] = a /\ g[n + 1] = c
    BY <1>1, <1>2
  <1>4. ASSUME NEW i \in 1..(n + 1) PROVE Follows(u[i], g[i - 1], g[i])
    <2>1. i \in Int /\ i - 1 \in 0..n /\ i \in 0..(n + 1) /\ i - 1 \in 0..(n + 1)
      BY <1>2
    <2>2. g[i - 1] = h[i - 1]
      BY <2>1
    <2>3. CASE i <= n
      <3>1. g[i] = h[i] /\ i \in 1..n
        BY <2>1, <2>3
      <3> QED
        BY <3>1, <2>2, <1>1, <1>2
    <2>4. CASE i = n + 1
      <3>1. g[i] = c /\ i - 1 = n
        BY <2>1, <2>4, <1>2
      <3> QED
        BY <3>1, <2>2, <2>4, <1>1, <1>2
    <2> QED
      BY <2>1, <2>3, <2>4, <1>2
  <1> HIDE DEF g, n
  <1>5. Plays(a, u, c)
    BY <1>2, <1>3, <1>4 DEF Plays
  <1> QED
    BY <1>5 DEF u

\* The first packet leads to a picture from which the others are played.
LEMMA PlaysFirst ==
  ASSUME NEW a, NEW c, NEW s \in Seq(Task), s # <<>>, Plays(a, s, c)
  PROVE  \E b \in Picture : Follows(Head(s), a, b) /\ Plays(b, Tail(s), c)
  <1>1. PICK h \in [0..Len(s) -> Picture] :
          /\ h[0] = a /\ h[Len(s)] = c
          /\ \A i \in 1..Len(s) : Follows(s[i], h[i - 1], h[i])
    BY DEF Plays
  <1> DEFINE n == Len(s)
             u == Tail(s)
             g == [i \in 0..(n - 1) |-> h[i + 1]]
  <1>2. n \in Nat /\ n >= 1 /\ Len(u) = n - 1 /\ Head(s) = s[1] /\ \A i \in 1..(n - 1) : u[i] = s[i + 1]
    OBVIOUS
  <1> HIDE DEF u
  <1>3. g \in [0..(n - 1) -> Picture] /\ g[0] = h[1] /\ g[n - 1] = c
    BY <1>1, <1>2
  <1>4. ASSUME NEW i \in 1..(n - 1) PROVE Follows(u[i], g[i - 1], g[i])
    <2>1. i + 1 \in 1..n /\ i - 1 \in 0..(n - 1) /\ i \in 0..(n - 1) /\ (i - 1) + 1 = i /\ (i + 1) - 1 = i
      BY <1>2
    <2>2. g[i - 1] = h[i] /\ g[i] = h[i + 1]
      BY <2>1
    <2>3. Follows(s[i + 1], h[i], h[i + 1])
      BY <1>1, <2>1
    <2> QED
      BY <2>2, <2>3, <1>2
  <1> HIDE DEF g, n
  <1>5. Plays(h[1], u, c)
    BY <1>2, <1>3, <1>4 DEF Plays
  <1>6. Follows(s[1], a, h[1]) /\ h[1] \in Picture
    BY <1>1, <1>2 DEF n
  <1> QED
    BY <1>2, <1>5, <1>6 DEF u

\* Without a packet the picture is the same.
LEMMA PlaysNone ==
  ASSUME NEW a, NEW c, Plays(a, <<>>, c)
  PROVE  a = c
  BY DEF Plays

----------------------------------------------------------------------------
(* The tick and its tale. *)

Ended(t) == \E i \in DOMAIN t.tasks : t.tasks[i].type = "GAME_OVER"

\* Picture b is that of t: until a game over it has the board, before a FIX the piece, and
\* n is the piece after it.
Matches(b, t, n) ==
  /\ b.cur = IF Fixed(t) THEN NoPiece ELSE t.current
  /\ b.kind = IF Ended(t) THEN "dead" ELSE "live"
  /\ ~Ended(t) => b.board = t.board /\ b.next = n

\* The tasks of t tell a client with picture a how the tick went.
Told(a, t, n) == \E b \in Picture : Plays(a, t.tasks, b) /\ Matches(b, t, n)

\* A task more: whether the tick has fixed its piece and ended the game.
LEMMA AppendedTask ==
  ASSUME NEW t \in Tick, NEW u \in Tick, NEW x \in Task, u.tasks = Append(t.tasks, x)
  PROVE  /\ Fixed(u) <=> Fixed(t) \/ x.type = "FIX"
         /\ Ended(u) <=> Ended(t) \/ x.type = "GAME_OVER"
  <1> DEFINE s == t.tasks
             n == Len(s)
             v == Append(s, x)
  <1>1. s \in Seq(Task)
    BY DEF Tick
  <1> HIDE DEF s
  <1>2. n \in Nat /\ DOMAIN s = 1..n /\ DOMAIN v = 1..(n + 1) /\ v[n + 1] = x /\ \A i \in 1..n : v[i] = s[i]
    BY <1>1
  <1> HIDE DEF n, v
  <1>3. \A i \in 1..(n + 1) : i \in 1..n \/ i = n + 1
    BY <1>2
  <1>4. \A i \in 1..n : i \in 1..(n + 1)
    BY <1>2
  <1>5. n + 1 \in 1..(n + 1)
    BY <1>2
  <1>6. ASSUME NEW k PROVE (\E i \in DOMAIN v : v[i].type = k) <=> (\E i \in DOMAIN s : s[i].type = k) \/ x.type = k
    BY <1>2, <1>3, <1>4, <1>5
  <1>7. u.tasks = v
    BY DEF s, v
  <1> QED
    BY <1>6, <1>7 DEF Fixed, Ended, s

\* One more task, and the picture it leads to.
LEMMA ToldOn ==
  ASSUME NEW a, NEW n, NEW t \in Tick, NEW u \in Tick, NEW x \in Task, u.tasks = Append(t.tasks, x),
         NEW b \in Picture, Plays(a, t.tasks, b), NEW c \in Picture, Follows(x, b, c), Matches(c, u, n)
  PROVE  Told(a, u, n)
  <1>1. t.tasks \in Seq(Task)
    BY DEF Tick
  <1>2. Plays(a, u.tasks, c)
    BY <1>1, PlaysOn
  <1> QED
    BY <1>2 DEF Told

----------------------------------------------------------------------------
(* Boards and pieces. *)

\* A piece at a valid position is in the range of the type invariant.
LEMMA ValidIsPiece ==
  ASSUME NEW board, NEW p \in Placed, IsValidPosition(board, p)
  PROVE  p \in Piece
  <1>1. /\ p.type \in Pieces /\ p.x \in Int /\ p.y \in Int /\ p.rot \in 0..3
        /\ p = [type |-> p.type, x |-> p.x, y |-> p.y, rot |-> p.rot]
    BY PieceFacts
  <1>2. PICK c \in CellsOf(TETROMINOS, p) : c[2] <= p.y + 1
    BY CellFacts
  <1>3. c[1] \in p.x..(p.x + 3) /\ c[2] \in p.y..(p.y + 3)
    BY CellFacts
  <1>4. c[1] \in 0..(Cols - 1) /\ c[2] \in 0..(Rows - 1)
    BY SizeFacts DEF IsValidPosition
  <1>5. p.x \in -Cols..Cols /\ p.y \in -1..Rows
    <2> DEFINE i == c[1]
               j == c[2]
    <2>1. i \in p.x..(p.x + 3) /\ j \in p.y..(p.y + 3) /\ i \in 0..(Cols - 1) /\ j \in 0..(Rows - 1) /\ j <= p.y + 1
      BY <1>2, <1>3, <1>4
    <2>2. Cols \in Nat /\ Cols >= 4 /\ Rows \in Nat
      BY SizeFacts
    <2> HIDE DEF i, j
    <2>3. p.x \in -Cols..Cols
      BY <1>1, <2>1, <2>2
    <2>4. p.y \in -1..Rows
      BY <1>1, <2>1, <2>2
    <2> QED
      BY <2>3, <2>4
  <1> QED
    BY <1>1, <1>5 DEF Piece

\* A piece written to a board: the cells of every row, with those of the piece in it.
LEMMA FixRows ==
  ASSUME NEW board, NEW p \in Placed
  PROVE  \A r \in RowSet : \A k : k \in FixTetromino(board, p)[r] <=> k \in board[r] \/ <<k, r>> \in CellsOf(TETROMINOS, p)
  <1> DEFINE C == CellsOf(TETROMINOS, p)
             In(r) == {c[1] : c \in {d \in C : d[2] = r}}
  <1>1. \A c \in C : c = <<c[1], c[2]>>
    BY CellFacts
  <1> HIDE DEF C
  <1>2. ASSUME NEW r, NEW k PROVE k \in In(r) <=> <<k, r>> \in C
    <2>1. ASSUME k \in In(r) PROVE <<k, r>> \in C
      <3>1. PICK c \in C : c[2] = r /\ k = c[1]
        BY <2>1
      <3> QED
        BY <3>1, <1>1
    <2>2. ASSUME <<k, r>> \in C PROVE k \in In(r)
      BY <2>2
    <2> QED
      BY <2>1, <2>2
  <1>3. FixTetromino(board, p) = [r \in RowSet |-> board[r] \cup In(r)]
    BY DEF FixTetromino, C
  <1> HIDE DEF In
  <1>4. \A r \in RowSet : \A k : k \in FixTetromino(board, p)[r] <=> k \in board[r] \/ k \in In(r)
    BY <1>3
  <1> QED
    BY <1>2, <1>4 DEF C

\* At a valid place the result is a board.
LEMMA FixIs ==
  ASSUME NEW board \in Board, NEW p \in Placed, IsValidPosition(board, p)
  PROVE  /\ FixTetromino(board, p) \in Board
         /\ \A r \in RowSet : \A k : k \in FixTetromino(board, p)[r] <=> k \in board[r] \/ <<k, r>> \in CellsOf(TETROMINOS, p)
  <1> DEFINE f == FixTetromino(board, p)
  <1>1. \A r \in RowSet : \A k : k \in f[r] <=> k \in board[r] \/ <<k, r>> \in CellsOf(TETROMINOS, p)
    BY FixRows
  <1>2. f = [r \in RowSet |-> f[r]]
    BY DEF FixTetromino
  <1> HIDE DEF f
  <1>3. \A k, r : <<k, r>> \in CellsOf(TETROMINOS, p) => k \in ColSet
    <2> SUFFICES ASSUME NEW k, NEW r, <<k, r>> \in CellsOf(TETROMINOS, p) PROVE k \in ColSet
      OBVIOUS
    <2>1. <<k, r>>[1] = k
      OBVIOUS
    <2> QED
      BY <2>1 DEF IsValidPosition
  <1>4. \A r \in RowSet : f[r] \subseteq ColSet
    BY <1>1, <1>3 DEF Board
  <1>5. f \in Board
    BY <1>2, <1>4 DEF Board
  <1> QED
    BY <1>1, <1>5 DEF f

\* Between two ticks: no row is full and the hidden rows are empty.
Clear(board) == ~Overflown(board) /\ \A r \in RowSet : board[r] # ColSet
VisibleClear(board) == \A r \in Hidden..(Rows - 1) : board[r] # ColSet

\* Columns and rows that every board has; visible and hidden rows are all of them.
LEMMA ColumnFacts ==
  /\ {0, 1, 2, 3} \subseteq ColSet /\ ColSet # {} /\ 0 \in RowSet
  /\ Hidden..(Rows - 1) \subseteq RowSet /\ 0..(Hidden - 1) \subseteq RowSet
  /\ \A r \in RowSet : r \in Hidden..(Rows - 1) \/ r \in 0..(Hidden - 1)
  <1>1. {0, 1, 2, 3} \subseteq ColSet /\ 0 \in ColSet /\ 0 \in RowSet
    BY SizeFacts
  <1>2. Hidden..(Rows - 1) \subseteq RowSet /\ 0..(Hidden - 1) \subseteq RowSet
    BY SizeFacts
  <1>3. \A r \in RowSet : r \in Hidden..(Rows - 1) \/ r \in 0..(Hidden - 1)
    BY SizeFacts
  <1> QED
    BY <1>1, <1>2, <1>3

\* A piece that cannot go down any further is not in the top row; it fills either
\* no hidden row or no visible one.
LEMMA LandedFills ==
  ASSUME NEW board \in Board, Clear(board), NEW p \in Placed, IsValidPosition(board, p),
         ~IsValidPosition(board, [p EXCEPT !.y = p.y + 1])
  PROVE  LET f == FixTetromino(board, p)
         IN  /\ f[0] = {}
             /\ \/ \A r \in 0..(Hidden - 1) : f[r] # ColSet
                \/ VisibleClear(f)
  <1> DEFINE f == FixTetromino(board, p)
             q == [p EXCEPT !.y = p.y + 1]
             C == CellsOf(TETROMINOS, p)
  <1>1. p.x \in Int /\ p.y \in Int
    BY PieceFacts
  <1>2. q \in Placed /\ q.type = p.type /\ q.rot = p.rot /\ q.x = p.x /\ q.y = p.y + 1
    <2>1. p.y + 1 \in Int
      BY <1>1
    <2> QED
      BY <2>1, <1>1, PieceMoves, PieceFacts DEF Placed
  <1>3. \A c \in C : /\ c = <<c[1], c[2]>> /\ c[1] \in p.x..(p.x + 3) /\ c[2] \in p.y..(p.y + 3)
                     /\ c[1] \in ColSet /\ c[2] \in RowSet
    BY CellFacts DEF IsValidPosition
  <1>4. PICK d \in CellsOf(TETROMINOS, q) : ~(d[1] \in ColSet /\ d[2] \in RowSet /\ d[1] \notin board[d[2]])
    BY DEF IsValidPosition
  <1>5. <<d[1] + (p.x - q.x), d[2] + (p.y - q.y)>> \in C
    BY <1>2, CellsMove
  <1>6. d[1] \in Int /\ d[2] \in Int
    BY <1>2, <1>1, CellFacts
  <1>7. d[1] + (p.x - q.x) = d[1] /\ d[2] + (p.y - q.y) = d[2] - 1
    BY <1>1, <1>2, <1>6
  <1>8. <<d[1], d[2] - 1>> \in C
    BY <1>5, <1>7
  <1>9. d[1] \in ColSet /\ d[2] - 1 \in RowSet /\ d[2] - 1 \in p.y..(p.y + 3)
    <2>1. <<d[1], d[2] - 1>>[1] = d[1] /\ <<d[1], d[2] - 1>>[2] = d[2] - 1
      OBVIOUS
    <2> QED
      BY <1>3, <1>8, <2>1
  <1>10. d[2] >= Hidden
    <2>1. \A r \in 0..(Hidden - 1) : board[r] = {}
      BY DEF Clear, Overflown
    <2>2. SUFFICES ASSUME d[2] < Hidden PROVE FALSE
      BY <1>6, SizeFacts
    <2>3. d[2] \in 0..(Hidden - 1) /\ d[2] \in RowSet
      BY <1>6, <1>9, <2>2, SizeFacts
    <2> QED
      BY <1>4, <1>9, <2>1, <2>3
  <1>11. p.y >= 1
    <2> DEFINE j == d[2]
    <2>1. j \in Int /\ j >= Hidden /\ j - 1 \in p.y..(p.y + 3) /\ Hidden \in Nat /\ Hidden >= 5
      BY <1>6, <1>9, <1>10, SizeFacts
    <2> HIDE DEF j
    <2> QED
      BY <1>1, <2>1
  <1>12. \A r \in RowSet : \A k : k \in f[r] <=> k \in board[r] \/ <<k, r>> \in C
    BY FixIs
  <1> HIDE DEF f, C
  <1>13. \A k, r : <<k, r>> \in C => k \in p.x..(p.x + 3) /\ r \in p.y..(p.y + 3)
    <2> SUFFICES ASSUME NEW k, NEW r, <<k, r>> \in C PROVE k \in p.x..(p.x + 3) /\ r \in p.y..(p.y + 3)
      OBVIOUS
    <2>1. <<k, r>>[1] = k /\ <<k, r>>[2] = r
      OBVIOUS
    <2> QED
      BY <1>3, <2>1
  <1>14. f[0] = {}
    <2>1. \A k : <<k, 0>> \notin C
      BY <1>1, <1>11, <1>13
    <2>2. board[0] = {}
      BY SizeFacts DEF Clear, Overflown
    <2> QED
      BY <1>12, <2>1, <2>2, ColumnFacts
  <1>15. (\A r \in 0..(Hidden - 1) : f[r] # ColSet) \/ VisibleClear(f)
    <2>1. SUFFICES ASSUME NEW r \in 0..(Hidden - 1), f[r] = ColSet PROVE VisibleClear(f)
      OBVIOUS
    <2>2. board[r] = {} /\ r \in RowSet
      BY ColumnFacts DEF Clear, Overflown
    <2>3. \A k \in {0, 1, 2, 3} : <<k, r>> \in C
      BY <1>12, <2>1, <2>2, ColumnFacts
    <2>4. ~(\A c \in C : c[1] <= p.x + 2)
      <3> SUFFICES ASSUME \A c \in C : c[1] <= p.x + 2 PROVE FALSE
        OBVIOUS
      <3>1. \A k \in {0, 1, 2, 3} : k \in p.x..(p.x + 3)
        BY <2>3, <1>13
      <3>2. <<3, r>> \in C /\ <<3, r>>[1] = 3
        BY <2>3
      <3> QED
        BY <3>1, <3>2, <1>1
    <2>5. \A c \in C : c[2] = p.y + 1
      BY <2>4, CellFacts DEF C
    <2>6. \A k, z : <<k, z>> \in C => z = p.y + 1
      <3> SUFFICES ASSUME NEW k, NEW z, <<k, z>> \in C PROVE z = p.y + 1
        OBVIOUS
      <3>1. <<k, z>>[2] = z
        OBVIOUS
      <3> QED
        BY <2>5, <3>1
    <2>7. r = p.y + 1
      BY <2>3, <2>6
    <2>8. ASSUME NEW z \in Hidden..(Rows - 1) PROVE f[z] # ColSet
      <3>1. z # r /\ z \in RowSet
        BY SizeFacts
      <3>2. \A k : <<k, z>> \notin C
        BY <2>6, <2>7, <3>1
      <3>3. \A k : k \in f[z] <=> k \in board[z]
        BY <1>12, <3>1, <3>2
      <3>4. f[z] = board[z]
        BY <3>3
      <3> QED
        BY <3>1, <3>4 DEF Clear
    <2> QED
      BY <2>8 DEF VisibleClear
  <1> QED
    BY <1>14, <1>15 DEF f

\* A drop ends at a valid place from which the piece cannot go down any further.
LEMMA LandedIs ==
  ASSUME NEW board, NEW p \in Placed, IsValidPosition(board, p)
  PROVE  \E n \in Int :
           /\ n >= p.y /\ Landed(board, p) = [p EXCEPT !.y = n]
           /\ IsValidPosition(board, [p EXCEPT !.y = n])
           /\ ~IsValidPosition(board, [p EXCEPT !.y = n + 1])
  <1> DEFINE V(y) == IsValidPosition(board, [p EXCEPT !.y = y])
             S == {p.y} \cup {y \in p.y..Rows : \A z \in p.y..y : V(z)}
             n == Max(S)
  <1>1. p.y \in Int /\ p.x \in Int /\ Rows \in Int
    BY PieceFacts, SizeFacts
  <1>2. [p EXCEPT !.y = p.y] = p
    BY PieceFacts DEF Placed
  <1>3. V(p.y)
    BY <1>2
  <1>4. \A y \in Int : V(y) => y + 1 \in 0..Rows /\ y < Rows
    <2> SUFFICES ASSUME NEW y \in Int, V(y) PROVE y + 1 \in 0..Rows /\ y < Rows
      OBVIOUS
    <2> DEFINE q == [p EXCEPT !.y = y]
    <2>1. q \in Placed /\ q.y = y
      BY <1>1, PieceMoves, PieceFacts DEF Placed
    <2> HIDE DEF q
    <2>2. PICK c \in CellsOf(TETROMINOS, q) : c[2] <= q.y + 1
      BY <2>1, CellFacts
    <2>3. c[2] \in q.y..(q.y + 3)
      BY <2>1, CellFacts
    <2>4. c[2] \in RowSet
      BY DEF IsValidPosition, q
    <2> DEFINE j == c[2]
    <2>5. j \in y..(y + 3) /\ j <= y + 1 /\ j \in 0..(Rows - 1)
      BY <2>1, <2>2, <2>3, <2>4, SizeFacts
    <2> HIDE DEF j
    <2> QED
      BY <1>1, <2>5
  <1>5. p.y < Rows
    BY <1>1, <1>3, <1>4
  <1> HIDE DEF V
  <1>6. S \in SUBSET (p.y..Rows) /\ p.y \in S /\ S # {}
    BY <1>1, <1>5
  <1>7. n \in S /\ \A y \in S : y <= n
    <2> HIDE DEF S
    <2> QED
      BY <1>1, <1>6, MaxIs
  <1>8. n \in p.y..Rows /\ \A z \in p.y..n : V(z)
    <2>1. CASE n = p.y
      <3>1. p.y \in p.y..Rows /\ \A z \in p.y..p.y : z = p.y
        BY <1>1, <1>5
      <3> HIDE DEF n
      <3> QED
        BY <2>1, <3>1, <1>3
    <2>2. CASE n # p.y
      BY <2>2, <1>7
    <2> QED
      BY <2>1, <2>2
  <1>9. Landed(board, p) = [p EXCEPT !.y = n]
    BY DEF Landed, V
  <1> HIDE DEF n
  <1>10. V(n) /\ n \in Int /\ n >= p.y
    BY <1>1, <1>8
  <1>11. ~V(n + 1)
    <2> SUFFICES ASSUME V(n + 1) PROVE FALSE
      OBVIOUS
    <2>1. n + 1 \in p.y..Rows
      BY <1>1, <1>4, <1>8, <1>10
    <2>2. \A z \in p.y..(n + 1) : V(z)
      BY <1>1, <1>8, <1>10
    <2>3. n + 1 \in S
      BY <2>1, <2>2
    <2> HIDE DEF S
    <2> QED
      BY <2>3, <1>7, <1>10
  <1> QED
    BY <1>9, <1>10, <1>11 DEF V

----------------------------------------------------------------------------
(* One task of a tick, and what the client makes of it. *)

\* t with one more task: a move, a garbage line, a fixed piece.
Moved(t, q, m) == [t EXCEPT !.current = q, !.tasks = Append(@, [type |-> "MOVE", move |-> m])]
Raised(t, h) == [t EXCEPT !.board = LineAdded(@, h), !.tasks = Append(@, [type |-> "ADD_LINE", x |-> h])]
Written(t, p) ==
  [t EXCEPT !.current = p, !.board = FixTetromino(@, p),
            !.tasks = Append(@, [type |-> "FIX", x |-> p.x, y |-> p.y])]

\* A task that leaves board and flags alone.
Retold(a, t, u, n) ==
  /\ u \in Tick /\ u.over = t.over /\ (Fixed(u) <=> Fixed(t)) /\ Told(a, u, n)

\* A move tells where the piece is, as long as the client has one.
LEMMA MoveTells ==
  ASSUME NEW a, NEW n, NEW t \in Tick, Told(a, t, n), NEW q \in Placed,
         NEW m \in {"LEFT", "RIGHT", "ROTATE", "DOWN", "UP"},
         Fixed(t) \/ (~Ended(t) /\ q = HandleMove(t.current, m) /\ q \in Piece)
  PROVE  LET u == Moved(t, q, m)
         IN  Retold(a, t, u, n) /\ (Ended(u) <=> Ended(t)) /\ u.board = t.board /\ u.current = q
  <1> DEFINE x == [type |-> "MOVE", move |-> m]
             u == [t EXCEPT !.current = q, !.tasks = Append(@, x)]
  <1>1. x \in Task /\ x.type = "MOVE" /\ x.move = m
    BY DEF Task
  <1> HIDE DEF x
  <1>2. t.tasks \in Seq(Task) /\ t.current \in Placed
    BY DEF Tick
  <1>3. Append(t.tasks, x) \in Seq(Task)
    BY <1>1, <1>2
  <1>4. u \in Tick /\ u.board = t.board /\ u.current = q /\ u.over = t.over /\ u.tasks = Append(t.tasks, x)
    BY <1>3 DEF Tick
  <1>50. Moved(t, q, m) = u
    BY DEF Moved, x
  <1> HIDE DEF u
  <1>5. (Fixed(u) <=> Fixed(t)) /\ (Ended(u) <=> Ended(t))
    BY <1>1, <1>4, AppendedTask
  <1>6. PICK b \in Picture : Plays(a, t.tasks, b) /\ Matches(b, t, n)
    BY DEF Told
  <1> DEFINE c == [b EXCEPT !.cur = IF Fixed(t) THEN NoPiece ELSE q]
  <1>7. c \in Picture /\ c.kind = b.kind /\ c.board = b.board /\ c.next = b.next /\ c.cur = IF Fixed(t) THEN NoPiece ELSE q
    <2>1. (IF Fixed(t) THEN NoPiece ELSE q) \in {NoPiece} \cup (Placed \cap Piece)
      OBVIOUS
    <2> DEFINE z == IF Fixed(t) THEN NoPiece ELSE q
    <2> HIDE DEF z
    <2> QED
      BY <2>1 DEF Picture, z
  <1>8. Fixed(t) => c = b
    <2>1. Fixed(t) => b.cur = NoPiece
      BY <1>6 DEF Matches
    <2> QED
      BY <2>1 DEF Picture
  <1>9. Matches(c, u, n)
    BY <1>4, <1>5, <1>6, <1>7 DEF Matches
  <1>10. Follows(x, b, c)
    <2>1. CASE Fixed(t) /\ Ended(t)
      <3>1. b.kind = "dead" /\ b.cur = NoPiece /\ c = b
        BY <2>1, <1>6, <1>8 DEF Matches
      <3> QED
        BY <3>1, <1>1 DEF Follows
    <2>2. CASE Fixed(t) /\ ~Ended(t)
      <3>1. b.kind = "live" /\ b.cur = NoPiece
        BY <2>2, <1>6 DEF Matches
      <3>2. c = [b EXCEPT !.cur = IF b.cur = NoPiece THEN NoPiece ELSE HandleMove(b.cur, x.move)]
        BY <2>2, <3>1
      <3> HIDE DEF c
      <3> QED
        BY <3>1, <3>2, <1>1 DEF Follows
    <2>3. CASE ~Fixed(t)
      <3>1. b.kind = "live" /\ b.cur = t.current /\ b.cur # NoPiece /\ q = HandleMove(t.current, m)
        BY <2>3, <1>2, <1>6, PieceFacts DEF Matches
      <3>2. c = [b EXCEPT !.cur = IF b.cur = NoPiece THEN NoPiece ELSE HandleMove(b.cur, x.move)]
        BY <2>3, <3>1, <1>1
      <3> HIDE DEF c
      <3> QED
        BY <3>1, <3>2, <1>1 DEF Follows
    <2> QED
      BY <2>1, <2>2, <2>3
  <1> HIDE DEF c
  <1>11. Told(a, u, n)
    BY <1>1, <1>4, <1>6, <1>7, <1>9, <1>10, ToldOn
  <1> QED
    BY <1>50, <1>4, <1>5, <1>11 DEF Retold

\* The end of the game, told once or again.
LEMMA OverTells ==
  ASSUME NEW a, NEW n, NEW t \in Tick, Told(a, t, n), Overflown(t.board)
  PROVE  LET u == CheckGameOver(t)
         IN  /\ Retold(a, t, u, n) /\ Ended(u) /\ u.board = t.board /\ u.current = t.current
             /\ u.tasks = Append(t.tasks, [type |-> "GAME_OVER"])
  <1> DEFINE x == [type |-> "GAME_OVER"]
             u == [t EXCEPT !.tasks = Append(@, x)]
  <1>1. x \in Task /\ x.type = "GAME_OVER"
    BY DEF Task
  <1>2. CheckGameOver(t) = u
    BY DEF CheckGameOver
  <1> HIDE DEF x
  <1>3. t.tasks \in Seq(Task)
    BY DEF Tick
  <1>4. Append(t.tasks, x) \in Seq(Task)
    BY <1>1, <1>3
  <1>5. u \in Tick /\ u.board = t.board /\ u.current = t.current /\ u.over = t.over /\ u.tasks = Append(t.tasks, x)
    BY <1>4 DEF Tick
  <1> HIDE DEF u
  <1>6. (Fixed(u) <=> Fixed(t)) /\ Ended(u)
    BY <1>1, <1>5, AppendedTask
  <1>7. PICK b \in Picture : Plays(a, t.tasks, b) /\ Matches(b, t, n)
    BY DEF Told
  <1> DEFINE c == [b EXCEPT !.kind = "dead"]
  <1>8. c \in Picture /\ c.kind = "dead" /\ c.cur = b.cur
    BY DEF Picture
  <1>9. Matches(c, u, n)
    BY <1>5, <1>6, <1>7, <1>8 DEF Matches
  <1>10. b.kind = "dead" => c = b
    BY DEF Picture
  <1>11. b.kind \in {"dead", "live"}
    BY <1>7 DEF Matches
  <1>12. Follows(x, b, c)
    <2>1. CASE b.kind = "dead"
      BY <2>1, <1>1, <1>10 DEF Follows
    <2>2. CASE b.kind = "live"
      <3>1. c = [b EXCEPT !.kind = "dead"]
        OBVIOUS
      <3> HIDE DEF c
      <3> QED
        BY <2>2, <3>1, <1>1 DEF Follows
    <2> QED
      BY <2>1, <2>2, <1>11
  <1> HIDE DEF c
  <1>13. Told(a, u, n)
    BY <1>1, <1>5, <1>7, <1>8, <1>9, <1>12, ToldOn
  <1> QED
    BY <1>2, <1>5, <1>6, <1>13 DEF Retold, x

\* The rows of a board after a garbage line.
LEMMA LineAddedIs ==
  ASSUME NEW board \in Board, NEW h \in ColSet
  PROVE  /\ LineAdded(board, h) \in Board
         /\ LineAdded(board, h)[Rows - 1] # ColSet
         /\ \A r \in RowSet : r # Rows - 1 => r + 1 \in RowSet /\ LineAdded(board, h)[r] = board[r + 1]
  <1>1. Rows - 1 \in RowSet /\ \A r \in RowSet : r # Rows - 1 => r + 1 \in RowSet
    BY SizeFacts
  <1>2. \A r \in RowSet : (IF r = Rows - 1 THEN ColSet \ {h} ELSE board[r + 1]) \in SUBSET ColSet
    BY <1>1 DEF Board
  <1>3. LineAdded(board, h) \in Board
    BY <1>2 DEF LineAdded, Board
  <1>4. LineAdded(board, h)[Rows - 1] = ColSet \ {h}
    BY <1>1 DEF LineAdded
  <1>5. \A r \in RowSet : r # Rows - 1 => LineAdded(board, h)[r] = board[r + 1]
    BY DEF LineAdded
  <1> QED
    BY <1>1, <1>3, <1>4, <1>5

\* A garbage line moves the client's rows up, if it still follows the game.
LEMMA LineTells ==
  ASSUME NEW a, NEW n, NEW t \in Tick, Told(a, t, n), NEW h \in ColSet
  PROVE  LET u == Raised(t, h)
         IN  /\ Retold(a, t, u, n) /\ (Ended(u) <=> Ended(t))
             /\ u.board = LineAdded(t.board, h) /\ u.current = t.current
  <1> DEFINE x == [type |-> "ADD_LINE", x |-> h]
             u == [t EXCEPT !.board = LineAdded(@, h), !.tasks = Append(@, x)]
  <1>1. x \in Task /\ x.type = "ADD_LINE" /\ x.x = h
    BY DEF Task
  <1> HIDE DEF x
  <1>3. t.tasks \in Seq(Task) /\ t.board \in Board
    BY DEF Tick
  <1>4. Append(t.tasks, x) \in Seq(Task) /\ LineAdded(t.board, h) \in Board
    BY <1>1, <1>3, LineAddedIs
  <1>5. u \in Tick /\ u.board = LineAdded(t.board, h) /\ u.current = t.current /\ u.over = t.over /\ u.tasks = Append(t.tasks, x)
    BY <1>4 DEF Tick
  <1>50. Raised(t, h) = u
    BY DEF Raised, x
  <1> HIDE DEF u
  <1>6. (Fixed(u) <=> Fixed(t)) /\ (Ended(u) <=> Ended(t))
    BY <1>1, <1>5, AppendedTask
  <1>7. PICK b \in Picture : Plays(a, t.tasks, b) /\ Matches(b, t, n)
    BY DEF Told
  <1>8. CASE Ended(t)
    <2>1. Matches(b, u, n) /\ b.kind = "dead"
      BY <1>5, <1>6, <1>7, <1>8 DEF Matches
    <2>2. Follows(x, b, b)
      BY <2>1, <1>1 DEF Follows
    <2>3. Told(a, u, n)
      BY <1>1, <1>5, <1>7, <2>1, <2>2, ToldOn
    <2> QED
      BY <1>50, <1>5, <1>6, <2>3 DEF Retold
  <1>9. CASE ~Ended(t)
    <2> DEFINE c == [b EXCEPT !.board = LineAdded(b.board, h)]
    <2>1. b.kind = "live" /\ b.board = t.board
      BY <1>7, <1>9 DEF Matches
    <2>2. c \in Picture /\ c.kind = b.kind /\ c.cur = b.cur /\ c.next = b.next /\ c.board = LineAdded(t.board, h)
      BY <1>4, <2>1 DEF Picture
    <2>3. Matches(c, u, n)
      BY <1>5, <1>6, <1>7, <2>2 DEF Matches
    <2>4. c = [b EXCEPT !.board = LineAdded(b.board, x.x)]
      BY <1>1
    <2> HIDE DEF c
    <2>5. Follows(x, b, c)
      BY <2>1, <2>4, <1>1 DEF Follows
    <2>6. Told(a, u, n)
      BY <1>1, <1>5, <1>7, <2>2, <2>3, <2>5, ToldOn
    <2> QED
      BY <1>50, <1>5, <1>6, <2>6 DEF Retold
  <1> QED
    BY <1>8, <1>9

\* A full row goes on both sides.
LEMMA ClearTells ==
  ASSUME NEW a, NEW n, NEW t \in Tick, Told(a, t, n), ~Ended(t), NEW y \in RowSet, t.board[y] = ColSet
  PROVE  LET u == LineCleared(t, y)
         IN  Retold(a, t, u, n) /\ ~Ended(u) /\ u.board = RowRemoved(t.board, y) /\ u.current = t.current
  <1> DEFINE x == [type |-> "CLEAR_LINE", y |-> y]
             u == LineCleared(t, y)
  <1>1. x \in Task /\ x.type = "CLEAR_LINE" /\ x.y = y
    BY DEF Task
  <1>2. u \in Tick /\ u.board = RowRemoved(t.board, y) /\ u.current = t.current /\ u.over = t.over /\ u.tasks = Append(t.tasks, x)
    BY ClearedTick
  <1> HIDE DEF x, u
  <1>3. (Fixed(u) <=> Fixed(t)) /\ ~Ended(u)
    BY <1>1, <1>2, AppendedTask
  <1>4. PICK b \in Picture : Plays(a, t.tasks, b) /\ Matches(b, t, n)
    BY DEF Told
  <1> DEFINE c == [b EXCEPT !.board = RowRemoved(b.board, y)]
  <1>5. b.kind = "live" /\ b.board = t.board /\ t.board \in Board
    BY <1>4 DEF Matches, Tick
  <1>6. c \in Picture /\ c.kind = b.kind /\ c.cur = b.cur /\ c.next = b.next /\ c.board = RowRemoved(t.board, y)
    <2>1. RowRemoved(b.board, y) \in Board
      BY <1>5, RemovedIs
    <2> QED
      BY <1>5, <2>1 DEF Picture
  <1>7. Matches(c, u, n)
    BY <1>2, <1>3, <1>4, <1>6 DEF Matches
  <1>8. c = [b EXCEPT !.board = RowRemoved(b.board, x.y)]
    BY <1>1
  <1> HIDE DEF c
  <1>9. Follows(x, b, c)
    BY <1>1, <1>5, <1>8 DEF Follows
  <1>10. Told(a, u, n)
    BY <1>1, <1>2, <1>4, <1>6, <1>7, <1>9, ToldOn
  <1> QED
    BY <1>2, <1>3, <1>10 DEF Retold, u

\* A fixed piece is written to both boards at the place the server gives it.
LEMMA FixTells ==
  ASSUME NEW a, NEW n, NEW t \in Tick, Told(a, t, n), ~Fixed(t), ~Ended(t), NEW k \in Int, NEW p,
         p = [t.current EXCEPT !.y = k], IsValidPosition(t.board, p)
  PROVE  LET u == Written(t, p)
         IN  /\ u \in Tick /\ Told(a, u, n) /\ Fixed(u) /\ ~Ended(u) /\ u.over = t.over
             /\ u.board = FixTetromino(t.board, p) /\ u.current = p
  <1> DEFINE x == [type |-> "FIX", x |-> p.x, y |-> p.y]
             u == [t EXCEPT !.current = p, !.board = FixTetromino(@, p), !.tasks = Append(@, x)]
  <1>1. t.tasks \in Seq(Task) /\ t.board \in Board /\ t.current \in Placed
    BY DEF Tick
  <1>2. p \in Placed /\ p.x = t.current.x /\ p.y = k /\ p.x \in Int /\ p = FixPlace(t.current, p.x, p.y)
    <2>1. p \in Placed
      BY <1>1, PieceMoves
    <2>2. /\ t.current.x \in Int
          /\ t.current = [type |-> t.current.type, x |-> t.current.x, y |-> t.current.y, rot |-> t.current.rot]
      BY <1>1, PieceFacts
    <2> QED
      BY <2>1, <2>2 DEF FixPlace
  <1>3. x \in Task /\ x.type = "FIX" /\ x.x = p.x /\ x.y = p.y
    BY <1>2 DEF Task
  <1> HIDE DEF x
  <1>4. Append(t.tasks, x) \in Seq(Task) /\ FixTetromino(t.board, p) \in Board
    BY <1>1, <1>2, <1>3, FixIs
  <1>5. u \in Tick /\ u.board = FixTetromino(t.board, p) /\ u.current = p /\ u.over = t.over /\ u.tasks = Append(t.tasks, x)
    BY <1>2, <1>4 DEF Tick
  <1>50. Written(t, p) = u
    BY DEF Written, x
  <1> HIDE DEF u
  <1>6. Fixed(u) /\ ~Ended(u)
    BY <1>3, <1>5, AppendedTask
  <1>7. PICK b \in Picture : Plays(a, t.tasks, b) /\ Matches(b, t, n)
    BY DEF Told
  <1> DEFINE f == FixTetromino(b.board, FixPlace(b.cur, x.x, x.y))
             c == [b EXCEPT !.board = f, !.cur = NoPiece]
  <1>8. b.kind = "live" /\ b.board = t.board /\ b.cur = t.current /\ b.cur # NoPiece /\ b.next = n
    BY <1>1, <1>7, PieceFacts DEF Matches
  <1>9. f = FixTetromino(t.board, p)
    BY <1>2, <1>3, <1>8
  <1>10. Follows(x, b, c)
    <2>1. c = [b EXCEPT !.board = FixTetromino(b.board, FixPlace(b.cur, x.x, x.y)), !.cur = NoPiece]
      OBVIOUS
    <2> HIDE DEF c
    <2> QED
      BY <2>1, <1>3, <1>8 DEF Follows
  <1> HIDE DEF f
  <1>11. c \in Picture /\ c.kind = b.kind /\ c.cur = NoPiece /\ c.next = n /\ c.board = f
    BY <1>4, <1>8, <1>9 DEF Picture
  <1> HIDE DEF c
  <1>12. Matches(c, u, n)
    BY <1>5, <1>6, <1>8, <1>9, <1>11 DEF Matches
  <1>13. Told(a, u, n)
    BY <1>3, <1>5, <1>7, <1>10, <1>11, <1>12, ToldOn
  <1> QED
    BY <1>50, <1>5, <1>6, <1>13

----------------------------------------------------------------------------
(* The three conditions of a game in a tick. *)

\* The piece still falls: the board is the one the tick began with, but for garbage.
Free(a, t, n) ==
  /\ t \in Tick /\ t.over = FALSE /\ ~Fixed(t) /\ ~Ended(t)
  /\ Clear(t.board) /\ IsValidPosition(t.board, t.current) /\ Told(a, t, n)

\* The piece is fixed.  The top row is empty, so that a garbage line pushes no overflow
\* off the board before it has ended the game.
Put(a, t, n) ==
  /\ t \in Tick /\ t.over = FALSE /\ Fixed(t) /\ (Ended(t) <=> Overflown(t.board))
  /\ t.board[0] = {} /\ VisibleClear(t.board) /\ Told(a, t, n)

\* A garbage line ended the game.
Stopped(a, t, n) ==
  t \in Tick /\ t.over = TRUE /\ Ended(t) /\ Overflown(t.board) /\ Told(a, t, n)

\* A settled board has no full visible row.
LEMMA ClearIsVisible ==
  ASSUME NEW board
  PROVE  /\ Clear(board) => VisibleClear(board)
         /\ VisibleClear(board) /\ ~Overflown(board) => Clear(board)
         /\ Clear(board) => board[0] = {}
         /\ ~Overflown(board) => \A r \in 0..(Hidden - 1) : board[r] = {}
  <1>1. Clear(board) => VisibleClear(board)
    BY ColumnFacts DEF Clear, VisibleClear
  <1>2. ~Overflown(board) => \A r \in 0..(Hidden - 1) : board[r] = {}
    BY DEF Overflown
  <1>3. ASSUME VisibleClear(board), ~Overflown(board) PROVE Clear(board)
    <2> SUFFICES ASSUME NEW r \in RowSet PROVE board[r] # ColSet
      BY <1>3 DEF Clear
    <2>1. CASE r \in Hidden..(Rows - 1)
      BY <1>3, <2>1 DEF VisibleClear
    <2>2. CASE r \in 0..(Hidden - 1)
      BY <1>2, <1>3, <2>2, ColumnFacts
    <2> QED
      BY <2>1, <2>2, ColumnFacts
  <1>4. Clear(board) => board[0] = {}
    BY <1>2, SizeFacts DEF Clear
  <1> QED
    BY <1>1, <1>2, <1>3, <1>4

\* An input that moves a piece, taken or refused.
LEMMA StepKeeps ==
  ASSUME NEW a, NEW n, NEW t, NEW m \in {"LEFT", "RIGHT", "ROTATE", "DOWN"}, NEW p \in Placed
  PROVE  /\ Free(a, t, n) /\ p = HandleMove(t.current, m) => Free(a, Step(t, m, p), n)
         /\ Put(a, t, n) => Put(a, Step(t, m, p), n)
  <1> DEFINE u == Moved(t, p, m)
  <1>1. Step(t, m, p) = IF IsValidPosition(t.board, p) THEN u ELSE t
    BY DEF Step, Moved
  <1>9. m \in {"LEFT", "RIGHT", "ROTATE", "DOWN", "UP"}
    OBVIOUS
  <1>2. ASSUME Free(a, t, n), p = HandleMove(t.current, m), IsValidPosition(t.board, p)
        PROVE  Free(a, u, n)
    <2>1. p \in Piece
      BY <1>2, ValidIsPiece
    <2>2. t \in Tick /\ Told(a, t, n) /\ ~Ended(t) /\ ~Fixed(t)
      BY <1>2 DEF Free
    <2>3. Retold(a, t, u, n) /\ (Ended(u) <=> Ended(t)) /\ u.board = t.board /\ u.current = p
      BY <1>2, <1>9, <2>1, <2>2, MoveTells
    <2> HIDE DEF u
    <2> QED
      BY <1>2, <2>3 DEF Free, Retold
  <1>3. ASSUME Put(a, t, n) PROVE Put(a, u, n)
    <2>1. t \in Tick /\ Told(a, t, n) /\ Fixed(t)
      BY <1>3 DEF Put
    <2>2. Retold(a, t, u, n) /\ (Ended(u) <=> Ended(t)) /\ u.board = t.board
      BY <1>9, <2>1, MoveTells
    <2> HIDE DEF u
    <2> QED
      BY <1>3, <2>2 DEF Put, Retold
  <1> HIDE DEF u
  <1> QED
    BY <1>1, <1>2, <1>3

\* The rows above row y are not full.
NoneFull(board, y) == \A r \in 0..(y - 1) : board[r] # ColSet

\* Rows that are not full, row by row.
LEMMA NoneFullIs ==
  ASSUME NEW board \in Board
  PROVE  /\ (\A r \in 0..(Hidden - 1) : board[r] # ColSet) => NoneFull(board, Hidden)
         /\ \A y \in RowSet : NoneFull(board, y) => NoneFull(RowRemoved(board, y), y + 1)
         /\ \A y \in RowSet : NoneFull(board, y) /\ board[y] # ColSet => NoneFull(board, y + 1)
         /\ NoneFull(board, Rows) => VisibleClear(board)
  <1>1. (\A r \in 0..(Hidden - 1) : board[r] # ColSet) => NoneFull(board, Hidden)
    BY DEF NoneFull
  <1>2. ASSUME NEW y \in RowSet, NoneFull(board, y) PROVE NoneFull(RowRemoved(board, y), y + 1)
    <2> DEFINE b == RowRemoved(board, y)
    <2>1. y \in Nat
      BY SizeFacts
    <2>2. \A r \in RowSet : b[r] = IF r = 0 THEN {} ELSE IF r <= y THEN board[r - 1] ELSE board[r]
      BY RemovedIs
    <2> HIDE DEF b
    <2>3. ASSUME NEW r \in 0..((y + 1) - 1) PROVE b[r] # ColSet
      <3>1. r \in RowSet /\ r <= y /\ (r # 0 => r - 1 \in 0..(y - 1))
        BY <2>1, SizeFacts
      <3>2. CASE r = 0
        BY <2>2, <3>1, <3>2, ColumnFacts
      <3>3. CASE r # 0
        <4>1. b[r] = board[r - 1]
          BY <2>2, <3>1, <3>3
        <4> QED
          BY <1>2, <3>1, <3>3, <4>1 DEF NoneFull
      <3> QED
        BY <3>2, <3>3
    <2>4. NoneFull(b, y + 1)
      BY <2>3 DEF NoneFull
    <2> QED
      BY <2>4 DEF b
  <1>3. ASSUME NEW y \in RowSet, NoneFull(board, y), board[y] # ColSet PROVE NoneFull(board, y + 1)
    <2>1. y \in Nat
      BY SizeFacts
    <2>2. ASSUME NEW r \in 0..((y + 1) - 1) PROVE board[r] # ColSet
      <3>1. r \in 0..(y - 1) \/ r = y
        BY <2>1
      <3> QED
        BY <1>3, <3>1 DEF NoneFull
    <2> QED
      BY <2>2 DEF NoneFull
  <1>4. NoneFull(board, Rows) => VisibleClear(board)
    BY SizeFacts DEF NoneFull, VisibleClear
  <1> QED
    BY <1>1, <1>2, <1>3, <1>4

\* ClearLine after a FIX: the loop ends with no visible row full.
LEMMA ClearingKeeps ==
  ASSUME NEW a, NEW n, NEW t \in Tick, Told(a, t, n), Fixed(t), ~Ended(t), t.board[0] = {},
         (\A r \in 0..(Hidden - 1) : t.board[r] # ColSet) \/ VisibleClear(t.board)
  PROVE  LET u == ClearLine(t)
         IN  Retold(a, t, u, n) /\ ~Ended(u) /\ u.board[0] = {} /\ VisibleClear(u.board)
  <1> DEFINE Fine(u, k) ==
               /\ Retold(a, t, u, n) /\ ~Ended(u) /\ u.board[0] = {}
               /\ VisibleClear(t.board) \/ NoneFull(u.board, Hidden + k)
               /\ VisibleClear(t.board) => u = t
  <1>1. PICK f \in [0..Visible -> Tick] :
          /\ f[0] = t /\ ClearLine(t) = f[Visible]
          /\ \A k \in 1..Visible : f[k] = LineCleared(f[k - 1], Hidden + k - 1)
    BY ClearLineRuns
  <1>2. Visible \in Nat /\ Hidden \in Nat /\ Hidden >= 5 /\ Rows = Hidden + Visible /\ RowSet = 0..(Rows - 1)
    BY SizeFacts
  <1> DEFINE T == {k \in Nat : k <= Visible => Fine(f[k], k)}
  <1>3. 0 \in T
    <2>1. Retold(a, t, t, n)
      BY DEF Retold
    <2>2. VisibleClear(t.board) \/ NoneFull(t.board, Hidden + 0)
      <3>1. t.board \in Board /\ Hidden + 0 = Hidden
        BY <1>2 DEF Tick
      <3> QED
        BY <3>1, NoneFullIs
    <2>3. Fine(t, 0)
      BY <2>1, <2>2
    <2> HIDE DEF Fine
    <2> QED
      BY <1>1, <2>3
  <1>4. ASSUME NEW k \in Nat, k \in T PROVE k + 1 \in T
    <2>1. SUFFICES ASSUME k + 1 <= Visible PROVE Fine(f[k + 1], k + 1)
      OBVIOUS
    <2> DEFINE s == f[k]
               y == Hidden + k
    <2>2. Fine(s, k)
      <3> HIDE DEF Fine
      <3> QED
        BY <1>2, <1>4, <2>1
    <2>3. s \in Tick /\ y \in Hidden..(Rows - 1) /\ y \in RowSet /\ f[k + 1] = LineCleared(s, y)
      <3>1. k \in 0..Visible /\ k + 1 \in 1..Visible /\ (k + 1) - 1 = k /\ Hidden + (k + 1) - 1 = y
        BY <1>2, <2>1
      <3>2. y \in Hidden..(Rows - 1) /\ y \in RowSet
        BY <1>2, <2>1
      <3> QED
        BY <1>1, <3>1, <3>2
    <2> DEFINE v == f[k + 1]
    <2>4. Retold(a, t, s, n) /\ ~Ended(s) /\ s.board[0] = {} /\ (VisibleClear(t.board) => s = t)
      BY <2>2
    <2>5. VisibleClear(t.board) \/ NoneFull(s.board, y)
      BY <2>2
    <2>6. Hidden + (k + 1) = y + 1 /\ y \in Nat /\ y >= 5
      BY <1>2
    <2> HIDE DEF s, y
    <2>7. CASE s.board[y] # ColSet
      <3>1. v = s
        BY <2>3, <2>7, ClearedTick
      <3>2. VisibleClear(t.board) \/ NoneFull(s.board, y + 1)
        <4>1. s.board \in Board
          BY <2>3 DEF Tick
        <4> QED
          BY <2>3, <2>5, <2>7, <4>1, NoneFullIs
      <3> HIDE DEF v
      <3> QED
        BY <2>4, <2>6, <3>1, <3>2 DEF v
    <2>8. CASE s.board[y] = ColSet
      <3>1. ~VisibleClear(t.board)
        BY <2>3, <2>4, <2>8 DEF VisibleClear
      <3>2. Told(a, s, n) /\ (Fixed(s) <=> Fixed(t)) /\ s.over = t.over
        BY <2>4 DEF Retold
      <3>3. Retold(a, s, v, n) /\ ~Ended(v) /\ v.board = RowRemoved(s.board, y)
        BY <2>3, <2>4, <2>8, <3>2, ClearTells
      <3>4. Retold(a, t, v, n)
        BY <3>2, <3>3 DEF Retold
      <3>5. s.board \in Board
        BY <2>3 DEF Tick
      <3>6. v.board[0] = {}
        BY <2>3, <3>3, <3>5, RemovedIs
      <3>7. NoneFull(v.board, y + 1)
        BY <2>3, <2>5, <3>1, <3>3, <3>5, NoneFullIs
      <3> HIDE DEF v
      <3> QED
        BY <2>6, <3>1, <3>3, <3>4, <3>6, <3>7 DEF v
    <2> QED
      BY <2>7, <2>8
  <1>5. Nat \subseteq T
    <2> HIDE DEF T
    <2> QED
      BY <1>3, <1>4, CountUp
  <1>6. Fine(ClearLine(t), Visible)
    <2> HIDE DEF Fine
    <2> QED
      BY <1>1, <1>2, <1>5
  <1> DEFINE u == ClearLine(t)
  <1>7. /\ Retold(a, t, u, n) /\ ~Ended(u) /\ u.board[0] = {}
        /\ VisibleClear(t.board) \/ NoneFull(u.board, Hidden + Visible)
        /\ VisibleClear(t.board) => u = t
    BY <1>6
  <1> HIDE DEF u
  <1>8. VisibleClear(u.board)
    <2>1. CASE VisibleClear(t.board)
      BY <2>1, <1>7
    <2>2. CASE ~VisibleClear(t.board)
      <3>1. u.board \in Board /\ Hidden + Visible = Rows
        BY <1>2, <1>7 DEF Retold, Tick
      <3> QED
        BY <2>2, <3>1, <1>7, NoneFullIs
    <2> QED
      BY <2>1, <2>2
  <1> QED
    BY <1>7, <1>8 DEF u

\* A piece that cannot go down is fixed, full rows go, and an overflow is told.
LEMMA FixPuts ==
  ASSUME NEW a, NEW n, NEW t, Free(a, t, n), NEW k \in Int, NEW p,
         p = [t.current EXCEPT !.y = k], IsValidPosition(t.board, p),
         ~IsValidPosition(t.board, [p EXCEPT !.y = p.y + 1])
  PROVE  Put(a, FixAt(t, p), n)
  <1> DEFINE v == Written(t, p)
             w == ClearLine(v)
             z == CheckGameOver(w)
  <1>1. /\ t \in Tick /\ Told(a, t, n) /\ ~Fixed(t) /\ ~Ended(t) /\ t.over = FALSE /\ Clear(t.board)
        /\ t.board \in Board /\ t.current \in Placed
    BY DEF Free, Tick
  <1>2. p \in Placed
    BY <1>1, PieceMoves
  <1>3. /\ v \in Tick /\ Told(a, v, n) /\ Fixed(v) /\ ~Ended(v) /\ v.over = FALSE
        /\ v.board = FixTetromino(t.board, p)
    BY <1>1, FixTells
  <1>4. FixAt(t, p) = z
    BY DEF FixAt, Written
  <1> HIDE DEF v
  <1>5. v.board[0] = {} /\ ((\A r \in 0..(Hidden - 1) : v.board[r] # ColSet) \/ VisibleClear(v.board))
    BY <1>1, <1>2, <1>3, LandedFills
  <1>6. Retold(a, v, w, n) /\ ~Ended(w) /\ w.board[0] = {} /\ VisibleClear(w.board)
    BY <1>3, <1>5, ClearingKeeps
  <1> HIDE DEF w
  <1>7. w \in Tick /\ Told(a, w, n) /\ Fixed(w) /\ w.over = FALSE
    BY <1>3, <1>6 DEF Retold
  <1>8. CASE Overflown(w.board)
    <2>1. Retold(a, w, z, n) /\ Ended(z) /\ z.board = w.board
      BY <1>7, <1>8, OverTells
    <2> HIDE DEF z
    <2> QED
      BY <1>4, <1>6, <1>7, <1>8, <2>1 DEF Put, Retold
  <1>9. CASE ~Overflown(w.board)
    <2>1. z = w
      BY <1>9 DEF CheckGameOver
    <2> HIDE DEF z
    <2> QED
      BY <1>4, <1>6, <1>7, <1>9, <2>1 DEF Put
  <1> QED
    BY <1>8, <1>9

\* The cases of ProcessMoveInput.
LEMMA InputIs ==
  ASSUME NEW t
  PROVE  /\ \A m \in {"LEFT", "RIGHT"} : ProcessMoveInput(t, m) = Step(t, m, Shifted(t.current, m))
         /\ ProcessMoveInput(t, "ROTATE") = Step(t, "ROTATE", Rotated(TETROMINOS, t.current))
         /\ ProcessMoveInput(t, "DOWN") =
              IF IsValidPosition(t.board, Shifted(t.current, "DOWN"))
              THEN Step(t, "DOWN", Shifted(t.current, "DOWN")) ELSE FixAt(t, t.current)
         /\ ProcessMoveInput(t, "DROP") = FixAt(t, Landed(t.board, t.current))
  <1>1. ProcessMoveInput(t, "LEFT") = Step(t, "LEFT", Shifted(t.current, "LEFT"))
    BY DEF ProcessMoveInput
  <1>2. ProcessMoveInput(t, "RIGHT") = Step(t, "RIGHT", Shifted(t.current, "RIGHT"))
    BY DEF ProcessMoveInput
  <1>3. ProcessMoveInput(t, "ROTATE") = Step(t, "ROTATE", Rotated(TETROMINOS, t.current))
    BY DEF ProcessMoveInput
  <1>4. ProcessMoveInput(t, "DOWN") =
          IF IsValidPosition(t.board, Shifted(t.current, "DOWN"))
          THEN Step(t, "DOWN", Shifted(t.current, "DOWN")) ELSE FixAt(t, t.current)
    <2>1. ProcessMoveInput(t, "DOWN") = MovedDown(t)
      BY DEF ProcessMoveInput
    <2> QED
      BY <2>1 DEF MovedDown
  <1>5. ProcessMoveInput(t, "DROP") = FixAt(t, Landed(t.board, t.current))
    BY DEF ProcessMoveInput
  <1> QED
    BY <1>1, <1>2, <1>3, <1>4, <1>5

\* An input of the tick.
LEMMA InputKeeps ==
  ASSUME NEW a, NEW n, NEW t, Free(a, t, n) \/ Put(a, t, n), NEW m \in {"DROP", "DOWN", "ROTATE", "LEFT", "RIGHT"},
         m \in {"DROP", "DOWN"} => Free(a, t, n)
  PROVE  LET u == ProcessMoveInput(t, m)
         IN  Free(a, u, n) \/ Put(a, u, n)
  <1>1. t \in Tick /\ t.current \in Placed /\ t.current.y \in Int
    <2>1. t \in Tick
      BY DEF Free, Put
    <2>2. t.current \in Placed
      BY <2>1 DEF Tick
    <2> QED
      BY <2>1, <2>2, PieceFacts
  <1>2. CASE m \in {"LEFT", "RIGHT"}
    <2> DEFINE p == Shifted(t.current, m)
    <2>1. p \in Placed /\ p = HandleMove(t.current, m)
      <3>1. m \in {"RIGHT", "LEFT", "DOWN", "UP"} /\ m # "ROTATE"
        BY <1>2
      <3> QED
        BY <1>1, <3>1, PieceMoves DEF HandleMove
    <2>2. ProcessMoveInput(t, m) = Step(t, m, p)
      BY <1>2, InputIs
    <2> HIDE DEF p
    <2> QED
      BY <1>2, <2>1, <2>2, StepKeeps
  <1>3. CASE m = "ROTATE"
    <2> DEFINE p == Rotated(TETROMINOS, t.current)
    <2>1. p \in Placed /\ p = HandleMove(t.current, m)
      BY <1>1, <1>3, PieceMoves, TablesAgree DEF HandleMove
    <2>2. ProcessMoveInput(t, m) = Step(t, m, p)
      BY <1>3, InputIs
    <2> HIDE DEF p
    <2> QED
      BY <1>3, <2>1, <2>2, StepKeeps
  <1>4. CASE m = "DOWN"
    <2> DEFINE p == Shifted(t.current, m)
    <2>1. p \in Placed /\ p = HandleMove(t.current, m) /\ p = [t.current EXCEPT !.y = t.current.y + 1]
      <3>1. m \in {"RIGHT", "LEFT", "DOWN", "UP"} /\ m # "ROTATE"
        BY <1>4
      <3>2. p \in Placed /\ p = HandleMove(t.current, m)
        BY <1>1, <3>1, PieceMoves DEF HandleMove
      <3>3. p = [t.current EXCEPT !.y = t.current.y + 1]
        BY <1>4 DEF Shifted
      <3> QED
        BY <3>2, <3>3
    <2>2. ProcessMoveInput(t, m) = IF IsValidPosition(t.board, p) THEN Step(t, m, p) ELSE FixAt(t, t.current)
      <3>1. ProcessMoveInput(t, "DOWN") =
              IF IsValidPosition(t.board, Shifted(t.current, "DOWN"))
              THEN Step(t, "DOWN", Shifted(t.current, "DOWN")) ELSE FixAt(t, t.current)
        BY InputIs
      <3> QED
        BY <1>4, <3>1
    <2>3. Free(a, t, n)
      BY <1>4
    <2> HIDE DEF p
    <2>4. CASE IsValidPosition(t.board, p)
      BY <1>4, <2>1, <2>2, <2>3, <2>4, StepKeeps
    <2>5. CASE ~IsValidPosition(t.board, p)
      <3> DEFINE q == t.current
                 k == q.y
      <3>1. q = [q EXCEPT !.y = k] /\ k \in Int
        <4>1. q = [type |-> q.type, x |-> q.x, y |-> q.y, rot |-> q.rot]
          BY <1>1, PieceFacts
        <4> HIDE DEF q
        <4> QED
          BY <1>1, <4>1 DEF q
      <3>2. IsValidPosition(t.board, q) /\ ~IsValidPosition(t.board, [q EXCEPT !.y = q.y + 1])
        BY <2>1, <2>3, <2>5 DEF Free
      <3> HIDE DEF k
      <3>3. Put(a, FixAt(t, q), n)
        BY <2>3, <3>1, <3>2, FixPuts
      <3> QED
        BY <2>2, <2>5, <3>3
    <2> QED
      BY <2>4, <2>5
  <1>5. CASE m = "DROP"
    <2>1. Free(a, t, n)
      BY <1>5
    <2>2. ProcessMoveInput(t, m) = FixAt(t, Landed(t.board, t.current))
      BY <1>5, InputIs
    <2>3. PICK k \in Int :
            /\ Landed(t.board, t.current) = [t.current EXCEPT !.y = k]
            /\ IsValidPosition(t.board, [t.current EXCEPT !.y = k])
            /\ ~IsValidPosition(t.board, [t.current EXCEPT !.y = k + 1])
      BY <1>1, <2>1, LandedIs DEF Free
    <2> DEFINE p == [t.current EXCEPT !.y = k]
    <2>4. p.y = k /\ [p EXCEPT !.y = p.y + 1] = [t.current EXCEPT !.y = k + 1]
      <3> DEFINE q == t.current
      <3>1. q = [type |-> q.type, x |-> q.x, y |-> q.y, rot |-> q.rot]
        BY <1>1, PieceFacts
      <3> HIDE DEF q
      <3>2. p = [q EXCEPT !.y = k]
        BY DEF q
      <3> HIDE DEF p
      <3>3. p.y = k /\ [p EXCEPT !.y = p.y + 1] = [q EXCEPT !.y = k + 1]
        BY <3>1, <3>2
      <3> QED
        BY <3>3 DEF q
    <2>5. IsValidPosition(t.board, p) /\ ~IsValidPosition(t.board, [p EXCEPT !.y = p.y + 1])
      BY <2>3, <2>4
    <2> HIDE DEF p
    <2>6. p = [t.current EXCEPT !.y = k]
      BY DEF p
    <2>7. Put(a, FixAt(t, p), n)
      BY <2>1, <2>5, <2>6, FixPuts
    <2> QED
      BY <2>2, <2>3, <2>6, <2>7
  <1> QED
    BY <1>2, <1>3, <1>4, <1>5

\* All inputs of a tick: the piece falls on, or it is fixed.
LEMMA InputsKeep ==
  ASSUME NEW a, NEW n, NEW t, Free(a, t, n), NEW inputs
  PROVE  LET u == ProcessTick(t, inputs)
         IN  Free(a, u, n) \/ Put(a, u, n)
  <1> DEFINE In(s, m) == IF m \in inputs /\ ~(m = "DOWN" /\ Fixed(s)) THEN ProcessMoveInput(s, m) ELSE s
             Going(s) == Free(a, s, n) \/ Put(a, s, n)
  <1>1. ProcessTick(t, inputs) = In(In(In(In(In(t, "DROP"), "DOWN"), "ROTATE"), "LEFT"), "RIGHT")
    BY DEF ProcessTick
  <1>2. ASSUME NEW s, Going(s), NEW m \in {"ROTATE", "LEFT", "RIGHT"} PROVE Going(In(s, m))
    <2>1. Free(a, ProcessMoveInput(s, m), n) \/ Put(a, ProcessMoveInput(s, m), n)
      BY <1>2, InputKeeps
    <2> QED
      BY <1>2, <2>1
  <1>3. Going(In(t, "DROP"))
    <2>1. Free(a, ProcessMoveInput(t, "DROP"), n) \/ Put(a, ProcessMoveInput(t, "DROP"), n)
      BY InputKeeps
    <2> QED
      BY <2>1
  <1>4. ASSUME NEW s, Going(s) PROVE Going(In(s, "DOWN"))
    <2>1. CASE Fixed(s)
      <3>1. In(s, "DOWN") = s
        BY <2>1
      <3> HIDE DEF In
      <3> QED
        BY <1>4, <3>1
    <2>2. CASE ~Fixed(s)
      <3>1. Free(a, s, n)
        BY <1>4, <2>2 DEF Put
      <3>2. Free(a, ProcessMoveInput(s, "DOWN"), n) \/ Put(a, ProcessMoveInput(s, "DOWN"), n)
        BY <3>1, InputKeeps
      <3> QED
        BY <1>4, <3>2
    <2> QED
      BY <2>1, <2>2
  <1> DEFINE t1 == In(t, "DROP")
             t2 == In(t1, "DOWN")
             t3 == In(t2, "ROTATE")
             t4 == In(t3, "LEFT")
             t5 == In(t4, "RIGHT")
  <1>5. ProcessTick(t, inputs) = t5
    BY <1>1
  <1> HIDE DEF In, Going
  <1>6. Going(t1)
    BY <1>3
  <1> HIDE DEF t1
  <1>7. Going(t2)
    BY <1>4, <1>6
  <1> HIDE DEF t2
  <1>8. Going(t3)
    BY <1>2, <1>7
  <1> HIDE DEF t3
  <1>9. Going(t4)
    BY <1>2, <1>8
  <1> HIDE DEF t4
  <1>10. Going(t5)
    BY <1>2, <1>9
  <1> HIDE DEF t5
  <1> QED
    BY <1>5, <1>10 DEF Going

----------------------------------------------------------------------------
(* Garbage lines. *)

\* One of the three conditions.
Held(a, t, n) == Free(a, t, n) \/ Put(a, t, n) \/ Stopped(a, t, n)

\* A garbage line that overflows nothing: the board was not overflown, and is as clear as it was.
LEMMA LineClears ==
  ASSUME NEW board \in Board, NEW h \in ColSet, board[0] = {}, VisibleClear(board),
         ~Overflown(LineAdded(board, h))
  PROVE  /\ ~Overflown(board)
         /\ VisibleClear(LineAdded(board, h)) /\ Clear(LineAdded(board, h)) /\ LineAdded(board, h)[0] = {}
  <1> DEFINE b == LineAdded(board, h)
  <1>1. b[Rows - 1] # ColSet /\ \A r \in RowSet : r # Rows - 1 => r + 1 \in RowSet /\ b[r] = board[r + 1]
    BY LineAddedIs
  <1>2. \A r \in 0..(Hidden - 1) : b[r] = {}
    BY DEF Overflown
  <1> HIDE DEF b
  <1>3. ASSUME NEW r \in 0..(Hidden - 1) PROVE board[r] = {}
    <2>1. CASE r = 0
      BY <2>1
    <2>2. CASE r # 0
      <3>1. r - 1 \in 0..(Hidden - 1) /\ r - 1 \in RowSet /\ r - 1 # Rows - 1 /\ (r - 1) + 1 = r
        BY <2>2, SizeFacts
      <3> QED
        BY <3>1, <1>1, <1>2
    <2> QED
      BY <2>1, <2>2
  <1>4. ~Overflown(board)
    BY <1>3 DEF Overflown
  <1>5. VisibleClear(b)
    <2> SUFFICES ASSUME NEW r \in Hidden..(Rows - 1) PROVE b[r] # ColSet
      BY DEF VisibleClear
    <2>1. CASE r = Rows - 1
      BY <2>1, <1>1
    <2>2. CASE r # Rows - 1
      <3>1. r + 1 \in Hidden..(Rows - 1) /\ r \in RowSet
        BY <2>2, SizeFacts
      <3> QED
        BY <2>2, <3>1, <1>1 DEF VisibleClear
    <2> QED
      BY <2>1, <2>2
  <1>6. Clear(b) /\ b[0] = {}
    BY <1>5, ClearIsVisible DEF b
  <1> QED
    BY <1>4, <1>5, <1>6 DEF b

\* A piece that the line runs into has room one row up: one with a cell in the top row
\* lies in hidden rows only, and they are empty.
LEMMA LiftedFits ==
  ASSUME NEW board \in Board, NEW h \in ColSet, NEW p \in Placed, IsValidPosition(board, p),
         ~Overflown(LineAdded(board, h)), ~IsValidPosition(LineAdded(board, h), p)
  PROVE  IsValidPosition(LineAdded(board, h), Shifted(p, "UP"))
  <1> DEFINE b == LineAdded(board, h)
             q == Shifted(p, "UP")
  <1>1. \A r \in RowSet : r # Rows - 1 => b[r] = board[r + 1]
    BY LineAddedIs
  <1>2. \A r \in 0..(Hidden - 1) : b[r] = {}
    BY DEF Overflown
  <1>3. p.x \in Int /\ p.y \in Int /\ q \in Placed /\ q.type = p.type /\ q.rot = p.rot /\ q.x = p.x /\ q.y = p.y - 1
    <2>1. q = [p EXCEPT !.y = p.y - 1]
      BY DEF Shifted
    <2>2. p.x \in Int /\ p.y \in Int /\ p = [type |-> p.type, x |-> p.x, y |-> p.y, rot |-> p.rot]
      BY PieceFacts
    <2>3. q \in Placed
      BY PieceMoves
    <2> HIDE DEF q
    <2> QED
      BY <2>1, <2>2, <2>3
  <1>4. ~IsValidPosition(b, p)
    OBVIOUS
  <1> HIDE DEF b, q
  <1>5. \A c \in CellsOf(TETROMINOS, p) : c[1] \in ColSet /\ c[2] \in RowSet /\ c[1] \notin board[c[2]]
    BY DEF IsValidPosition
  <1>6. ASSUME NEW d \in CellsOf(TETROMINOS, p), d[2] = 0 PROVE FALSE
    <2>1. d[2] \in p.y..(p.y + 3)
      BY CellFacts
    <2>2. p.y <= 0
      BY <1>3, <1>6, <2>1
    <2>3. ASSUME NEW c \in CellsOf(TETROMINOS, p) PROVE b[c[2]] = {}
      <3> DEFINE j == c[2]
      <3>1. j \in p.y..(p.y + 3) /\ j \in RowSet
        BY <1>5, CellFacts
      <3> HIDE DEF j
      <3>2. j \in 0..(Hidden - 1)
        BY <1>3, <2>2, <3>1, SizeFacts
      <3>3. b[j] = {}
        BY <1>2, <3>2
      <3> QED
        BY <3>3 DEF j
    <2> QED
      BY <1>4, <1>5, <2>3 DEF IsValidPosition
  <1>7. ASSUME NEW c \in CellsOf(TETROMINOS, q) PROVE c[1] \in ColSet /\ c[2] \in RowSet /\ c[1] \notin b[c[2]]
    <2> DEFINE i == c[1]
               j == c[2]
    <2>1. i \in Int /\ j \in Int
      BY <1>3, CellFacts
    <2>2. <<i + (p.x - q.x), j + (p.y - q.y)>> \in CellsOf(TETROMINOS, p)
      BY <1>3, CellsMove
    <2> HIDE DEF i, j
    <2>3. i + (p.x - q.x) = i /\ j + (p.y - q.y) = j + 1
      BY <1>3, <2>1
    <2> DEFINE d == <<i, j + 1>>
    <2>4. d \in CellsOf(TETROMINOS, p) /\ d[1] = i /\ d[2] = j + 1
      BY <2>2, <2>3
    <2> HIDE DEF d
    <2>5. i \in ColSet /\ j + 1 \in RowSet /\ i \notin board[j + 1] /\ j + 1 # 0
      BY <1>5, <1>6, <2>4
    <2>6. j \in RowSet /\ j # Rows - 1
      BY <2>1, <2>5, SizeFacts
    <2>7. i \in ColSet /\ j \in RowSet /\ i \notin b[j]
      BY <1>1, <2>5, <2>6
    <2> QED
      BY <2>7 DEF i, j
  <1>8. IsValidPosition(b, q)
    BY <1>7 DEF IsValidPosition
  <1> QED
    BY <1>8 DEF b, q

\* The flag tells nothing.
LEMMA OverIs ==
  ASSUME NEW a, NEW n, NEW t \in Tick, Told(a, t, n)
  PROVE  LET u == [t EXCEPT !.over = TRUE]
         IN  u \in Tick /\ u.over = TRUE /\ u.board = t.board /\ (Ended(u) <=> Ended(t)) /\ Told(a, u, n)
  <1> DEFINE u == [t EXCEPT !.over = TRUE]
  <1>1. u \in Tick /\ u.over = TRUE /\ u.board = t.board /\ u.tasks = t.tasks /\ u.current = t.current
    BY DEF Tick
  <1> HIDE DEF u
  <1>2. (Ended(u) <=> Ended(t)) /\ (Fixed(u) <=> Fixed(t))
    BY <1>1 DEF Ended, Fixed
  <1>3. PICK b \in Picture : Plays(a, t.tasks, b) /\ Matches(b, t, n)
    BY DEF Told
  <1>4. Matches(b, u, n)
    BY <1>1, <1>2, <1>3 DEF Matches
  <1>5. Told(a, u, n)
    BY <1>1, <1>3, <1>4 DEF Told
  <1> QED
    BY <1>1, <1>2, <1>5 DEF u

\* One garbage line: the game goes on with a lifted piece, or it is over.
LEMMA GarbageKeeps ==
  ASSUME NEW a, NEW n, NEW t, Held(a, t, n), NEW h \in ColSet
  PROVE  Held(a, GarbageAdded(t, h), n)
  <1> DEFINE u == Raised(t, h)
             z == CheckGameOver(u)
             o == [z EXCEPT !.over = TRUE]
  <1>1. GarbageAdded(t, h) = IF t.over THEN t ELSE IF Overflown(u.board) THEN o ELSE Lifted(u)
    BY DEF GarbageAdded, Raised
  <1>2. CASE Stopped(a, t, n)
    <2>1. GarbageAdded(t, h) = t
      BY <1>1, <1>2 DEF Stopped
    <2> QED
      BY <1>2, <2>1 DEF Held
  <1>3. ASSUME ~Stopped(a, t, n) PROVE Held(a, GarbageAdded(t, h), n)
    <2>1. /\ t \in Tick /\ t.over = FALSE /\ Told(a, t, n) /\ t.board[0] = {} /\ VisibleClear(t.board)
          /\ t.board \in Board /\ t.current \in Placed
      <3>1. CASE Free(a, t, n)
        BY <3>1, ClearIsVisible DEF Free, Tick
      <3>2. CASE Put(a, t, n)
        BY <3>2 DEF Put, Tick
      <3> QED
        BY <1>3, <3>1, <3>2 DEF Held
    <2>2. Retold(a, t, u, n) /\ (Ended(u) <=> Ended(t)) /\ u.board = LineAdded(t.board, h) /\ u.current = t.current
      BY <2>1, LineTells
    <2> HIDE DEF u
    <2>3. u \in Tick /\ Told(a, u, n) /\ u.over = FALSE /\ (Fixed(u) <=> Fixed(t))
      BY <2>1, <2>2 DEF Retold
    <2>4. CASE Overflown(u.board)
      <3>1. Retold(a, u, z, n) /\ Ended(z) /\ z.board = u.board
        BY <2>3, <2>4, OverTells
      <3> HIDE DEF z
      <3>2. z \in Tick /\ Told(a, z, n)
        BY <3>1 DEF Retold
      <3>3. o \in Tick /\ o.over = TRUE /\ o.board = z.board /\ Ended(o) /\ Told(a, o, n)
        BY <3>1, <3>2, OverIs
      <3>4. GarbageAdded(t, h) = o
        BY <1>1, <2>1, <2>4
      <3> HIDE DEF o
      <3> QED
        BY <2>4, <3>1, <3>3, <3>4 DEF Held, Stopped
    <2>5. CASE ~Overflown(u.board)
      <3>1. ~Overflown(t.board) /\ VisibleClear(u.board) /\ Clear(u.board) /\ u.board[0] = {}
        BY <2>1, <2>2, <2>5, LineClears
      <3> DEFINE q == Shifted(u.current, "UP")
                 w == Moved(u, q, "UP")
      <3>2. GarbageAdded(t, h) = IF IsValidPosition(u.board, u.current) THEN u ELSE w
        <4>1. Lifted(u) = IF IsValidPosition(u.board, u.current) THEN u ELSE w
          BY DEF Lifted, Moved
        <4> QED
          BY <1>1, <2>1, <2>5, <4>1
      <3>3. q \in Placed /\ q = HandleMove(u.current, "UP")
        BY <2>1, <2>2, PieceMoves DEF HandleMove
      <3>4. "UP" \in {"LEFT", "RIGHT", "ROTATE", "DOWN", "UP"}
        OBVIOUS
      <3>5. CASE Free(a, t, n)
        <4>1. ~Fixed(u) /\ ~Ended(u) /\ IsValidPosition(t.board, t.current)
          BY <2>2, <2>3, <3>5 DEF Free
        <4>2. CASE IsValidPosition(u.board, u.current)
          <5>1. Free(a, u, n)
            BY <2>3, <3>1, <4>1, <4>2 DEF Free
          <5> QED
            BY <3>2, <4>2, <5>1 DEF Held
        <4>3. CASE ~IsValidPosition(u.board, u.current)
          <5>1. IsValidPosition(u.board, q)
            BY <2>1, <2>2, <2>5, <4>1, <4>3, LiftedFits
          <5> HIDE DEF q
          <5>2. q \in Piece
            BY <3>3, <5>1, ValidIsPiece
          <5>3. Retold(a, u, w, n) /\ (Ended(w) <=> Ended(u)) /\ w.board = u.board /\ w.current = q
            BY <2>3, <3>3, <3>4, <4>1, <5>2, MoveTells
          <5> HIDE DEF w
          <5>4. Free(a, w, n)
            BY <2>3, <3>1, <4>1, <5>1, <5>3 DEF Free, Retold
          <5> QED
            BY <3>2, <4>3, <5>4 DEF Held
        <4> QED
          BY <4>2, <4>3
      <3>6. CASE Put(a, t, n)
        <4>1. Fixed(u) /\ ~Ended(u)
          BY <2>2, <2>3, <3>1, <3>6 DEF Put
        <4>2. Put(a, u, n)
          BY <2>3, <2>5, <3>1, <4>1 DEF Put
        <4> HIDE DEF q
        <4>3. Retold(a, u, w, n) /\ (Ended(w) <=> Ended(u)) /\ w.board = u.board
          BY <2>3, <3>3, <3>4, <4>1, MoveTells
        <4> HIDE DEF w
        <4>4. Put(a, w, n)
          BY <2>3, <2>5, <3>1, <4>1, <4>3 DEF Put, Retold
        <4> QED
          BY <3>2, <4>2, <4>4 DEF Held
      <3> QED
        BY <1>3, <3>5, <3>6 DEF Held
    <2> QED
      BY <2>4, <2>5
  <1> QED
    BY <1>2, <1>3

\* All garbage lines of a tick.
LEMMA GarbagesKeep ==
  ASSUME NEW a, NEW n, NEW t, Held(a, t, n), NEW holes \in Seq(ColSet)
  PROVE  Held(a, AddGarbageLines(t, holes), n)
  <1> DEFINE N == Len(holes)
             S == {s \in Tick : Held(a, s, n)}
             F == [k \in 1..N |-> [s \in S |-> GarbageAdded(s, holes[k])]]
             G(f) == [k \in 0..N |-> IF k = 0 THEN t ELSE GarbageAdded(f[k - 1], holes[k])]
  <1>1. N \in Nat /\ \A k \in 1..N : holes[k] \in ColSet
    OBVIOUS
  <1>2. \A s : Held(a, s, n) => s \in S
    BY DEF Held, Free, Put, Stopped
  <1>3. \A s \in S : Held(a, s, n)
    OBVIOUS
  <1> DEFINE h == CHOOSE f : f = G(f)
  <1>4. AddGarbageLines(t, holes) = h[N]
    BY DEF AddGarbageLines
  <1> HIDE DEF S, N
  <1>5. \A k \in 1..N : \A s \in S : GarbageAdded(s, holes[k]) \in S
    BY <1>1, <1>2, <1>3, GarbageKeeps
  <1>6. \E f \in [0..N -> S] : f[0] = t /\ \A k \in 1..N : f[k] = F[k][f[k - 1]]
    <2>1. Steps(S, N, F)
      BY <1>5 DEF Steps
    <2>2. t \in S
      BY <1>2
    <2> HIDE DEF F
    <2>3. HasRun(S, N, F, t)
      BY <1>1, <2>1, <2>2, LoopRuns
    <2> QED
      BY <2>3 DEF HasRun
  <1>7. ASSUME NEW f \in [0..N -> S], f[0] = t, \A k \in 1..N : f[k] = F[k][f[k - 1]]
        PROVE  f = G(f)
    <2>1. \A k \in 1..N : k - 1 \in 0..N /\ f[k - 1] \in S
      BY <1>1
    <2>2. \A k \in 1..N : f[k] = GarbageAdded(f[k - 1], holes[k])
      BY <1>7, <2>1
    <2>3. \A k \in 0..N : f[k] = IF k = 0 THEN t ELSE GarbageAdded(f[k - 1], holes[k])
      BY <1>7, <2>2, <1>1
    <2> QED
      BY <2>3
  <1>8. \E f : f = G(f)
    BY <1>6, <1>7
  <1>9. h = G(h)
    BY <1>8, Zenon
  <1> HIDE DEF h
  <1>10. h[0] = t /\ \A k \in 1..N : h[k] = GarbageAdded(h[k - 1], holes[k])
    <2>1. 0 \in 0..N /\ \A k \in 1..N : k \in 0..N /\ k # 0
      BY <1>1
    <2>2. h[0] = t
      BY <1>9, <2>1
    <2>3. \A k \in 1..N : h[k] = GarbageAdded(h[k - 1], holes[k])
      BY <1>9, <2>1
    <2> QED
      BY <2>2, <2>3
  <1> DEFINE T == {k \in Nat : k <= N => h[k] \in S}
  <1>11. 0 \in T
    BY <1>2, <1>10
  <1>12. ASSUME NEW k \in Nat, k \in T PROVE k + 1 \in T
    <2>1. SUFFICES ASSUME k + 1 <= N PROVE h[k + 1] \in S
      OBVIOUS
    <2>2. h[k] \in S /\ k + 1 \in 1..N /\ (k + 1) - 1 = k
      BY <1>1, <1>12, <2>1
    <2>3. h[k + 1] = GarbageAdded(h[k], holes[k + 1])
      BY <1>10, <2>2
    <2> QED
      BY <1>5, <2>2, <2>3
  <1>13. Nat \subseteq T
    <2> HIDE DEF T
    <2> QED
      BY <1>11, <1>12, CountUp
  <1>14. h[N] \in S
    BY <1>1, <1>13
  <1> QED
    BY <1>3, <1>4, <1>14

----------------------------------------------------------------------------
(* A whole tick. *)

Live(board, cur, next) == [kind |-> "live", board |-> board, cur |-> cur, next |-> next]

\* The last packet ends the game.
EndsGame(s) == s \in Seq(Task) /\ s # <<>> /\ s[Len(s)].type = "GAME_OVER"

\* The tick ended the game, and its packets tell so.
Finished(a, t) == EndsGame(t.tasks) /\ \E b \in Picture : b.kind = "dead" /\ Plays(a, t.tasks, b)

\* The game goes on, and the packets lead to the board, the piece and the next one.
Continues(a, t, n) ==
  /\ t.tasks \in Seq(Task) /\ t.board \in Board /\ Clear(t.board)
  /\ t.current \in Placed /\ IsValidPosition(t.board, t.current)
  /\ Live(t.board, t.current, n) \in Picture /\ Plays(a, t.tasks, Live(t.board, t.current, n))

\* A piece that is dealt lies in hidden rows, and they are empty.
LEMMA SpawnFits ==
  ASSUME NEW board, ~Overflown(board), NEW k \in Pieces
  PROVE  IsValidPosition(board, Spawned(k))
  <1> DEFINE p == Spawned(k)
  <1>1. p \in Placed /\ p.x = SpawnX /\ p.y = 0
    BY SpawnedIs DEF Spawned
  <1> HIDE DEF p
  <1>2. \A r \in 0..(Hidden - 1) : board[r] = {}
    BY DEF Overflown
  <1>3. ASSUME NEW c \in CellsOf(TETROMINOS, p) PROVE c[1] \in ColSet /\ c[2] \in RowSet /\ c[1] \notin board[c[2]]
    <2> DEFINE i == c[1]
               j == c[2]
    <2>1. i \in SpawnX..(SpawnX + 3) /\ j \in 0..3
      BY <1>1, CellFacts
    <2> HIDE DEF i, j
    <2>2. i \in ColSet /\ j \in RowSet /\ j \in 0..(Hidden - 1)
      BY <2>1, SizeFacts
    <2>3. i \notin board[j]
      BY <1>2, <2>2
    <2> QED
      BY <2>2, <2>3 DEF i, j
  <1> QED
    BY <1>3 DEF IsValidPosition, p

\* The live picture of a board and a piece on free cells.
LEMMA LiveIs ==
  ASSUME NEW board \in Board, NEW p \in Placed, IsValidPosition(board, p), NEW n \in Pieces
  PROVE  /\ Live(board, p, n) \in Picture
         /\ Live(board, p, n).kind = "live" /\ Live(board, p, n).board = board
         /\ Live(board, p, n).cur = p /\ Live(board, p, n).next = n
         /\ \A b \in Picture :
              b.kind = "live" /\ b.board = board /\ b.cur = p /\ b.next = n => b = Live(board, p, n)
  <1>1. p \in Placed \cap Piece
    BY ValidIsPiece
  <1>2. Live(board, p, n) \in Picture
    BY <1>1 DEF Live, Picture
  <1> QED
    BY <1>2 DEF Live, Picture

\* The tick up to its spawn.
LEMMA SpawnKeeps ==
  ASSUME NEW a, NEW nx \in Pieces, nx = next_, NEW w, Held(a, w, nx), ~Overflown(w.board), NEW next \in Pieces
  PROVE  LET t == AddSpawnTasks(w, next)
         IN  t.over = FALSE /\ Continues(a, t, IF Fixed(t) THEN next ELSE nx)
  <1>0. Free(a, w, nx) \/ Put(a, w, nx)
    BY DEF Held, Stopped
  <1>1. /\ w \in Tick /\ w.over = FALSE /\ ~Ended(w) /\ Clear(w.board) /\ Told(a, w, nx)
        /\ w.tasks \in Seq(Task) /\ w.board \in Board
    <2>1. CASE Free(a, w, nx)
      BY <2>1 DEF Free, Tick
    <2>2. CASE Put(a, w, nx)
      BY <2>2, ClearIsVisible DEF Put, Tick
    <2> QED
      BY <1>0, <2>1, <2>2
  <1>2. PICK b \in Picture : Plays(a, w.tasks, b) /\ Matches(b, w, nx)
    BY <1>1 DEF Told
  <1>3. b.kind = "live" /\ b.board = w.board /\ b.next = nx /\ b.cur = IF Fixed(w) THEN NoPiece ELSE w.current
    BY <1>1, <1>2 DEF Matches
  <1>4. CASE ~Fixed(w)
    <2>1. AddSpawnTasks(w, next) = w
      BY <1>4 DEF AddSpawnTasks
    <2>2. w.current \in Placed /\ IsValidPosition(w.board, w.current)
      BY <1>0, <1>1, <1>4 DEF Free, Put, Tick
    <2>3. b = Live(w.board, w.current, nx)
      BY <1>1, <1>3, <1>4, <2>2, LiveIs
    <2>4. Continues(a, w, nx)
      BY <1>1, <1>2, <2>2, <2>3 DEF Continues
    <2> QED
      BY <1>1, <1>4, <2>1, <2>4
  <1>5. CASE Fixed(w)
    <2> DEFINE x == [type |-> "SPAWN", shape |-> nx, next |-> next]
               p == Spawned(nx)
               t == [w EXCEPT !.current = p, !.tasks = Append(w.tasks, x)]
               c == Live(w.board, p, next)
    <2>1. x \in Task /\ x.type = "SPAWN" /\ x.shape = nx /\ x.next = next
      BY DEF Task
    <2>2. AddSpawnTasks(w, next) = t
      BY <1>5 DEF AddSpawnTasks
    <2>3. p \in Placed /\ IsValidPosition(w.board, p)
      BY <1>1, SpawnedIs, SpawnFits DEF Clear
    <2>4. /\ c \in Picture /\ c.kind = "live" /\ c.board = w.board /\ c.cur = p /\ c.next = next
      BY <1>1, <2>3, LiveIs
    <2> HIDE DEF x
    <2>5. Append(w.tasks, x) \in Seq(Task)
      BY <1>1, <2>1
    <2>6. t \in Tick /\ t.over = FALSE /\ t.board = w.board /\ t.current = p /\ t.tasks = Append(w.tasks, x)
      BY <1>1, <2>3, <2>5 DEF Tick
    <2> HIDE DEF t
    <2>7. Fixed(t)
      BY <1>1, <1>5, <2>1, <2>6, AppendedTask
    <2>8. c = [b EXCEPT !.cur = Spawned(x.shape), !.next = x.next]
      <3> DEFINE z == [b EXCEPT !.cur = p, !.next = next]
      <3>1. p \in Placed \cap Piece
        BY <2>3, ValidIsPiece
      <3>2. z \in Picture /\ z.kind = "live" /\ z.board = w.board /\ z.cur = p /\ z.next = next
        <4> HIDE DEF p
        <4> QED
          BY <1>3, <3>1 DEF Picture
      <3>3. z = [b EXCEPT !.cur = Spawned(x.shape), !.next = x.next]
        BY <2>1
      <3> HIDE DEF z
      <3>4. z = c
        BY <1>1, <2>3, <3>2, LiveIs
      <3> QED
        BY <3>3, <3>4
    <2> HIDE DEF c
    <2>9. Follows(x, b, c)
      BY <1>3, <2>1, <2>8 DEF Follows
    <2>10. Plays(a, Append(w.tasks, x), c)
      BY <1>1, <1>2, <2>1, <2>4, <2>9, PlaysOn
    <2>11. Continues(a, t, next)
      BY <1>1, <2>3, <2>4, <2>5, <2>6, <2>10 DEF Continues, c
    <2> QED
      BY <2>2, <2>6, <2>7, <2>11
  <1> QED
    BY <1>4, <1>5

\* A tick from a sound board: the game is finished or it continues on a sound board.
LEMMA TickKeeps ==
  ASSUME NEW bd \in Board, NEW cur \in Placed, NEW nx \in Pieces, bd = board_, cur = current_, nx = next_,
         Clear(bd), IsValidPosition(bd, cur), NEW inputs, NEW holes \in Seq(ColSet), NEW next \in Pieces
  PROVE  LET t == GameTick(inputs, holes, next)
             a == Live(bd, cur, nx)
         IN  \/ t.over = TRUE /\ Finished(a, t)
             \/ t.over = FALSE /\ Continues(a, t, IF Fixed(t) THEN next ELSE nx)
  <1> DEFINE a == Live(bd, cur, nx)
             t0 == [board |-> bd, current |-> cur, tasks |-> <<>>, over |-> FALSE]
             u == ProcessTick(t0, inputs)
             w == AddGarbageLines(u, holes)
             t1 == CheckGameOver(w)
             o == [t1 EXCEPT !.over = TRUE]
  <1>1. a \in Picture /\ a.kind = "live" /\ a.board = bd /\ a.cur = cur /\ a.next = nx
    BY LiveIs
  <1>2. GameTick(inputs, holes, next) = IF Overflown(t1.board) THEN o ELSE AddSpawnTasks(t1, next)
    BY DEF GameTick
  <1> HIDE DEF a
  <1>3. /\ t0 \in Tick /\ t0.board = bd /\ t0.current = cur /\ t0.tasks = <<>> /\ t0.over = FALSE
        /\ ~Fixed(t0) /\ ~Ended(t0)
    BY DEF Tick, Fixed, Ended
  <1> HIDE DEF t0
  <1>4. Free(a, t0, nx)
    <2>1. Matches(a, t0, nx)
      BY <1>1, <1>3 DEF Matches
    <2>2. Told(a, t0, nx)
      BY <1>1, <1>3, <2>1, PlaysNothing DEF Told
    <2> QED
      BY <1>3, <2>2 DEF Free
  <1>5. Held(a, u, nx)
    BY <1>4, InputsKeep DEF Held
  <1> HIDE DEF u
  <1>6. Held(a, w, nx)
    BY <1>5, GarbagesKeep
  <1> HIDE DEF w
  <1>7. w \in Tick /\ Told(a, w, nx) /\ w.tasks \in Seq(Task)
    BY <1>6 DEF Held, Free, Put, Stopped, Tick
  <1>8. CASE Overflown(w.board)
    <2>1. Retold(a, w, t1, nx) /\ Ended(t1) /\ t1.board = w.board /\ t1.tasks = Append(w.tasks, [type |-> "GAME_OVER"])
      BY <1>7, <1>8, OverTells
    <2> HIDE DEF t1
    <2>2. t1 \in Tick /\ Told(a, t1, nx)
      BY <2>1 DEF Retold
    <2>3. GameTick(inputs, holes, next) = o
      BY <1>2, <1>8, <2>1
    <2>4. o.over = TRUE /\ o.tasks = t1.tasks
      BY <2>2 DEF Tick
    <2> HIDE DEF o
    <2>5. EndsGame(o.tasks)
      <3> DEFINE x == [type |-> "GAME_OVER"]
      <3>1. x \in Task /\ x.type = "GAME_OVER"
        BY DEF Task
      <3> HIDE DEF x
      <3>2. EndsGame(Append(w.tasks, x))
        BY <1>7, <3>1 DEF EndsGame
      <3> QED
        BY <2>1, <2>4, <3>2 DEF x
    <2>6. PICK b \in Picture : Plays(a, t1.tasks, b) /\ Matches(b, t1, nx)
      BY <2>2 DEF Told
    <2>7. b.kind = "dead"
      BY <2>1, <2>6 DEF Matches
    <2>8. Finished(a, o)
      BY <2>4, <2>5, <2>6, <2>7 DEF Finished
    <2> QED
      BY <2>3, <2>4, <2>8 DEF a
  <1>9. CASE ~Overflown(w.board)
    <2>1. t1 = w
      BY <1>9 DEF CheckGameOver
    <2> DEFINE t == AddSpawnTasks(w, next)
    <2>2. GameTick(inputs, holes, next) = t
      BY <1>2, <1>9, <2>1
    <2>3. t.over = FALSE /\ Continues(a, t, IF Fixed(t) THEN next ELSE nx)
      BY <1>6, <1>9, SpawnKeeps
    <2> HIDE DEF t
    <2> QED
      BY <2>2, <2>3 DEF a
  <1> QED
    BY <1>8, <1>9

----------------------------------------------------------------------------
(* The room. *)

\* A running game, between two ticks.
Runs(board, cur, next, b) ==
  /\ board \in Board /\ Clear(board) /\ cur \in Placed /\ IsValidPosition(board, cur)
  /\ b \in Bags /\ next \in b

\* The room runs a sound game or has none.
ServerInv ==
  /\ room_state \in {"WAIT", "PLAY"}
  /\ room_state = "PLAY" => Runs(board_, current_, next_, bag)
  /\ room_state = "WAIT" => board_ = EmptyBoard /\ current_ = NoPiece /\ next_ = "none" /\ bag = {}

\* The empty board.
LEMMA EmptyIs == EmptyBoard \in Board /\ Clear(EmptyBoard)
  <1>1. EmptyBoard \in Board /\ \A r \in RowSet : EmptyBoard[r] = {}
    BY DEF EmptyBoard, Board
  <1>2. ~Overflown(EmptyBoard)
    BY <1>1, ColumnFacts DEF Overflown
  <1> QED
    BY <1>1, <1>2, ColumnFacts DEF Clear

\* A game begins with a piece in an empty board.
LEMMA StartRuns ==
  ASSUME NEW b \in Bags, NEW first \in b, NEW next \in b
  PROVE  Runs(EmptyBoard, Spawned(first), next, b) /\ first \in Pieces /\ next \in Pieces
  <1>1. first \in Pieces /\ next \in Pieces
    BY DEF Pieces
  <1>2. Spawned(first) \in Placed /\ IsValidPosition(EmptyBoard, Spawned(first))
    BY <1>1, EmptyIs, SpawnedIs, SpawnFits DEF Clear
  <1> QED
    BY <1>1, <1>2, EmptyIs DEF Runs

\* A tick of a sound game, as the room and its queue of packets see it.
LEMMA TickStep ==
  ASSUME ServerInv, ProcessGameTick
  PROVE  /\ room_state = "PLAY" /\ s2c = <<>> /\ UNCHANGED <<c2s, client>>
         /\ \E bd, cur, nx, t, n :
              /\ bd = board_ /\ cur = current_ /\ nx = next_ /\ Runs(bd, cur, nx, bag)
              /\ s2c' = t.tasks
              /\ \/ Finished(Live(bd, cur, nx), t) /\ ClearGame
                 \/ /\ Continues(Live(bd, cur, nx), t, n) /\ n \in bag
                    /\ board_' = t.board /\ current_' = t.current /\ next_' = n
                    /\ UNCHANGED <<room_state, bag>>
  <1>1. room_state = "PLAY" /\ s2c = <<>> /\ UNCHANGED <<c2s, client>>
    BY DEF ProcessGameTick
  <1>2. PICK bd, cur, nx, b : bd = board_ /\ cur = current_ /\ nx = next_ /\ b = bag
    OBVIOUS
  <1>3. Runs(bd, cur, nx, b)
    BY <1>1, <1>2 DEF ServerInv
  <1>4. PICK inputs \in {s \in SUBSET {"LEFT", "RIGHT", "ROTATE", "DOWN", "DROP"} : Cardinality(s) <= MaxInputs},
             holes \in UNION {[1..k -> HoleCols] : k \in 0..MaxGarbage}, next \in bag :
          LET t == GameTick(inputs, holes, next)
          IN  /\ s2c' = t.tasks
              /\ IF t.over THEN ClearGame
                 ELSE /\ board_' = t.board /\ current_' = t.current
                      /\ next_' = IF Fixed(t) THEN next ELSE next_
                      /\ UNCHANGED <<room_state, bag>>
    BY Zenon DEF ProcessGameTick
  <1>5. PICK t : t = GameTick(inputs, holes, next)
    OBVIOUS
  <1>6. holes \in Seq(ColSet)
    <2>1. PICK k \in 0..MaxGarbage : holes \in [1..k -> HoleCols]
      BY <1>4
    <2>2. k \in Nat /\ HoleCols \subseteq ColSet
      BY <2>1, GameAssumption, SizeFacts
    <2>3. holes \in [1..k -> ColSet]
      BY <2>1, <2>2
    <2> QED
      BY <2>2, <2>3
  <1>7. nx \in Pieces /\ next \in Pieces
    BY <1>2, <1>3, <1>4 DEF Runs, Pieces
  <1> DEFINE n == IF Fixed(t) THEN next ELSE nx
             a == Live(bd, cur, nx)
  <1>8. \/ t.over = TRUE /\ Finished(a, t)
        \/ t.over = FALSE /\ Continues(a, t, n)
    <2>1. /\ bd \in Board /\ cur \in Placed /\ nx \in Pieces /\ bd = board_ /\ cur = current_ /\ nx = next_
          /\ Clear(bd) /\ IsValidPosition(bd, cur)
      BY <1>2, <1>3, <1>7 DEF Runs
    <2> DEFINE u == GameTick(inputs, holes, next)
               m == IF Fixed(u) THEN next ELSE nx
    <2>2. \/ u.over = TRUE /\ Finished(a, u)
          \/ u.over = FALSE /\ Continues(a, u, m)
      BY <2>1, <1>6, <1>7, TickKeeps
    <2>3. u = t
      BY <1>5
    <2>4. m = n
      BY <2>3
    <2> HIDE DEF a, u, m, n
    <2> QED
      BY <2>2, <2>3, <2>4
  <1>9. s2c' = t.tasks
    BY <1>4, <1>5
  <1>10. t.over = TRUE => ClearGame
    BY <1>4, <1>5
  <1>11. t.over = FALSE => board_' = t.board /\ current_' = t.current /\ next_' = n /\ UNCHANGED <<room_state, bag>>
    BY <1>2, <1>4, <1>5
  <1>12. n \in bag
    BY <1>2, <1>3, <1>4 DEF Runs
  <1> HIDE DEF n, a
  <1>13. \/ Finished(a, t) /\ ClearGame
         \/ /\ Continues(a, t, n) /\ n \in bag
            /\ board_' = t.board /\ current_' = t.current /\ next_' = n
            /\ UNCHANGED <<room_state, bag>>
    BY <1>8, <1>10, <1>11, <1>12
  <1> QED
    BY <1>1, <1>2, <1>3, <1>9, <1>13 DEF a

\* The room without a game.
LEMMA ClearGameKeeps ==
  ASSUME ClearGame
  PROVE  ServerInv'
  BY DEF ClearGame, ServerInv, EmptyBoard, RowSet, Rows, NoPiece

\* Every step of the room and of the client keeps the game sound.
LEMMA ServerStep ==
  ASSUME ServerInv, [Next]_vars
  PROVE  ServerInv'
  <1>1. ASSUME ProcessGameTick PROVE ServerInv'
    <2>1. /\ room_state = "PLAY"
          /\ \E bd, cur, nx, t, n :
              /\ bd = board_ /\ cur = current_ /\ nx = next_ /\ Runs(bd, cur, nx, bag)
              /\ s2c' = t.tasks
              /\ \/ Finished(Live(bd, cur, nx), t) /\ ClearGame
                 \/ /\ Continues(Live(bd, cur, nx), t, n) /\ n \in bag
                    /\ board_' = t.board /\ current_' = t.current /\ next_' = n
                    /\ UNCHANGED <<room_state, bag>>
      BY <1>1, TickStep
    <2>2. PICK bd, cur, nx, t, n :
            /\ Runs(bd, cur, nx, bag)
            /\ \/ ClearGame
               \/ /\ Continues(Live(bd, cur, nx), t, n) /\ n \in bag
                  /\ board_' = t.board /\ current_' = t.current /\ next_' = n
                  /\ UNCHANGED <<room_state, bag>>
      BY <2>1
    <2>3. CASE ClearGame
      BY <2>3, ClearGameKeeps
    <2>4. CASE ~ClearGame
      <3>1. Runs(t.board, t.current, n, bag)
        BY <2>2, <2>4 DEF Runs, Continues
      <3>2. board_' = t.board /\ current_' = t.current /\ next_' = n /\ room_state' = "PLAY" /\ bag' = bag
        BY <2>1, <2>2, <2>4
      <3>3. Runs(board_, current_, next_, bag)'
        BY <3>1, <3>2 DEF Runs
      <3> QED
        BY <3>2, <3>3 DEF ServerInv
    <2> QED
      BY <2>3, <2>4
  <1>2. ASSUME StartGame PROVE ServerInv'
    <2>1. CASE room_state = "PLAY"
      BY <1>2, <2>1 DEF StartGame, ServerInv, server, Runs
    <2>2. CASE room_state # "PLAY"
      <3>1. PICK b \in Bags : \E first, next \in b :
              /\ bag' = b /\ room_state' = "PLAY" /\ board_' = EmptyBoard
              /\ current_' = Spawned(first) /\ next_' = next
        BY <1>2, <2>2 DEF StartGame
      <3>2. PICK first \in b, next \in b :
              /\ bag' = b /\ room_state' = "PLAY" /\ board_' = EmptyBoard
              /\ current_' = Spawned(first) /\ next_' = next
        BY <3>1
      <3>3. Runs(EmptyBoard, Spawned(first), next, b)
        BY StartRuns
      <3>4. Runs(board_, current_, next_, bag)'
        BY <3>2, <3>3 DEF Runs
      <3> QED
        BY <3>2, <3>4 DEF ServerInv
    <2> QED
      BY <2>1, <2>2
  <1>3. ASSUME GiveUp PROVE ServerInv'
    <2>1. CASE room_state = "PLAY"
      BY <1>3, <2>1, ClearGameKeeps DEF GiveUp
    <2>2. CASE room_state # "PLAY"
      <3>1. UNCHANGED server
        BY <1>3, <2>2 DEF GiveUp
      <3> QED
        BY <2>2, <3>1 DEF ServerInv, server, EmptyBoard, RowSet, Rows, NoPiece
    <2> QED
      BY <2>1, <2>2
  <1>4. ASSUME UNCHANGED server PROVE ServerInv'
    BY <1>4 DEF ServerInv, server, Runs, EmptyBoard, RowSet, Rows, NoPiece
  <1>5. ASSUME HandlePacket \/ AnimateGameover \/ PressStart \/ PressGiveUp \/ UNCHANGED vars PROVE UNCHANGED server
    BY <1>5 DEF HandlePacket, AnimateGameover, PressStart, PressGiveUp, vars
  <1> QED
    BY <1>1, <1>2, <1>3, <1>4, <1>5 DEF Next

\* The room's board is sound between two ticks, in every game of every size: the falling
\* piece lies on free cells, no row is full and no hidden row is occupied
\* (Tetris::ProcessTick, ClearLine, CheckGameOver, AddGarbageLines, SingleRoom).
THEOREM BoardIsSound == Spec => []BoardSound
  <1>1. Init => ServerInv
    BY DEF Init, ServerInv
  <1>2. ServerInv /\ [Next]_vars => ServerInv'
    BY ServerStep
  <1>3. ServerInv => BoardSound
    BY DEF ServerInv, Runs, Clear, BoardSound, PieceIsFree, RowsSettled
  <1> QED
    BY <1>1, <1>2, <1>3, PTL DEF Spec

----------------------------------------------------------------------------
(* The client's grid. *)

Grid == [RowSet -> [ColSet -> {"None", "Colour", "G"}]]

\* The filled columns of a row.
Filled(g, r) == {c \in ColSet : g[r][c] # "None"}

\* Every cell of the grid is filled exactly where the board is.
Agree(g, board) == \A r \in RowSet : Filled(g, r) = board[r]

\* What every handler does to the grid, it does to the board: FIX.
LEMMA FixAgrees ==
  ASSUME NEW g \in Grid, NEW board \in Board, Agree(g, board), NEW p \in Placed, FixTetromino(board, p) \in Board
  PROVE  FixCells(g, p) \in Grid /\ Agree(FixCells(g, p), FixTetromino(board, p))
  <1> DEFINE C == CellsOf(SHAPES, p)
             f == FixTetromino(board, p)
  <1>1. \A r \in RowSet : \A k : k \in f[r] <=> k \in board[r] \/ <<k, r>> \in C
    BY FixRows, TablesAgree
  <1>2. FixCells(g, p) = [r \in RowSet |-> [c \in ColSet |-> IF <<c, r>> \in C THEN "Colour" ELSE g[r][c]]]
    BY DEF FixCells
  <1> HIDE DEF C, f
  <1>3. \A r \in RowSet : \A c \in ColSet : g[r][c] \in {"None", "Colour", "G"}
    BY DEF Grid
  <1>4. FixCells(g, p) \in Grid
    BY <1>2, <1>3 DEF Grid
  <1>5. ASSUME NEW r \in RowSet PROVE Filled(FixCells(g, p), r) = f[r]
    <2>1. \A c \in ColSet : FixCells(g, p)[r][c] = IF <<c, r>> \in C THEN "Colour" ELSE g[r][c]
      BY <1>2
    <2>2. \A c \in ColSet : c \in board[r] <=> g[r][c] # "None"
      BY DEF Agree, Filled
    <2>3. f[r] \subseteq ColSet
      BY DEF Board, f
    <2>4. \A c \in ColSet : c \in Filled(FixCells(g, p), r) <=> c \in f[r]
      BY <1>1, <2>1, <2>2 DEF Filled
    <2> QED
      BY <2>3, <2>4 DEF Filled
  <1> QED
    BY <1>4, <1>5 DEF Agree, f

\* CLEAR_LINE.
LEMMA ClearAgrees ==
  ASSUME NEW g \in Grid, NEW board \in Board, Agree(g, board), NEW y \in RowSet
  PROVE  ClearLines(g, y) \in Grid /\ Agree(ClearLines(g, y), RowRemoved(board, y))
  <1>1. \A r \in RowSet : r # 0 => r - 1 \in RowSet
    BY SizeFacts
  <1>2. \A r \in RowSet : g[r] \in [ColSet -> {"None", "Colour", "G"}]
    BY DEF Grid
  <1>3. EmptyRow \in [ColSet -> {"None", "Colour", "G"}] /\ \A c \in ColSet : EmptyRow[c] = "None"
    BY DEF EmptyRow
  <1>4. \A r \in RowSet : ClearLines(g, y)[r] = IF r = 0 THEN EmptyRow ELSE IF r <= y THEN g[r - 1] ELSE g[r]
    BY DEF ClearLines
  <1>5. \A r \in RowSet : ClearLines(g, y)[r] \in [ColSet -> {"None", "Colour", "G"}]
    BY <1>1, <1>2, <1>3, <1>4
  <1>6. ClearLines(g, y) \in Grid
    BY <1>5 DEF ClearLines, Grid
  <1>7. \A r \in RowSet : RowRemoved(board, y)[r] = IF r = 0 THEN {} ELSE IF r <= y THEN board[r - 1] ELSE board[r]
    BY RemovedIs
  <1>8. ASSUME NEW r \in RowSet PROVE Filled(ClearLines(g, y), r) = RowRemoved(board, y)[r]
    <2>1. CASE r = 0
      BY <1>3, <1>4, <1>7, <2>1 DEF Filled
    <2>2. CASE r # 0 /\ r <= y
      <3>1. Filled(g, r - 1) = board[r - 1]
        BY <1>1, <2>2 DEF Agree
      <3>2. ClearLines(g, y)[r] = g[r - 1] /\ RowRemoved(board, y)[r] = board[r - 1]
        BY <1>4, <1>7, <2>2
      <3> QED
        BY <3>1, <3>2 DEF Filled
    <2>3. CASE r # 0 /\ ~(r <= y)
      <3>1. Filled(g, r) = board[r]
        BY DEF Agree
      <3>2. ClearLines(g, y)[r] = g[r] /\ RowRemoved(board, y)[r] = board[r]
        BY <1>4, <1>7, <2>3
      <3> QED
        BY <3>1, <3>2 DEF Filled
    <2> QED
      BY <2>1, <2>2, <2>3
  <1> QED
    BY <1>6, <1>8 DEF Agree

\* ADD_LINE; also without a game, when only the type matters.
LEMMA LineAgrees ==
  ASSUME NEW g \in Grid, NEW h \in ColSet
  PROVE  /\ AddLine(g, h) \in Grid
         /\ \A board \in Board : Agree(g, board) => Agree(AddLine(g, h), LineAdded(board, h))
  <1> DEFINE last == [c \in ColSet |-> IF c = h THEN "None" ELSE "G"]
  <1>1. Rows - 1 \in RowSet /\ \A r \in RowSet : r # Rows - 1 => r + 1 \in RowSet
    BY SizeFacts
  <1>2. \A r \in RowSet : g[r] \in [ColSet -> {"None", "Colour", "G"}]
    BY DEF Grid
  <1>3. last \in [ColSet -> {"None", "Colour", "G"}] /\ {c \in ColSet : last[c] # "None"} = ColSet \ {h}
    OBVIOUS
  <1>4. \A r \in RowSet : AddLine(g, h)[r] = IF r = Rows - 1 THEN last ELSE g[r + 1]
    BY DEF AddLine
  <1> HIDE DEF last
  <1>5. \A r \in RowSet : AddLine(g, h)[r] \in [ColSet -> {"None", "Colour", "G"}]
    BY <1>1, <1>2, <1>3, <1>4
  <1>6. AddLine(g, h) \in Grid
    BY <1>5 DEF AddLine, Grid
  <1>7. ASSUME NEW board \in Board, Agree(g, board), NEW r \in RowSet
        PROVE  Filled(AddLine(g, h), r) = LineAdded(board, h)[r]
    <2>1. CASE r = Rows - 1
      <3>1. LineAdded(board, h)[r] = ColSet \ {h} /\ AddLine(g, h)[r] = last
        BY <1>4, <2>1 DEF LineAdded
      <3> QED
        BY <1>3, <3>1 DEF Filled
    <2>2. CASE r # Rows - 1
      <3>1. LineAdded(board, h)[r] = board[r + 1] /\ AddLine(g, h)[r] = g[r + 1]
        BY <1>4, <2>2 DEF LineAdded
      <3>2. Filled(g, r + 1) = board[r + 1]
        BY <1>1, <1>7, <2>2 DEF Agree
      <3> QED
        BY <3>1, <3>2 DEF Filled
    <2> QED
      BY <2>1, <2>2
  <1>8. ASSUME NEW board \in Board, Agree(g, board) PROVE Agree(AddLine(g, h), LineAdded(board, h))
    BY <1>7, <1>8 DEF Agree
  <1> QED
    BY <1>6, <1>8

\* The empty grid is the empty board.
LEMMA EmptyAgrees ==
  EmptyGrid \in Grid /\ Agree(EmptyGrid, EmptyBoard)
  <1>1. \A r \in RowSet : Filled(EmptyGrid, r) = {}
    BY DEF Filled, EmptyGrid
  <1>2. \A r \in RowSet : EmptyBoard[r] = {}
    BY DEF EmptyBoard
  <1> QED
    BY <1>1, <1>2 DEF Agree, EmptyGrid, Grid

\* Where the client may move a piece, the server may.
LEMMA CanMoveAgrees ==
  ASSUME NEW g \in Grid, NEW board \in Board, Agree(g, board), NEW p
  PROVE  CanMove(g, p) <=> IsValidPosition(board, p)
  <1> DEFINE C == CellsOf(TETROMINOS, p)
  <1>1. \A i \in ColSet : \A j \in RowSet : g[j][i] = "None" <=> i \notin board[j]
    BY DEF Agree, Filled
  <1>2. CanMove(g, p) <=> \A c \in C : c[1] \in ColSet /\ c[2] \in RowSet /\ g[c[2]][c[1]] = "None"
    BY TablesAgree DEF CanMove
  <1>3. IsValidPosition(board, p) <=> \A c \in C : c[1] \in ColSet /\ c[2] \in RowSet /\ c[1] \notin board[c[2]]
    BY DEF IsValidPosition
  <1> HIDE DEF C
  <1>4. \A c \in C : c[1] \in ColSet /\ c[2] \in RowSet => (g[c[2]][c[1]] = "None" <=> c[1] \notin board[c[2]])
    BY <1>1
  <1> QED
    BY <1>2, <1>3, <1>4

\* The ghost lies where a DROP ends.
LEMMA GhostAgrees ==
  ASSUME NEW g \in Grid, NEW board \in Board, Agree(g, board), NEW p \in Placed, IsValidPosition(board, p)
  PROVE  MakeLanding(g, p) = Landed(board, p)
  <1> DEFINE V(y) == IsValidPosition(board, [p EXCEPT !.y = y])
             M(y) == CanMove(g, [p EXCEPT !.y = y])
             S == {y \in p.y..Rows : \A z \in p.y..y : V(z)}
             R == {y \in p.y..Rows : \A z \in (p.y + 1)..y : M(z)}
  <1>1. \A y : M(y) <=> V(y)
    BY CanMoveAgrees
  <1>2. p.y \in Int /\ [p EXCEPT !.y = p.y] = p
    BY PieceFacts DEF Placed
  <1>3. V(p.y)
    BY <1>2
  <1>4. Landed(board, p) = [p EXCEPT !.y = Max({p.y} \cup S)] /\ MakeLanding(g, p) = [p EXCEPT !.y = Max({p.y} \cup R)]
    BY DEF Landed, MakeLanding
  <1> HIDE DEF V, M
  <1>5. S = R
    <2> SUFFICES ASSUME NEW y \in p.y..Rows
                 PROVE  (\A z \in p.y..y : V(z)) <=> \A z \in (p.y + 1)..y : M(z)
      OBVIOUS
    <2>1. y \in Int /\ \A z \in p.y..y : z = p.y \/ z \in (p.y + 1)..y
      BY <1>2, SizeFacts
    <2>2. \A z \in (p.y + 1)..y : z \in p.y..y
      BY <1>2, <2>1
    <2> QED
      BY <1>1, <1>3, <2>1, <2>2
  <1> QED
    BY <1>4, <1>5

----------------------------------------------------------------------------
(* The client's handlers. *)

ClientTypes ==
  /\ state \in {"WAIT", "PLAY", "GAMEOVER_ANIMATING"} /\ grid \in Grid
  /\ current_tetromino \in {NoPiece} \cup (Placed \cap Piece) /\ next_tetromino_shape \in Pieces \cup {"none"}
  /\ anim_target_line \in (-Rows - 1)..(Rows - 1) /\ crashed \in BOOLEAN

EmptyCopy == grid = EmptyGrid /\ current_tetromino = NoPiece /\ next_tetromino_shape = "none"

\* The client shows picture p: of a game that is over only that a missing piece is missing.
Shows(p) ==
  /\ p.kind = "idle" => state = "WAIT" /\ EmptyCopy
  /\ p.kind = "live" => /\ state = "PLAY" /\ Agree(grid, p.board)
                        /\ current_tetromino = p.cur /\ next_tetromino_shape = p.next
  /\ p.kind = "dead" => state # "PLAY" /\ (p.cur = NoPiece => current_tetromino = NoPiece)

\* What handle_packet does with each type of packet.
LEMMA PacketIs ==
  ASSUME HandlePacket, NEW x, x = Head(s2c)
  PROVE  /\ s2c # <<>> /\ s2c' = Tail(s2c) /\ ~crashed /\ UNCHANGED <<server, c2s, crashed>>
         /\ x.type = "SINGLE_START" => state' = "PLAY" /\ UNCHANGED <<copy, anim_target_line>>
         /\ x.type = "GAME_OVER" => ProcessGameover /\ UNCHANGED copy
         /\ x.type = "MOVE" =>
              /\ current_tetromino' = IF current_tetromino = NoPiece THEN NoPiece ELSE HandleMove(current_tetromino, x.move)
              /\ UNCHANGED <<grid, next_tetromino_shape, state, anim_target_line>>
         /\ x.type = "SPAWN" =>
              /\ current_tetromino' = Spawned(x.shape) /\ next_tetromino_shape' = x.next
              /\ UNCHANGED <<grid, state, anim_target_line>>
         /\ x.type = "FIX" =>
              /\ grid' = IF current_tetromino = NoPiece THEN grid ELSE FixCells(grid, FixPlace(current_tetromino, x.x, x.y))
              /\ current_tetromino' = NoPiece
              /\ UNCHANGED <<next_tetromino_shape, state, anim_target_line>>
         /\ x.type = "CLEAR_LINE" =>
              grid' = ClearLines(grid, x.y) /\ UNCHANGED <<current_tetromino, next_tetromino_shape, state, anim_target_line>>
         /\ x.type = "ADD_LINE" =>
              grid' = AddLine(grid, x.x) /\ UNCHANGED <<current_tetromino, next_tetromino_shape, state, anim_target_line>>
  <1>1. s2c # <<>> /\ s2c' = Tail(s2c) /\ ~crashed /\ UNCHANGED <<server, c2s, crashed>>
    BY DEF HandlePacket
  <1>2. ASSUME x.type = "SINGLE_START" PROVE state' = "PLAY" /\ UNCHANGED <<copy, anim_target_line>>
    BY <1>2 DEF HandlePacket
  <1>3. ASSUME x.type = "GAME_OVER" PROVE ProcessGameover /\ UNCHANGED copy
    BY <1>3 DEF HandlePacket
  <1>4. ASSUME x.type # "SINGLE_START", x.type # "GAME_OVER" PROVE BoardPacket(x)
    BY <1>4 DEF HandlePacket
  <1>5. ASSUME x.type = "MOVE"
        PROVE  /\ current_tetromino' = IF current_tetromino = NoPiece THEN NoPiece ELSE HandleMove(current_tetromino, x.move)
               /\ UNCHANGED <<grid, next_tetromino_shape, state, anim_target_line>>
    <2>1. BoardPacket(x)
      BY <1>4, <1>5
    <2> QED
      BY <1>5, <2>1 DEF BoardPacket
  <1>6. ASSUME x.type = "SPAWN"
        PROVE  /\ current_tetromino' = Spawned(x.shape) /\ next_tetromino_shape' = x.next
               /\ UNCHANGED <<grid, state, anim_target_line>>
    <2>1. BoardPacket(x)
      BY <1>4, <1>6
    <2> QED
      BY <1>6, <2>1 DEF BoardPacket
  <1>7. ASSUME x.type = "FIX"
        PROVE  /\ grid' = IF current_tetromino = NoPiece THEN grid ELSE FixCells(grid, FixPlace(current_tetromino, x.x, x.y))
               /\ current_tetromino' = NoPiece
               /\ UNCHANGED <<next_tetromino_shape, state, anim_target_line>>
    <2>1. BoardPacket(x)
      BY <1>4, <1>7
    <2> QED
      BY <1>7, <2>1 DEF BoardPacket
  <1>8. ASSUME x.type = "CLEAR_LINE"
        PROVE  grid' = ClearLines(grid, x.y) /\ UNCHANGED <<current_tetromino, next_tetromino_shape, state, anim_target_line>>
    <2>1. BoardPacket(x)
      BY <1>4, <1>8
    <2> QED
      BY <1>8, <2>1 DEF BoardPacket
  <1>9. ASSUME x.type = "ADD_LINE"
        PROVE  grid' = AddLine(grid, x.x) /\ UNCHANGED <<current_tetromino, next_tetromino_shape, state, anim_target_line>>
    <2>1. BoardPacket(x)
      BY <1>4, <1>9
    <2> QED
      BY <1>9, <2>1 DEF BoardPacket
  <1> QED
    BY <1>1, <1>2, <1>3, <1>5, <1>6, <1>7, <1>8, <1>9

\* The row in which the animation begins is one of the grid's.
LEMMA AnimStarts == AnimStartLine \in (-Rows - 1)..(Rows - 1)
  <1> DEFINE S == {0} \cup {r \in RowSet : \E c \in ColSet : grid[r][c] = "Colour"}
             b == Rows - 1
  <1>1. S \in SUBSET (0..(Rows - 1)) /\ S # {} /\ Rows - 1 \in Int /\ Rows >= 1
    BY SizeFacts
  <1>2. AnimStartLine = Max(S)
    BY DEF AnimStartLine
  <1> HIDE DEF S, b
  <1>3. Max(S) \in 0..(Rows - 1)
    <2>1. b = Rows - 1
      BY DEF b
    <2>2. 0 \in Int /\ b \in Int /\ S \in SUBSET (0..b) /\ S # {}
      BY <1>1, <2>1
    <2>3. Max(S) \in S
      BY <2>2, MaxIs
    <2> QED
      BY <2>1, <2>2, <2>3
  <1> QED
    BY <1>1, <1>2, <1>3, SizeFacts

\* A packet turns the picture that the client shows into the next one.
LEMMA PacketShows ==
  ASSUME ClientTypes, HandlePacket, NEW x \in Task, x = Head(s2c),
         NEW p \in Picture, NEW b \in Picture, Shows(p), Follows(x, p, b)
  PROVE  ClientTypes' /\ Shows(b)' /\ b.kind # "idle" /\ (x.type = "GAME_OVER" => state' = "GAMEOVER_ANIMATING")
  <1>0. UNCHANGED crashed
    BY PacketIs
  <1>1. CASE p.kind = "idle" /\ x.type = "SINGLE_START" /\ b = Begun
    <2>1. state' = "PLAY" /\ UNCHANGED <<copy, anim_target_line>>
      BY <1>1, PacketIs
    <2>2. EmptyCopy
      BY <1>1 DEF Shows
    <2>3. b.kind = "live" /\ b.board = EmptyBoard /\ b.cur = NoPiece /\ b.next = "none"
      BY <1>1 DEF Begun
    <2>4. Agree(grid, b.board)
      BY <2>2, <2>3, EmptyAgrees DEF EmptyCopy
    <2>5. Shows(b)'
      BY <2>1, <2>2, <2>3, <2>4 DEF Shows, EmptyCopy, copy
    <2>6. ClientTypes'
      BY <1>0, <2>1 DEF ClientTypes, copy
    <2> QED
      BY <1>1, <2>3, <2>5, <2>6
  <1>2. CASE /\ p.kind = "live" /\ x.type = "MOVE"
             /\ b = [p EXCEPT !.cur = IF p.cur = NoPiece THEN NoPiece ELSE HandleMove(p.cur, x.move)]
    <2>1. /\ current_tetromino' = IF current_tetromino = NoPiece THEN NoPiece ELSE HandleMove(current_tetromino, x.move)
          /\ UNCHANGED <<grid, next_tetromino_shape, state, anim_target_line>>
      BY <1>2, PacketIs
    <2>2. state = "PLAY" /\ Agree(grid, p.board) /\ current_tetromino = p.cur /\ next_tetromino_shape = p.next
      BY <1>2 DEF Shows
    <2>3. b.kind = "live" /\ b.board = p.board /\ b.next = p.next
      BY <1>2 DEF Picture
    <2>4. b.cur = IF p.cur = NoPiece THEN NoPiece ELSE HandleMove(p.cur, x.move)
      BY <1>2 DEF Picture
    <2>5. current_tetromino' = b.cur
      BY <2>1, <2>2, <2>4
    <2>6. b.cur \in {NoPiece} \cup (Placed \cap Piece)
      BY DEF Picture
    <2>7. Shows(b)'
      BY <2>1, <2>2, <2>3, <2>5 DEF Shows
    <2>8. ClientTypes'
      BY <1>0, <2>1, <2>5, <2>6 DEF ClientTypes
    <2> QED
      BY <1>2, <2>3, <2>7, <2>8
  <1>3. CASE /\ p.kind = "live" /\ x.type = "SPAWN"
             /\ b = [p EXCEPT !.cur = Spawned(x.shape), !.next = x.next]
    <2>1. /\ current_tetromino' = Spawned(x.shape) /\ next_tetromino_shape' = x.next
          /\ UNCHANGED <<grid, state, anim_target_line>>
      BY <1>3, PacketIs
    <2>2. state = "PLAY" /\ Agree(grid, p.board)
      BY <1>3 DEF Shows
    <2>3. b.kind = "live" /\ b.board = p.board /\ b.next = x.next /\ b.cur = Spawned(x.shape)
      BY <1>3 DEF Picture
    <2>4. b.cur \in {NoPiece} \cup (Placed \cap Piece) /\ b.next \in Pieces \cup {"none"}
      BY DEF Picture
    <2>5. Shows(b)'
      BY <2>1, <2>2, <2>3 DEF Shows
    <2>6. ClientTypes'
      BY <1>0, <2>1, <2>3, <2>4 DEF ClientTypes
    <2> QED
      BY <1>3, <2>3, <2>5, <2>6
  <1>4. CASE /\ p.kind = "live" /\ x.type = "FIX" /\ p.cur # NoPiece
             /\ b = [p EXCEPT !.board = FixTetromino(p.board, FixPlace(p.cur, x.x, x.y)), !.cur = NoPiece]
    <2>1. /\ grid' = IF current_tetromino = NoPiece THEN grid ELSE FixCells(grid, FixPlace(current_tetromino, x.x, x.y))
          /\ current_tetromino' = NoPiece
          /\ UNCHANGED <<next_tetromino_shape, state, anim_target_line>>
      BY <1>4, PacketIs
    <2>2. state = "PLAY" /\ Agree(grid, p.board) /\ current_tetromino = p.cur /\ next_tetromino_shape = p.next
      BY <1>4 DEF Shows
    <2> DEFINE k == FixPlace(p.cur, x.x, x.y)
    <2>3. p.cur \in Placed /\ x.x \in Int /\ x.y \in Int /\ p.board \in Board
      BY <1>4 DEF Picture, Task
    <2>4. k \in Placed
      BY <2>3, PieceMoves DEF FixPlace
    <2>5. grid' = FixCells(grid, k)
      BY <1>4, <2>1, <2>2
    <2> HIDE DEF k
    <2>6. b.kind = "live" /\ b.board = FixTetromino(p.board, k) /\ b.next = p.next /\ b.cur = NoPiece
      BY <1>4 DEF Picture, k
    <2>7. b.board \in Board
      BY DEF Picture
    <2>8. FixCells(grid, k) \in Grid /\ Agree(FixCells(grid, k), b.board)
      BY <2>2, <2>3, <2>4, <2>6, <2>7, FixAgrees DEF ClientTypes
    <2>9. Agree(grid, b.board)'
      BY <2>5, <2>8 DEF Agree
    <2>10. Shows(b)'
      BY <2>1, <2>2, <2>6, <2>9 DEF Shows
    <2>11. ClientTypes'
      BY <1>0, <2>1, <2>5, <2>8 DEF ClientTypes
    <2> QED
      BY <1>4, <2>6, <2>10, <2>11
  <1>5. CASE p.kind = "live" /\ x.type = "CLEAR_LINE" /\ b = [p EXCEPT !.board = RowRemoved(p.board, x.y)]
    <2>1. grid' = ClearLines(grid, x.y) /\ UNCHANGED <<current_tetromino, next_tetromino_shape, state, anim_target_line>>
      BY <1>5, PacketIs
    <2>2. state = "PLAY" /\ Agree(grid, p.board) /\ current_tetromino = p.cur /\ next_tetromino_shape = p.next
      BY <1>5 DEF Shows
    <2>3. x.y \in RowSet /\ p.board \in Board
      BY <1>5 DEF Picture, Task
    <2>4. b.kind = "live" /\ b.board = RowRemoved(p.board, x.y) /\ b.next = p.next /\ b.cur = p.cur
      BY <1>5 DEF Picture
    <2>5. ClearLines(grid, x.y) \in Grid /\ Agree(ClearLines(grid, x.y), b.board)
      BY <2>2, <2>3, <2>4, ClearAgrees DEF ClientTypes
    <2>6. Agree(grid, b.board)'
      BY <2>1, <2>5 DEF Agree
    <2>7. Shows(b)'
      BY <2>1, <2>2, <2>4, <2>6 DEF Shows
    <2>8. ClientTypes'
      BY <1>0, <2>1, <2>5 DEF ClientTypes
    <2> QED
      BY <1>5, <2>4, <2>7, <2>8
  <1>6. CASE p.kind = "live" /\ x.type = "ADD_LINE" /\ b = [p EXCEPT !.board = LineAdded(p.board, x.x)]
    <2>1. grid' = AddLine(grid, x.x) /\ UNCHANGED <<current_tetromino, next_tetromino_shape, state, anim_target_line>>
      BY <1>6, PacketIs
    <2>2. state = "PLAY" /\ Agree(grid, p.board) /\ current_tetromino = p.cur /\ next_tetromino_shape = p.next
      BY <1>6 DEF Shows
    <2>3. x.x \in ColSet /\ p.board \in Board
      BY <1>6 DEF Picture, Task
    <2>4. b.kind = "live" /\ b.board = LineAdded(p.board, x.x) /\ b.next = p.next /\ b.cur = p.cur
      BY <1>6 DEF Picture
    <2>5. AddLine(grid, x.x) \in Grid /\ Agree(AddLine(grid, x.x), b.board)
      BY <2>2, <2>3, <2>4, LineAgrees DEF ClientTypes
    <2>6. Agree(grid, b.board)'
      BY <2>1, <2>5 DEF Agree
    <2>7. Shows(b)'
      BY <2>1, <2>2, <2>4, <2>6 DEF Shows
    <2>8. ClientTypes'
      BY <1>0, <2>1, <2>5 DEF ClientTypes
    <2> QED
      BY <1>6, <2>4, <2>7, <2>8
  <1>7. CASE p.kind \in {"live", "dead"} /\ x.type = "GAME_OVER" /\ b.kind = "dead" /\ b.cur = p.cur
    <2>1. state' = "GAMEOVER_ANIMATING" /\ anim_target_line' = AnimStartLine /\ UNCHANGED copy
      BY <1>7, PacketIs DEF ProcessGameover
    <2>2. p.cur = NoPiece => current_tetromino = NoPiece
      BY <1>7 DEF Shows
    <2>3. Shows(b)'
      BY <1>7, <2>1, <2>2 DEF Shows, copy
    <2>4. ClientTypes'
      BY <1>0, <2>1, AnimStarts DEF ClientTypes, copy
    <2> QED
      BY <1>7, <2>1, <2>3, <2>4
  <1>8. CASE p.kind = "dead" /\ x.type = "ADD_LINE" /\ b = p
    <2>1. grid' = AddLine(grid, x.x) /\ UNCHANGED <<current_tetromino, next_tetromino_shape, state, anim_target_line>>
      BY <1>8, PacketIs
    <2>2. x.x \in ColSet
      BY <1>8 DEF Task
    <2>3. AddLine(grid, x.x) \in Grid
      BY <2>2, LineAgrees DEF ClientTypes
    <2>4. Shows(b)'
      BY <1>8, <2>1 DEF Shows
    <2>5. ClientTypes'
      BY <1>0, <2>1, <2>3 DEF ClientTypes
    <2> QED
      BY <1>8, <2>4, <2>5
  <1>9. CASE p.kind = "dead" /\ x.type = "MOVE" /\ p.cur = NoPiece /\ b = p
    <2>1. current_tetromino = NoPiece
      BY <1>9 DEF Shows
    <2>2. current_tetromino' = NoPiece /\ UNCHANGED <<grid, next_tetromino_shape, state, anim_target_line>>
      BY <1>9, <2>1, PacketIs
    <2>3. Shows(b)'
      BY <1>9, <2>2 DEF Shows
    <2>4. ClientTypes'
      BY <1>0, <2>2 DEF ClientTypes
    <2> QED
      BY <1>9, <2>3, <2>4
  <1>10. p.kind = "live" /\ b = [p EXCEPT !.kind = "dead"] => b.kind = "dead" /\ b.cur = p.cur
    BY DEF Picture
  <1> QED
    BY <1>1, <1>2, <1>3, <1>4, <1>5, <1>6, <1>7, <1>8, <1>9, <1>10 DEF Follows

----------------------------------------------------------------------------
(* The copy, the packets under way and the room together. *)

Idle == [kind |-> "idle", board |-> EmptyBoard, cur |-> NoPiece, next |-> "none"]

\* The client shows picture p, and the packets under way lead from it to q, which is the
\* room's game; the last packet of a game that is over says so.
Tells(p, q) ==
  /\ Shows(p) /\ Plays(p, s2c, q)
  /\ room_state = "PLAY" => q = Live(board_, current_, next_)
  /\ room_state = "WAIT" => q.kind \in {"idle", "dead"}
  /\ q.kind = "dead" /\ s2c # <<>> => EndsGame(s2c)

Tale == \E p, q \in Picture : Tells(p, q)

\* A client that waits and has nothing to handle is empty.
Waits == state = "WAIT" /\ s2c = <<>> => EmptyCopy

\* A patient player's START is the only request, and finds the client waiting.
StartSent ==
  \/ c2s \in Seq({"GIVE_UP"})
  \/ c2s = <<"START">> /\ state = "WAIT" /\ s2c = <<>>

CopyInv ==
  /\ ServerInv /\ ClientTypes /\ s2c \in Seq(Task) /\ Len(c2s) <= MaxRequests
  /\ Tale /\ Waits /\ StartSent

\* The picture of a client that waits.
LEMMA IdleIs ==
  /\ Idle \in Picture /\ Idle.kind = "idle" /\ Begun \in Picture /\ Begun.kind = "live"
  BY EmptyIs DEF Idle, Begun, Picture

\* The two packets of a start lead from a client that waits to the new game.
LEMMA StartTells ==
  ASSUME NEW first \in Pieces, NEW next \in Pieces, NEW s,
         s = << [type |-> "SINGLE_START"], [type |-> "SPAWN", shape |-> first, next |-> next] >>
  PROVE  LET c == Live(EmptyBoard, Spawned(first), next)
         IN  s \in Seq(Task) /\ c \in Picture /\ c.kind = "live" /\ Plays(Idle, s, c)
  <1> DEFINE x == [type |-> "SINGLE_START"]
             y == [type |-> "SPAWN", shape |-> first, next |-> next]
             p == Spawned(first)
             c == Live(EmptyBoard, p, next)
             u == Append(<<>>, x)
  <1>1. x \in Task /\ x.type = "SINGLE_START" /\ y \in Task /\ y.type = "SPAWN" /\ y.shape = first /\ y.next = next
    BY DEF Task
  <1>2. p \in Placed /\ IsValidPosition(EmptyBoard, p)
    BY EmptyIs, SpawnedIs, SpawnFits DEF Clear
  <1>3. c \in Picture /\ c.kind = "live"
    BY <1>2, EmptyIs, LiveIs
  <1>4. c = [Begun EXCEPT !.cur = Spawned(y.shape), !.next = y.next]
    <2> DEFINE z == [Begun EXCEPT !.cur = p, !.next = next]
    <2>1. p \in Placed \cap Piece
      BY <1>2, ValidIsPiece
    <2>2. z \in Picture /\ z.kind = "live" /\ z.board = EmptyBoard /\ z.cur = p /\ z.next = next
      <3>1. Begun \in Picture /\ Begun.kind = "live" /\ Begun.board = EmptyBoard
        BY IdleIs DEF Begun
      <3> HIDE DEF p
      <3> QED
        BY <2>1, <3>1 DEF Picture
    <2>3. z = [Begun EXCEPT !.cur = Spawned(y.shape), !.next = y.next]
      BY <1>1
    <2> HIDE DEF z
    <2>4. z = c
      BY <1>2, <2>2, EmptyIs, LiveIs
    <2> QED
      BY <2>3, <2>4
  <1>5. s = Append(u, y)
    OBVIOUS
  <1> HIDE DEF x, y, p, c
  <1>6. <<>> \in Seq(Task) /\ u \in Seq(Task) /\ s \in Seq(Task)
    BY <1>1, <1>5
  <1>7. Follows(x, Idle, Begun)
    BY <1>1, IdleIs DEF Follows
  <1>8. Plays(Idle, u, Begun)
    BY <1>1, <1>6, <1>7, IdleIs, PlaysNothing, PlaysOn
  <1>9. Follows(y, Begun, c)
    BY <1>1, <1>4, IdleIs DEF Follows
  <1> HIDE DEF u
  <1>10. Plays(Idle, s, c)
    BY <1>1, <1>3, <1>5, <1>6, <1>8, <1>9, PlaysOn
  <1> QED
    BY <1>3, <1>6, <1>10 DEF c, p

\* What the tale says when no packet is under way.
LEMMA NothingUnderWay ==
  ASSUME NEW p \in Picture, NEW q \in Picture, Tells(p, q), s2c = <<>>
  PROVE  p = q /\ Shows(q)
  BY PlaysNone DEF Tells

\* The room's game as a picture.
LEMMA RoomPicture ==
  ASSUME ServerInv, room_state = "PLAY"
  PROVE  /\ Live(board_, current_, next_).kind = "live" /\ Live(board_, current_, next_).board = board_
         /\ Live(board_, current_, next_).cur = current_ /\ Live(board_, current_, next_).next = next_
  BY DEF Live

\* A request changes nothing that the tale is about.
LEMMA TaleStays ==
  ASSUME CopyInv, UNCHANGED <<server, s2c, client>>
  PROVE  ClientTypes' /\ Tale' /\ Waits'
  <1>1. PICK p \in Picture, q \in Picture : Tells(p, q)
    BY DEF CopyInv, Tale
  <1>2. Shows(p)'
    BY <1>1 DEF Tells, Shows, EmptyCopy, client, copy, Agree
  <1>3. Tells(p, q)'
    BY <1>1, <1>2 DEF Tells, server, Live
  <1>4. ClientTypes' /\ Waits'
    BY DEF CopyInv, ClientTypes, Waits, EmptyCopy, client, copy
  <1> QED
    BY <1>3, <1>4 DEF Tale

\* Requests: a player who presses START waits for an answer.
LEMMA PressStep ==
  ASSUME Patient, CopyInv, PressStart \/ PressGiveUp
  PROVE  CopyInv'
  <1>1. UNCHANGED <<server, s2c, client>>
    BY DEF PressStart, PressGiveUp
  <1>2. ClientTypes' /\ Tale' /\ Waits'
    BY <1>1, TaleStays
  <1>3. ServerInv' /\ s2c' \in Seq(Task)
    BY <1>1, ServerStep DEF CopyInv, Next
  <1>4. CASE PressStart
    <2>1. c2s = <<>> /\ state = "WAIT" /\ s2c = <<>> /\ c2s' = Append(c2s, "START") /\ Len(c2s) < MaxRequests
      BY <1>4, GameAssumption DEF PressStart
    <2>2. c2s' = <<"START">> /\ Len(c2s') = 1 /\ Len(c2s) = 0
      BY <2>1
    <2>3. MaxRequests \in Nat
      BY GameAssumption
    <2>4. Len(c2s') <= MaxRequests
      BY <2>1, <2>2, <2>3
    <2>5. StartSent'
      BY <1>1, <2>1, <2>2 DEF StartSent, client
    <2> QED
      BY <1>2, <1>3, <2>4, <2>5 DEF CopyInv
  <1>5. CASE PressGiveUp
    <2>1. state = "PLAY" /\ c2s' = Append(c2s, "GIVE_UP") /\ Len(c2s) < MaxRequests
      BY <1>5 DEF PressGiveUp
    <2>2. c2s \in Seq({"GIVE_UP"})
      BY <2>1 DEF CopyInv, StartSent
    <2>3. MaxRequests \in Nat
      BY GameAssumption
    <2>4. c2s' \in Seq({"GIVE_UP"}) /\ Len(c2s') <= MaxRequests
      BY <2>1, <2>2, <2>3
    <2>5. StartSent'
      BY <2>4 DEF StartSent
    <2> QED
      BY <1>2, <1>3, <2>4, <2>5 DEF CopyInv
  <1> QED
    BY <1>4, <1>5

\* The client handles a packet.
LEMMA HandleStep ==
  ASSUME CopyInv, HandlePacket
  PROVE  CopyInv'
  <1>1. PICK x : x = Head(s2c)
    OBVIOUS
  <1>2. s2c # <<>> /\ s2c' = Tail(s2c) /\ UNCHANGED <<server, c2s>>
    BY <1>1, PacketIs
  <1>3. PICK p \in Picture, q \in Picture : Tells(p, q)
    BY DEF CopyInv, Tale
  <1>4. s2c \in Seq(Task)
    BY DEF CopyInv
  <1>5. x \in Task /\ s2c' \in Seq(Task) /\ Len(s2c') = Len(s2c) - 1 /\ Len(s2c) \in Nat /\ Len(s2c) >= 1 /\ x = s2c[1]
    BY <1>1, <1>2, <1>4
  <1>6. PICK b \in Picture : Follows(x, p, b) /\ Plays(b, s2c', q)
    BY <1>1, <1>2, <1>3, <1>4, PlaysFirst DEF Tells
  <1>7. Shows(p)
    BY <1>3 DEF Tells
  <1>8. ClientTypes' /\ Shows(b)' /\ b.kind # "idle" /\ (x.type = "GAME_OVER" => state' = "GAMEOVER_ANIMATING")
    BY <1>1, <1>5, <1>6, <1>7, PacketShows DEF CopyInv
  <1>9. q.kind = "dead" => s2c[Len(s2c)].type = "GAME_OVER"
    BY <1>2, <1>3 DEF Tells, EndsGame
  <1>10. q.kind = "dead" /\ s2c' # <<>> => EndsGame(s2c')
    <2>1. SUFFICES ASSUME q.kind = "dead", s2c' # <<>> PROVE EndsGame(s2c')
      OBVIOUS
    <2>2. s2c'[Len(s2c')] = s2c[Len(s2c)]
      BY <1>2, <1>4, <1>5, <2>1
    <2> QED
      BY <1>5, <1>9, <2>1, <2>2 DEF EndsGame
  <1>11. Tells(b, q)'
    BY <1>2, <1>3, <1>6, <1>8, <1>10 DEF Tells, server, Live
  <1>12. Waits'
    <2>1. SUFFICES ASSUME state' = "WAIT", s2c' = <<>> PROVE FALSE
      BY DEF Waits
    <2>2. Len(s2c) = 1
      BY <1>5, <2>1
    <2>3. b = q
      BY <1>6, <2>1, PlaysNone
    <2>4. b.kind # "live"
      BY <1>8, <2>1 DEF Shows
    <2>5. b.kind = "dead"
      BY <1>8, <2>4 DEF Picture
    <2>6. x.type = "GAME_OVER"
      BY <1>5, <1>9, <2>2, <2>3, <2>5
    <2> QED
      BY <1>8, <2>1, <2>6
  <1>13. StartSent'
    BY <1>2 DEF CopyInv, StartSent
  <1>14. ServerInv'
    BY ServerStep DEF CopyInv, Next
  <1>15. Len(c2s') <= MaxRequests
    BY <1>2 DEF CopyInv
  <1>16. Tale'
    BY <1>11 DEF Tale
  <1> QED
    BY <1>5, <1>8, <1>12, <1>13, <1>14, <1>15, <1>16 DEF CopyInv

\* The server answers a START: only a waiting client sent it.
LEMMA StartStep ==
  ASSUME CopyInv, StartGame
  PROVE  CopyInv'
  <1>1. c2s # <<>> /\ Head(c2s) = "START" /\ c2s' = Tail(c2s) /\ UNCHANGED client
    BY DEF StartGame
  <1>2. c2s = <<"START">> /\ state = "WAIT" /\ s2c = <<>>
    <2>1. CASE c2s \in Seq({"GIVE_UP"})
      <3>1. Head(c2s) \in {"GIVE_UP"}
        BY <1>1, <2>1
      <3> QED
        BY <1>1, <3>1
    <2> QED
      BY <2>1 DEF CopyInv, StartSent
  <1>3. PICK p \in Picture, q \in Picture : Tells(p, q)
    BY DEF CopyInv, Tale
  <1>4. Shows(q)
    BY <1>2, <1>3, NothingUnderWay
  <1>5. room_state # "PLAY"
    <2>1. SUFFICES ASSUME room_state = "PLAY" PROVE FALSE
      OBVIOUS
    <2>2. q.kind = "live"
      BY <1>3, <2>1, RoomPicture DEF Tells, CopyInv
    <2> QED
      BY <1>2, <1>4, <2>2 DEF Shows
  <1>6. PICK b \in Bags : \E first, next \in b :
          /\ bag' = b /\ room_state' = "PLAY" /\ board_' = EmptyBoard
          /\ current_' = Spawned(first) /\ next_' = next
          /\ s2c' = s2c \o << [type |-> "SINGLE_START"], [type |-> "SPAWN", shape |-> first, next |-> next] >>
    BY <1>5 DEF StartGame
  <1>7. PICK first \in b, next \in b :
          /\ bag' = b /\ room_state' = "PLAY" /\ board_' = EmptyBoard
          /\ current_' = Spawned(first) /\ next_' = next
          /\ s2c' = s2c \o << [type |-> "SINGLE_START"], [type |-> "SPAWN", shape |-> first, next |-> next] >>
    BY <1>6
  <1>8. PICK s : s = << [type |-> "SINGLE_START"], [type |-> "SPAWN", shape |-> first, next |-> next] >>
    OBVIOUS
  <1>9. s2c' = s /\ s # <<>>
    BY <1>2, <1>7, <1>8
  <1> DEFINE c == Live(EmptyBoard, Spawned(first), next)
  <1>10. s \in Seq(Task) /\ c \in Picture /\ c.kind = "live" /\ Plays(Idle, s, c)
    <2>1. first \in Pieces /\ next \in Pieces
      BY StartRuns
    <2> QED
      BY <1>8, <2>1, StartTells
  <1>11. c = Live(board_, current_, next_)'
    BY <1>7 DEF Live
  <1> HIDE DEF c
  <1>12. EmptyCopy'
    <2>1. EmptyCopy
      BY <1>2 DEF CopyInv, Waits
    <2> QED
      BY <1>1, <2>1 DEF EmptyCopy, client, copy
  <1>13. Shows(Idle)'
    BY <1>1, <1>2, <1>12, IdleIs DEF Shows, client
  <1>14. Tells(Idle, c)'
    BY <1>7, <1>9, <1>10, <1>11, <1>13 DEF Tells
  <1>15. Tale'
    BY <1>10, <1>14, IdleIs DEF Tale
  <1>16. ClientTypes' /\ Waits'
    BY <1>1, <1>9 DEF CopyInv, ClientTypes, Waits, client, copy
  <1>17. StartSent' /\ Len(c2s') <= MaxRequests
    <2>1. c2s' = <<>>
      BY <1>1, <1>2
    <2>2. MaxRequests \in Nat
      BY GameAssumption
    <2>3. Len(c2s') <= MaxRequests
      BY <2>1, <2>2
    <2> QED
      BY <2>1, <2>3 DEF StartSent
  <1>18. ServerInv'
    BY ServerStep DEF CopyInv, Next
  <1> QED
    BY <1>9, <1>10, <1>15, <1>16, <1>17, <1>18 DEF CopyInv

\* A picture whose game ends.
LEMMA GameOverTells ==
  ASSUME NEW p \in Picture, NEW q \in Picture, q.kind = "live", NEW s \in Seq(Task), Plays(p, s, q), NEW x, x = [type |-> "GAME_OVER"]
  PROVE  /\ Append(s, x) \in Seq(Task) /\ Append(s, x) # <<>> /\ EndsGame(Append(s, x))
         /\ \E c \in Picture : c.kind = "dead" /\ Plays(p, Append(s, x), c)
  <1>1. x \in Task /\ x.type = "GAME_OVER"
    BY DEF Task
  <1> DEFINE c == [q EXCEPT !.kind = "dead"]
  <1>2. c \in Picture /\ c.kind = "dead"
    BY DEF Picture
  <1>3. Follows(x, q, c)
    BY <1>1 DEF Follows
  <1> HIDE DEF c
  <1>4. Plays(p, Append(s, x), c)
    BY <1>1, <1>2, <1>3, PlaysOn
  <1>5. Append(s, x) \in Seq(Task) /\ Append(s, x) # <<>> /\ EndsGame(Append(s, x))
    BY <1>1 DEF EndsGame
  <1> QED
    BY <1>2, <1>4, <1>5

\* The server answers a GIVE_UP, at any time.
LEMMA GiveUpStep ==
  ASSUME CopyInv, GiveUp
  PROVE  CopyInv'
  <1>1. c2s # <<>> /\ Head(c2s) = "GIVE_UP" /\ c2s' = Tail(c2s) /\ UNCHANGED client
    BY DEF GiveUp
  <1>2. c2s \in Seq({"GIVE_UP"})
    BY <1>1 DEF CopyInv, StartSent
  <1>3. StartSent' /\ Len(c2s') <= MaxRequests
    <2>1. MaxRequests \in Nat /\ Len(c2s) <= MaxRequests
      BY GameAssumption DEF CopyInv
    <2>2. c2s' \in Seq({"GIVE_UP"}) /\ Len(c2s') <= MaxRequests
      BY <1>1, <1>2, <2>1
    <2> QED
      BY <2>2 DEF StartSent
  <1>4. ServerInv'
    BY ServerStep DEF CopyInv, Next
  <1>5. CASE room_state # "PLAY"
    <2>1. UNCHANGED <<server, s2c, client>>
      BY <1>1, <1>5 DEF GiveUp
    <2>2. ClientTypes' /\ Tale' /\ Waits'
      BY <2>1, TaleStays
    <2>3. s2c' \in Seq(Task)
      BY <2>1 DEF CopyInv
    <2> QED
      BY <1>3, <1>4, <2>2, <2>3 DEF CopyInv
  <1>6. CASE room_state = "PLAY"
    <2>1. PICK x : x = [type |-> "GAME_OVER"]
      OBVIOUS
    <2>2. ClearGame /\ s2c' = Append(s2c, x)
      BY <1>6, <2>1 DEF GiveUp
    <2>3. PICK p \in Picture, q \in Picture : Tells(p, q)
      BY DEF CopyInv, Tale
    <2>4. q.kind = "live" /\ Plays(p, s2c, q) /\ Shows(p)
      BY <1>6, <2>3, RoomPicture DEF Tells, CopyInv
    <2>5. /\ s2c' \in Seq(Task) /\ s2c' # <<>> /\ EndsGame(s2c')
          /\ \E c \in Picture : c.kind = "dead" /\ Plays(p, s2c', c)
      <3>1. PICK s \in Seq(Task) : s = s2c
        BY DEF CopyInv
      <3>2. /\ Append(s, x) \in Seq(Task) /\ Append(s, x) # <<>> /\ EndsGame(Append(s, x))
            /\ \E c \in Picture : c.kind = "dead" /\ Plays(p, Append(s, x), c)
        BY <2>1, <2>4, <3>1, GameOverTells
      <3> QED
        BY <2>2, <3>1, <3>2
    <2>6. PICK c \in Picture : c.kind = "dead" /\ Plays(p, s2c', c)
      BY <2>5
    <2>7. Shows(p)'
      BY <1>1, <2>4 DEF Shows, EmptyCopy, client, copy, Agree
    <2>8. room_state' = "WAIT"
      BY <2>2 DEF ClearGame
    <2>9. Tells(p, c)'
      BY <2>5, <2>6, <2>7, <2>8 DEF Tells
    <2>10. Tale'
      BY <2>9 DEF Tale
    <2>11. ClientTypes' /\ Waits'
      BY <1>1, <2>5 DEF CopyInv, ClientTypes, Waits, client, copy
    <2> QED
      BY <1>3, <1>4, <2>5, <2>10, <2>11 DEF CopyInv
  <1> QED
    BY <1>5, <1>6

\* A tick: a game that runs and one that ends.
LEMMA TickTells ==
  ASSUME CopyInv, ProcessGameTick
  PROVE  CopyInv'
  <1>1. /\ room_state = "PLAY" /\ s2c = <<>> /\ UNCHANGED <<c2s, client>>
        /\ \E bd, cur, nx, t, n :
              /\ bd = board_ /\ cur = current_ /\ nx = next_ /\ Runs(bd, cur, nx, bag)
              /\ s2c' = t.tasks
              /\ \/ Finished(Live(bd, cur, nx), t) /\ ClearGame
                 \/ /\ Continues(Live(bd, cur, nx), t, n) /\ n \in bag
                    /\ board_' = t.board /\ current_' = t.current /\ next_' = n
                    /\ UNCHANGED <<room_state, bag>>
    BY TickStep DEF CopyInv
  <1>2. PICK bd, cur, nx, t, n :
              /\ bd = board_ /\ cur = current_ /\ nx = next_ /\ Runs(bd, cur, nx, bag)
              /\ s2c' = t.tasks
              /\ \/ Finished(Live(bd, cur, nx), t) /\ ClearGame
                 \/ /\ Continues(Live(bd, cur, nx), t, n) /\ n \in bag
                    /\ board_' = t.board /\ current_' = t.current /\ next_' = n
                    /\ UNCHANGED <<room_state, bag>>
    BY <1>1
  <1>3. PICK p \in Picture, q \in Picture : Tells(p, q)
    BY DEF CopyInv, Tale
  <1>4. q = Live(bd, cur, nx)
    BY <1>1, <1>2, <1>3 DEF Tells
  <1>5. q.kind = "live"
    BY <1>4 DEF Live
  <1>6. Shows(q) /\ state = "PLAY"
    <2>1. Shows(q)
      BY <1>1, <1>3, NothingUnderWay
    <2> QED
      BY <1>5, <2>1 DEF Shows
  <1>7. Shows(q)'
    BY <1>1, <1>6 DEF Shows, EmptyCopy, client, copy, Agree
  <1>8. ClientTypes' /\ Waits' /\ StartSent' /\ Len(c2s') <= MaxRequests
    BY <1>1, <1>6 DEF CopyInv, ClientTypes, Waits, StartSent, client, copy
  <1>9. ServerInv'
    BY ServerStep DEF CopyInv, Next
  <1>10. CASE Finished(Live(bd, cur, nx), t) /\ ClearGame
    <2>1. EndsGame(s2c') /\ \E b \in Picture : b.kind = "dead" /\ Plays(q, s2c', b)
      BY <1>2, <1>4, <1>10 DEF Finished
    <2>2. PICK b \in Picture : b.kind = "dead" /\ Plays(q, s2c', b)
      BY <2>1
    <2>3. room_state' = "WAIT"
      BY <1>10 DEF ClearGame
    <2>4. Tells(q, b)'
      BY <1>7, <2>1, <2>2, <2>3 DEF Tells
    <2>5. Tale' /\ s2c' \in Seq(Task)
      BY <2>1, <2>4 DEF Tale, EndsGame
    <2> QED
      BY <1>8, <1>9, <2>5 DEF CopyInv
  <1>11. CASE ~(Finished(Live(bd, cur, nx), t) /\ ClearGame)
    <2>1. /\ Continues(q, t, n)
          /\ board_' = t.board /\ current_' = t.current /\ next_' = n /\ room_state' = "PLAY"
      BY <1>1, <1>2, <1>4, <1>11
    <2> DEFINE b == Live(t.board, t.current, n)
    <2>2. b \in Picture /\ b.kind = "live" /\ Plays(q, s2c', b) /\ s2c' \in Seq(Task)
      BY <1>2, <2>1 DEF Continues, Live
    <2>3. b = Live(board_, current_, next_)'
      BY <2>1 DEF Live
    <2> HIDE DEF b
    <2>4. Tells(q, b)'
      BY <1>7, <2>1, <2>2, <2>3 DEF Tells
    <2>5. Tale'
      BY <2>2, <2>4 DEF Tale
    <2> QED
      BY <1>8, <1>9, <2>2, <2>5 DEF CopyInv
  <1> QED
    BY <1>10, <1>11

\* A row of the animation, or its end.
LEMMA AnimateStep ==
  ASSUME CopyInv, AnimateGameover
  PROVE  CopyInv'
  <1>1. state = "GAMEOVER_ANIMATING" /\ UNCHANGED <<server, c2s, s2c>>
    BY DEF AnimateGameover
  <1>2. ClientTypes /\ s2c \in Seq(Task)
    BY DEF CopyInv
  <1>3. /\ ClientTypes'
        /\ \/ state' = "WAIT" /\ EmptyCopy'
           \/ state' = "GAMEOVER_ANIMATING" /\ UNCHANGED current_tetromino
    <2>1. CASE anim_target_line < -Rows
      <3>1. crashed' = TRUE /\ UNCHANGED <<state, copy, anim_target_line>>
        BY <2>1 DEF AnimateGameover
      <3> QED
        BY <1>1, <1>2, <3>1 DEF ClientTypes, copy
    <2>2. CASE ~(anim_target_line < -Rows)
      <3>1. PICK line : line = IF anim_target_line < 0 THEN Rows + anim_target_line ELSE anim_target_line
        OBVIOUS
      <3>2. /\ IF grid[line] = EmptyRow THEN Reset
               ELSE /\ grid' = [grid EXCEPT ![line] = [c \in ColSet |-> IF @[c] = "None" THEN "None" ELSE "G"]]
                    /\ anim_target_line' = anim_target_line - 1
                    /\ UNCHANGED <<state, current_tetromino, next_tetromino_shape>>
            /\ UNCHANGED crashed
        BY <2>2, <3>1 DEF AnimateGameover
      <3>3. anim_target_line \in (-Rows - 1)..(Rows - 1) /\ Rows \in Nat /\ Rows >= 1
        BY <1>2, SizeFacts DEF ClientTypes
      <3>4. CASE grid[line] = EmptyRow
        <4>1. Reset /\ UNCHANGED crashed
          BY <3>2, <3>4
        <4>2. EmptyCopy' /\ state' = "WAIT" /\ anim_target_line' = Rows - 1
          BY <4>1 DEF Reset, EmptyCopy, EmptyGrid, RowSet, ColSet, Rows, NoPiece
        <4>3. grid' \in Grid /\ current_tetromino' = NoPiece /\ next_tetromino_shape' = "none"
          BY <4>1, EmptyAgrees DEF Reset
        <4>4. anim_target_line' \in (-Rows - 1)..(Rows - 1)
          BY <3>3, <4>2
        <4>5. ClientTypes'
          BY <1>2, <4>1, <4>2, <4>3, <4>4 DEF ClientTypes
        <4> QED
          BY <4>2, <4>5
      <3>5. CASE grid[line] # EmptyRow
        <4>1. /\ grid' = [grid EXCEPT ![line] = [c \in ColSet |-> IF @[c] = "None" THEN "None" ELSE "G"]]
              /\ anim_target_line' = anim_target_line - 1
              /\ UNCHANGED <<state, current_tetromino, next_tetromino_shape, crashed>>
          BY <3>2, <3>5
        <4>2. anim_target_line' \in (-Rows - 1)..(Rows - 1)
          BY <2>2, <3>3, <4>1
        <4>3. grid' \in Grid
          BY <1>2, <4>1 DEF ClientTypes, Grid
        <4>4. ClientTypes'
          BY <1>2, <4>1, <4>2, <4>3 DEF ClientTypes
        <4> QED
          BY <1>1, <4>1, <4>4
      <3> QED
        BY <3>4, <3>5
    <2> QED
      BY <2>1, <2>2
  <1>4. PICK p \in Picture, q \in Picture : Tells(p, q)
    BY DEF CopyInv, Tale
  <1>5. p.kind = "dead" /\ (p.cur = NoPiece => current_tetromino = NoPiece)
    BY <1>1, <1>4 DEF Tells, Shows, Picture
  <1>6. Shows(p)'
    BY <1>3, <1>5 DEF Shows, EmptyCopy
  <1>7. Tells(p, q)'
    BY <1>1, <1>4, <1>6 DEF Tells, server, Live
  <1>8. Tale' /\ Waits' /\ StartSent'
    BY <1>1, <1>3, <1>7 DEF Tale, Waits, CopyInv, StartSent
  <1>9. ServerInv' /\ s2c' \in Seq(Task) /\ Len(c2s') <= MaxRequests
    BY <1>1, ServerStep DEF CopyInv, Next
  <1> QED
    BY <1>3, <1>8, <1>9 DEF CopyInv

\* At the start the client waits, as the room does.
LEMMA CopyInit == Init => CopyInv
  <1> SUFFICES ASSUME Init PROVE CopyInv
    OBVIOUS
  <1>1. ServerInv /\ EmptyCopy /\ state = "WAIT" /\ s2c = <<>> /\ c2s = <<>> /\ room_state = "WAIT"
    BY DEF Init, ServerInv, EmptyCopy
  <1>2. ClientTypes
    <2>1. Rows - 1 \in (-Rows - 1)..(Rows - 1)
      BY SizeFacts
    <2> QED
      BY <2>1, EmptyAgrees DEF Init, ClientTypes
  <1>3. Shows(Idle)
    BY <1>1, IdleIs DEF Shows
  <1>4. Plays(Idle, s2c, Idle)
    BY <1>1, IdleIs, PlaysNothing
  <1>5. Tells(Idle, Idle)
    BY <1>1, <1>3, <1>4, IdleIs DEF Tells
  <1>6. Tale /\ Waits /\ StartSent
    BY <1>1, <1>5, IdleIs DEF Tale, Waits, StartSent
  <1>7. s2c \in Seq(Task) /\ Len(c2s) <= MaxRequests
    BY <1>1, GameAssumption
  <1> QED
    BY <1>1, <1>2, <1>6, <1>7 DEF CopyInv

\* What the invariant says of the variables' types.
LEMMA CopyTyped ==
  ASSUME CopyInv
  PROVE  TypeOK
  <1>1. ServerInv /\ ClientTypes /\ StartSent /\ Len(c2s) <= MaxRequests
    BY DEF CopyInv
  <1>2. /\ room_state \in {"WAIT", "PLAY"} /\ board_ \in Board
        /\ current_ \in Piece /\ next_ \in bag \cup {"none"} /\ bag \in Bags \cup {{}}
    <2>1. CASE room_state = "PLAY"
      <3>1. Runs(board_, current_, next_, bag)
        BY <1>1, <2>1 DEF ServerInv
      <3>2. current_ \in Piece
        BY <3>1, ValidIsPiece DEF Runs
      <3> QED
        BY <2>1, <3>1, <3>2 DEF Runs
    <2>2. CASE room_state = "WAIT"
      <3>1. board_ = EmptyBoard /\ current_ = NoPiece /\ next_ = "none" /\ bag = {}
        BY <1>1, <2>2 DEF ServerInv
      <3> QED
        BY <2>2, <3>1, EmptyIs DEF Piece
    <2> QED
      BY <1>1, <2>1, <2>2 DEF ServerInv
  <1>3. c2s \in Seq({"START", "GIVE_UP"})
    <2>1. CASE c2s \in Seq({"GIVE_UP"})
      BY <2>1
    <2>2. CASE c2s = <<"START">>
      BY <2>2
    <2> QED
      BY <1>1, <2>1, <2>2 DEF StartSent
  <1>4. current_tetromino \in Piece
    BY <1>1 DEF ClientTypes, Piece
  <1> QED
    BY <1>1, <1>2, <1>3, <1>4 DEF TypeOK, ClientTypes, Board, Grid

\* The tale's end is the board.
LEMMA CopySettled ==
  ASSUME CopyInv
  PROVE  CopyAgrees
  <1>1. PICK p \in Picture, q \in Picture : Tells(p, q)
    BY DEF CopyInv, Tale
  <1>2. ASSUME InGame
        PROVE  /\ state = "PLAY" /\ Agree(grid, board_) /\ current_tetromino = current_
               /\ next_tetromino_shape = next_
    <2>1. room_state = "PLAY" /\ s2c = <<>>
      BY <1>2 DEF InGame
    <2>2. q = Live(board_, current_, next_)
      BY <1>1, <2>1 DEF Tells
    <2>3. q.kind = "live" /\ q.board = board_ /\ q.cur = current_ /\ q.next = next_
      BY <2>2 DEF Live
    <2>4. Shows(q)
      BY <1>1, <2>1, NothingUnderWay
    <2> QED
      BY <2>3, <2>4 DEF Shows
  <1>3. Mirror
    BY <1>2 DEF Mirror, Agree, Filled
  <1>4. LandingAgrees
    <2> SUFFICES ASSUME InGame PROVE MakeLanding(grid, current_tetromino).y = Landed(board_, current_).y
      BY DEF LandingAgrees
    <2>1. Runs(board_, current_, next_, bag)
      BY DEF InGame, CopyInv, ServerInv
    <2>2. PICK g \in Grid, bd \in Board, cur \in Placed : g = grid /\ bd = board_ /\ cur = current_ /\ IsValidPosition(bd, cur)
      BY <2>1 DEF Runs, CopyInv, ClientTypes
    <2>3. Agree(g, bd) /\ current_tetromino = cur
      BY <1>2, <2>2
    <2>4. MakeLanding(g, cur) = Landed(bd, cur)
      BY <2>2, <2>3, GhostAgrees
    <2> QED
      BY <2>2, <2>3, <2>4
  <1>5. WaitsOnEmptyBoard
    BY DEF CopyInv, Waits, WaitsOnEmptyBoard, EmptyCopy
  <1> QED
    BY <1>3, <1>4, <1>5, CopyTyped DEF CopyAgrees

\* Once the packets of a tick are handled, the client's copy is the server's board, and a
\* client that waits shows an empty one, in games of every size and for any inputs and
\* garbage (SinglePlayState.handle_packet, TetrisSession, make_landing_tetromino, reset).
\* The player presses START only while the button is drawn: the code's button reacts
\* during the animation, too.
THEOREM CopyIsTheBoard ==
  ASSUME Patient
  PROVE  Spec => []CopyAgrees
  <1>1. CopyInv /\ [Next]_vars => CopyInv'
    <2> SUFFICES ASSUME CopyInv, [Next]_vars PROVE CopyInv'
      OBVIOUS
    <2>1. CASE ProcessGameTick
      BY <2>1, TickTells
    <2>2. CASE StartGame
      BY <2>2, StartStep
    <2>3. CASE GiveUp
      BY <2>3, GiveUpStep
    <2>4. CASE HandlePacket
      BY <2>4, HandleStep
    <2>5. CASE AnimateGameover
      BY <2>5, AnimateStep
    <2>6. CASE PressStart \/ PressGiveUp
      BY <2>6, PressStep
    <2>7. CASE UNCHANGED vars
      <3>1. UNCHANGED <<server, s2c, client>> /\ c2s' = c2s
        BY <2>7 DEF vars
      <3>2. ClientTypes' /\ Tale' /\ Waits'
        BY <3>1, TaleStays
      <3>3. ServerInv' /\ s2c' \in Seq(Task) /\ Len(c2s') <= MaxRequests
        BY <3>1, ServerStep DEF CopyInv
      <3>4. StartSent'
        BY <3>1 DEF CopyInv, StartSent, client
      <3> QED
        BY <3>2, <3>3, <3>4 DEF CopyInv
    <2> QED
      BY <2>1, <2>2, <2>3, <2>4, <2>5, <2>6, <2>7 DEF Next
  <1>2. CopyInv => CopyAgrees
    BY CopySettled
  <1> QED
    BY <1>1, <1>2, CopyInit, PTL DEF Spec

=============================================================================
